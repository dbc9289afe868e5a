---------------------------- MODULE LibraryProofs ----------------------------
(***************************************************************************)
(* What Library promises for any number of papers, contents, chunks and    *)
(* threads, with or without a faulty vector store: every variable stays    *)
(* well formed, no two threads take in what was asked for in the same      *)
(* words, search does not keep an index that a finished merge has made     *)
(* obsolete, a paper that the catalog calls indexed has records in the     *)
(* store while contents share a chunk number, and a thread that worked     *)
(* alone with a sound store has left file, store and catalog in agreement. *)
(***************************************************************************)
EXTENDS Library, FiniteSetTheorems, TLAPS

-------------------------------------------------------------------------------
(* The inductive invariant. *)

\* Where a thread of each kind can be, and what it has in hand there.
Placed(r) ==
    /\ r.pc = "locate" => r.kind = "ingest"
    /\ r.pc \in {"parse", "write", "check"} => r.kind \in {"ingest", "parse"}
    /\ r.pc \in {"read", "upsert", "delete", "finish"} =>
           r.kind \in {"ingest", "index"}
    /\ r.pc = "scan" => r.kind \in {"ingest", "index", "reconcile"}
    /\ r.pc \in {"merge", "save", "drop", "register"} =>
           r.kind \in {"ingest", "index", "parse"}
    /\ r.pc \in {"list", "patch"} => r.kind = "reconcile"
    /\ r.kind \in {"ingest", "parse", "index"} => r.paper \in Paper
InHand(r) ==
    /\ r.pc = "write" => r.cont \in Content
    /\ r.pc \in {"scan", "upsert", "delete", "merge", "save", "drop",
                 "register"} /\ r.kind \in {"ingest", "index"} =>
           r.cont \in Content

\* A thread that is to read the chunks of a paper has chunks to read.
OnDisk(r, chunks) ==
    \/ r.pc = "read"
    \/ r.pc = "check" /\ r.kind = "ingest" /\ r.row # "failed"
    => chunks[r.paper] # None

\* The task of an ingest is under way for as long as its thread is.
Rowed(r) == r.kind = "ingest" /\ r.pc # "idle" =>
                r.row \in Active \/ (r.pc = "check" /\ r.row = "failed")

Fine(r, chunks) == Placed(r) /\ InHand(r) /\ OnDisk(r, chunks) /\ Rowed(r)
Holds(r) == r.kind = "ingest" /\ r.row \in Active
OneRow == ~Crowded => \A j, k \in Job :
    Holds(job[j]) /\ Holds(job[k]) /\ job[j].name = job[k].name => j = k

JobsOK == /\ job \in [Job -> JobState]
          /\ \A j \in Job : Fine(job[j], rag)
          /\ OneRow
IndInv == TypeOK /\ JobsOK /\ ServedFresh

-------------------------------------------------------------------------------
(* Helpers. *)

\* A paper has at most as many chunks as there are chunk numbers.
LEMMA CountType ==
    ASSUME NEW units
    PROVE  Count(units) \in 0 .. Cardinality(Id)
<1> DEFINE S == {i \in Id : units[i] # None}
<1>1. S \in SUBSET Id /\ IsFiniteSet(Id)
  BY FiniteAssumption
<1>2. IsFiniteSet(S) /\ Cardinality(S) <= Cardinality(Id)
  BY <1>1, FS_Subset
<1>3. Cardinality(S) \in Nat /\ Cardinality(Id) \in Nat
  BY <1>1, <1>2, FS_CardinalityType
<1> QED
  BY <1>2, <1>3 DEF Count

\* An empty slot is well formed, and nothing is asked of it.
LEMMA NoJobFine == NoJob \in JobState /\ \A c \in Snapshot : Fine(NoJob, c)
<1>1. Empty \in [Id -> Text \cup {None}]
  BY DEF Empty
<1>2. NoJob \in JobState
  BY <1>1 DEF NoJob, JobState, Store, Snapshot, Kind, Step, Active
<1> QED
  BY <1>2 DEF NoJob, Fine, Placed, InHand, OnDisk, Rowed, Active

\* One thread moves on: the others are as they were, and a row that is under
\* way was under way before.
LEMMA OneMoves ==
    ASSUME JobsOK, NEW j \in Job, NEW r \in JobState, SetJob(j, r),
           Fine(r, rag'), \A p \in Paper : rag[p] # None => rag'[p] # None,
           Holds(r) => Holds(job[j]) /\ r.name = job[j].name
    PROVE  JobsOK'
<1>1. job' \in [Job -> JobState]
  BY DEF JobsOK, SetJob
<1>2. job'[j] = r /\ \A k \in Job \ {j} : job'[k] = job[k]
  BY DEF JobsOK, SetJob
<1>3. ASSUME NEW k \in Job PROVE Fine(job'[k], rag')
  <2>1. CASE k = j
    BY <1>2, <2>1
  <2>2. CASE k # j
    <3>1. job'[k] = job[k] /\ Fine(job[k], rag)
      BY <1>2, <2>2 DEF JobsOK
    <3>2. OnDisk(job[k], rag')
      BY <3>1 DEF Fine, OnDisk, Placed
    <3> QED
      BY <3>1, <3>2 DEF Fine
  <2> QED
    BY <2>1, <2>2
<1>4. ASSUME NEW k \in Job
      PROVE  Holds(job'[k]) => Holds(job[k]) /\ job'[k].name = job[k].name
  BY <1>2
<1>5. OneRow'
  BY <1>4 DEF OneRow, JobsOK, Holds
<1> QED
  BY <1>1, <1>3, <1>5 DEF JobsOK

\* A thread ends.
LEMMA Ends ==
    ASSUME JobsOK, NEW j \in Job, End(j), rag' = rag, rag \in Snapshot
    PROVE  JobsOK'
<1>1. NoJob \in JobState /\ Fine(NoJob, rag') /\ ~Holds(NoJob)
  BY NoJobFine DEF NoJob, Holds
<1> QED
  BY <1>1, OneMoves DEF End

\* The record a thread starts with.
Fresh(r, kind, n, p, pc) ==
    /\ r \in JobState
    /\ r.kind = kind /\ r.name = n /\ r.paper = p /\ r.pc = pc /\ r.row = "pending"

\* A thread is started, and no other ingest of its paper is under way.
LEMMA Starts ==
    ASSUME JobsOK, NEW j \in Job, NEW r, NEW kind, NEW n, NEW p, NEW pc \in Step,
           Fresh(r, kind, n, p, pc), Fine(r, rag), rag' = rag,
           kind = "ingest" => \E rows \in Listed : ~UnderWay(n, rows),
           job' = [k \in Job |-> IF k = j THEN r ELSE [job[k] EXCEPT !.sole = FALSE]]
    PROVE  JobsOK'
<1>1. job'[j] = r
  OBVIOUS
<1>2. ASSUME NEW k \in Job, k # j
      PROVE  /\ job'[k] \in JobState
             /\ job'[k].kind = job[k].kind /\ job'[k].paper = job[k].paper
             /\ job'[k].name = job[k].name
             /\ job'[k].pc = job[k].pc /\ job'[k].row = job[k].row
             /\ job'[k].cont = job[k].cont
  <2>1. job[k] \in JobState /\ job'[k] = [job[k] EXCEPT !.sole = FALSE]
    BY <1>2 DEF JobsOK
  <2> QED
    BY <2>1 DEF JobState
<1>3. job' \in [Job -> JobState]
  BY <1>1, <1>2 DEF Fresh
<1>4. ASSUME NEW k \in Job PROVE Fine(job'[k], rag')
  <2>1. CASE k = j
    BY <1>1, <2>1
  <2>2. CASE k # j
    BY <1>2, <2>2 DEF JobsOK, Fine, Placed, InHand, OnDisk, Rowed
  <2> QED
    BY <2>1, <2>2
<1>5. ASSUME ~Crowded, NEW k \in Job, k # j, Holds(job[k]), kind = "ingest"
      PROVE  job[k].name # n
  BY <1>5 DEF UnderWay, Listed, Holds
<1>6. OneRow'
  <2> SUFFICES ASSUME ~Crowded, NEW k \in Job, NEW l \in Job, Holds(job'[k]),
                      Holds(job'[l]), job'[k].name = job'[l].name
               PROVE  k = l
    BY DEF OneRow, Holds
  <2>1. CASE k # j /\ l # j
    BY <1>2, <2>1 DEF JobsOK, OneRow, Holds
  <2>2. ASSUME NEW m \in Job, m # j, Holds(job'[m]), Holds(job'[j]),
               job'[m].name = job'[j].name
        PROVE  FALSE
    <3>1. Holds(job[m]) /\ job[m].name = n /\ kind = "ingest"
      BY <1>1, <1>2, <2>2 DEF Holds, Fresh
    <3> QED
      BY <1>5, <2>2, <3>1
  <2> QED
    BY <2>1, <2>2
<1> QED
  BY <1>3, <1>4, <1>6 DEF JobsOK

\* What Launch puts into a free slot.
LEMMA LaunchFresh ==
    ASSUME NEW j \in Job, NEW kind \in Kind,
           NEW n \in Name \cup {None}, NEW p \in Paper \cup {None},
           NEW pc \in Step, Launch(j, kind, n, p, pc)
    PROVE  \E r : /\ Fresh(r, kind, n, p, pc) /\ r.cont = None
                  /\ job' = [k \in Job |-> IF k = j THEN r
                                           ELSE [job[k] EXCEPT !.sole = FALSE]]
<1>1. PICK alone \in BOOLEAN : alone = \A l \in Job : ~Busy(l)
  OBVIOUS
<1> DEFINE r == [NoJob EXCEPT !.kind = kind, !.name = n, !.paper = p,
                              !.pc = pc, !.row = "pending", !.sole = alone]
<1>2. Fresh(r, kind, n, p, pc)
  <2>1. r \in JobState
    BY NoJobFine DEF JobState, Active
  <2>2. r.kind = kind /\ r.name = n /\ r.paper = p /\ r.pc = pc /\ r.row = "pending"
    BY NoJobFine DEF JobState
  <2> QED
    BY <2>1, <2>2 DEF Fresh
<1>3. r.cont = None
  BY NoJobFine DEF JobState, NoJob
<1>4. job' = [k \in Job |-> IF k = j THEN r ELSE [job[k] EXCEPT !.sole = FALSE]]
  BY <1>1 DEF Launch
<1> HIDE DEF r
<1> QED
  BY <1>2, <1>3, <1>4

\* A handler starts a thread.
LEMMA Launches ==
    ASSUME JobsOK, NEW j \in Job, NEW kind \in Kind,
           NEW n \in Name \cup {None}, NEW p \in Paper \cup {None},
           NEW pc \in {"parse", "locate", "read", "scan"},
           Launch(j, kind, n, p, pc), rag' = rag,
           kind = "ingest" => \E rows \in Listed : ~UnderWay(n, rows),
           pc = "parse" => kind = "parse", pc = "locate" => kind = "ingest",
           pc = "read" => kind = "index" /\ rag[p] # None,
           pc = "scan" => kind = "reconcile",
           kind # "reconcile" => p \in Paper
    PROVE  JobsOK'
<1>1. PICK r : /\ Fresh(r, kind, n, p, pc) /\ r.cont = None
               /\ job' = [k \in Job |-> IF k = j THEN r
                                        ELSE [job[k] EXCEPT !.sole = FALSE]]
  <2>1. pc \in Step
    BY DEF Step
  <2> QED
    BY <2>1, LaunchFresh
<1>2. Fine(r, rag)
  <2>1. Placed(r)
    BY <1>1 DEF Fresh, Placed
  <2>2. InHand(r)
    BY <1>1 DEF Fresh, InHand
  <2>3. OnDisk(r, rag)
    BY <1>1 DEF Fresh, OnDisk
  <2>4. Rowed(r)
    BY <1>1 DEF Fresh, Rowed, Active
  <2> QED
    BY <2>1, <2>2, <2>3, <2>4 DEF Fine
<1>3. pc \in Step
  BY DEF Step
<1> QED
  BY <1>1, <1>2, <1>3, Starts

\* The entry a hash leads to is an entry.
LEMMA ExistingType ==
    ASSUME TypeOK, NEW x \in Content
    PROVE  Existing(x) \in Entry
<1>1. Cardinality(Id) \in Nat
  BY FiniteAssumption, FS_CardinalityType
<1>2. NoEntry \in Entry
  BY <1>1 DEF NoEntry, Entry
<1>3. owner[x] # None => catalog[owner[x]] \in Entry
  BY DEF TypeOK
<1> QED
  BY <1>2, <1>3 DEF Existing

\* What Locate sets in the record of a thread.
LEMMA LocatedType ==
    ASSUME NEW q \in JobState, NEW row \in Active, NEW pc \in Step,
           NEW meta \in BOOLEAN, NEW hash \in Content \cup {None}
    PROVE  [q EXCEPT !.row = row, !.pc = pc, !.meta = meta, !.hash = hash]
               \in JobState
BY DEF JobState

-------------------------------------------------------------------------------
(* The steps of a thread, seen from the threads. *)

\* What a move of one thread has to show.
Moved(j, r) ==
    /\ r \in JobState /\ Fine(r, rag')
    /\ Holds(r) => Holds(job[j]) /\ r.name = job[j].name

\* A thread that moves on within its own kind of work keeps the threads' invariant
\* while no chunks disappear.
LEMMA Moves ==
    ASSUME JobsOK, NEW j \in Job, NEW r, SetJob(j, r), Moved(j, r),
           \A p \in Paper : rag[p] # None => rag'[p] # None
    PROVE  JobsOK'
BY OneMoves DEF Moved

\* From the PDF to the chunks on disk.
LEMMA LocateMoves ==
    ASSUME IndInv, NEW j \in Job, Locate(j)
    PROVE  JobsOK'
<1> DEFINE p == job[j].paper
           e == Existing(pdf[p])
           r == [job[j] EXCEPT !.row = "running",
                   !.pc = IF rag[p] = None THEN "parse" ELSE "read",
                   !.meta = rag[p] # None /\ e.there,
                   !.hash = IF rag[p] = None THEN None ELSE e.hash]
<1>1. JobsOK /\ rag' = rag /\ rag \in Snapshot /\ job[j] \in JobState
      /\ Fine(job[j], rag) /\ job[j].pc = "locate"
  BY DEF IndInv, TypeOK, JobsOK, Locate, At, libVars
<1>2. CASE End(j)
  BY <1>1, <1>2, Ends
<1>3. CASE pdf[p] # None /\ SetJob(j, r)
  <2>1. job[j].kind = "ingest" /\ p \in Paper /\ job[j].row \in Active
    BY <1>1 DEF Fine, Placed, Rowed
  <2>2. e \in Entry
    <3>1. pdf[p] \in Content
      BY <1>3, <2>1 DEF IndInv, TypeOK, Snapshot
    <3> QED
      BY <3>1, ExistingType DEF IndInv
  <2>3. r \in JobState
    <3> DEFINE pc == IF rag[p] = None THEN "parse" ELSE "read"
               hash == IF rag[p] = None THEN None ELSE e.hash
    <3>1. hash \in Content \cup {None} /\ e.there \in BOOLEAN
      BY <2>2 DEF Entry
    <3>2. pc \in Step /\ "running" \in Active
      BY DEF Step, Active
    <3>3. (rag[p] # None /\ e.there) \in BOOLEAN
      BY <3>1
    <3> QED
      BY <1>1, <3>1, <3>2, <3>3, LocatedType
  <2>4. Fine(r, rag') /\ Holds(job[j]) /\ r.name = job[j].name
    BY <1>1, <2>1 DEF JobState, Fine, Placed, InHand, OnDisk, Rowed, Holds, Active
  <2> QED
    BY <1>1, <1>3, <2>3, <2>4, Moves DEF Moved
<1>4. End(j) \/ (pdf[p] # None /\ SetJob(j, r))
  BY DEF Locate
<1> QED
  BY <1>2, <1>3, <1>4

\* What is known of one thread.
LEMMA Here ==
    ASSUME IndInv, NEW j \in Job
    PROVE  /\ JobsOK /\ job[j] \in JobState /\ Fine(job[j], rag)
           /\ rag \in Snapshot /\ pdf \in Snapshot
BY DEF IndInv, TypeOK, JobsOK

\* A thread goes on to another step and keeps the rest of its record.
LEMMA GoesOn ==
    ASSUME IndInv, NEW j \in Job, NEW pc \in Step, Goto(j, pc), rag' = rag,
           Fine([job[j] EXCEPT !.pc = pc], rag)
    PROVE  JobsOK'
<1> DEFINE r == [job[j] EXCEPT !.pc = pc]
<1>1. JobsOK /\ job[j] \in JobState
  BY Here
<1>2. r \in JobState /\ r.paper = job[j].paper /\ r.kind = job[j].kind
      /\ r.row = job[j].row
  BY <1>1 DEF JobState
<1>3. Moved(j, r)
  BY <1>2 DEF Moved, Holds
<1>4. SetJob(j, r)
  BY DEF Goto
<1> QED
  BY <1>1, <1>3, <1>4, Moves

\* After a parse the thread holds a content to write, or a failed row to check.
LEMMA ParseMoves ==
    ASSUME IndInv, NEW j \in Job, Parse(j)
    PROVE  JobsOK'
<1> DEFINE x == pdf[job[j].paper]
           r == [job[j] EXCEPT !.pc = "check", !.row = "failed"]
           q == [job[j] EXCEPT !.pc = "write", !.row = Doing(j), !.cont = x]
<1>1. JobsOK /\ rag' = rag /\ job[j] \in JobState /\ Fine(job[j], rag)
      /\ pdf \in Snapshot /\ job[j].pc = "parse"
  BY Here DEF Parse, At, libVars
<1>2. job[j].kind \in {"ingest", "parse"} /\ job[j].paper \in Paper
      /\ (job[j].kind = "ingest" => job[j].row \in Active)
  BY <1>1 DEF Fine, Placed, Rowed
<1>3. CASE x = None
  <2>1. r \in JobState
    BY <1>1 DEF JobState, Step
  <2>2. Fine(r, rag') /\ ~Holds(r)
    BY <1>1, <1>2 DEF JobState, Fine, Placed, InHand, OnDisk, Rowed, Holds, Active
  <2> QED
    BY <1>1, <1>3, <2>1, <2>2, Moves DEF Moved, Parse
<1>4. CASE x # None
  <2>1. x \in Content /\ x \in Content \cup {None}
    BY <1>1, <1>2, <1>4 DEF Snapshot
  <2>2. Doing(j) \in {"none", "done", "failed"} \cup Active
        /\ (job[j].kind = "ingest" => Doing(j) \in Active)
    BY <1>1, <1>2 DEF Doing, JobState, Active
  <2>3. q \in JobState
    BY <1>1, <2>1, <2>2 DEF JobState, Step
  <2>4. Fine(q, rag') /\ (Holds(q) => Holds(job[j])) /\ q.name = job[j].name
    BY <1>1, <1>2, <2>1, <2>2
    DEF JobState, Fine, Placed, InHand, OnDisk, Rowed, Holds
  <2> QED
    BY <1>1, <1>4, <2>3, <2>4, Moves DEF Moved, Parse
<1> QED
  BY <1>3, <1>4

\* The chunks written are those of the content in hand.
LEMMA WriteChunksMoves ==
    ASSUME IndInv, NEW j \in Job, WriteChunks(j)
    PROVE  JobsOK' /\ rag' \in Snapshot
<1> DEFINE row == IF job[j].kind = "parse" THEN "done" ELSE job[j].row
           r == [job[j] EXCEPT !.pc = "check", !.meta = TRUE, !.cont = None,
                    !.hash = job[j].cont, !.row = row]
<1>1. JobsOK /\ job[j] \in JobState /\ Fine(job[j], rag)
      /\ rag \in Snapshot /\ job[j].pc = "write"
  BY Here DEF WriteChunks, At
<1>2. /\ job[j].kind \in {"ingest", "parse"} /\ job[j].paper \in Paper
      /\ job[j].kind = "ingest" => job[j].row \in Active
      /\ job[j].cont \in Content
  BY <1>1 DEF Fine, Placed, InHand, Rowed
<1>3. rag' = [rag EXCEPT ![job[j].paper] = job[j].cont]
  BY DEF WriteChunks
<1>4. rag' \in Snapshot
  BY <1>1, <1>2, <1>3 DEF Snapshot
<1>5. rag'[job[j].paper] # None /\ \A p \in Paper : rag[p] # None => rag'[p] # None
  <2>1. job[j].cont # None
    BY <1>2, NothingAssumption
  <2> QED
    BY <1>1, <1>2, <1>3, <2>1 DEF Snapshot
<1>6. row \in {"none", "done", "failed"} \cup Active
      /\ (job[j].kind = "ingest" => row \in Active)
  BY <1>1, <1>2 DEF JobState
<1>7. r \in JobState
  BY <1>1, <1>2, <1>6 DEF JobState, Step
<1>8. Fine(r, rag') /\ (Holds(r) => Holds(job[j])) /\ r.name = job[j].name
  BY <1>1, <1>2, <1>5, <1>6
  DEF JobState, Fine, Placed, InHand, OnDisk, Rowed, Holds, Active
<1>9. SetJob(j, r)
  BY DEF WriteChunks
<1> QED
  BY <1>1, <1>4, <1>5, <1>7, <1>8, <1>9, Moves DEF Moved

\* A failed parse leaves its row failed.
LEMMA ParseFailsMoves ==
    ASSUME IndInv, NEW j \in Job, ParseFails(j)
    PROVE  JobsOK'
<1> DEFINE r == [job[j] EXCEPT !.pc = "check", !.row = "failed"]
<1>1. JobsOK /\ rag' = rag /\ job[j] \in JobState /\ Fine(job[j], rag)
      /\ job[j].pc = "write" /\ SetJob(j, r)
  BY Here DEF ParseFails, At, libVars
<1>2. r \in JobState
  BY <1>1 DEF JobState, Step
<1>3. Fine(r, rag') /\ ~Holds(r)
  BY <1>1 DEF JobState, Fine, Placed, InHand, OnDisk, Rowed, Holds, Active
<1> QED
  BY <1>1, <1>2, <1>3, Moves DEF Moved

\* Only a thread that saw chunks goes on to read them.
LEMMA CheckMoves ==
    ASSUME IndInv, NEW j \in Job, Check(j)
    PROVE  JobsOK'
<1>1. JobsOK /\ rag' = rag /\ rag \in Snapshot /\ job[j] \in JobState
      /\ Fine(job[j], rag) /\ job[j].pc = "check"
  BY Here DEF Check, At, libVars
<1>2. CASE End(j)
  BY <1>1, <1>2, Ends
<1>3. CASE job[j].row # "failed" /\ job[j].kind = "parse" /\ Goto(j, "register")
  BY <1>1, <1>3, GoesOn
  DEF JobState, Step, Fine, Placed, InHand, OnDisk, Rowed
<1>4. CASE job[j].row # "failed" /\ job[j].kind # "parse" /\ Goto(j, "read")
  BY <1>1, <1>4, GoesOn
  DEF JobState, Step, Fine, Placed, InHand, OnDisk, Rowed
<1> QED
  BY <1>2, <1>3, <1>4 DEF Check

\* From the chunks on disk to the vector store.
LEMMA ReadMoves ==
    ASSUME IndInv, NEW j \in Job, Read(j)
    PROVE  JobsOK'
<1> DEFINE x == rag[job[j].paper]
           r == [job[j] EXCEPT !.pc = "scan", !.row = "running", !.cont = x]
<1>1. JobsOK /\ rag' = rag /\ rag \in Snapshot /\ job[j] \in JobState
      /\ Fine(job[j], rag) /\ job[j].pc = "read" /\ SetJob(j, r)
  BY Here DEF Read, At, libVars
<1>2. /\ job[j].kind \in {"ingest", "index"} /\ job[j].paper \in Paper
      /\ job[j].kind = "ingest" => job[j].row \in Active
      /\ x \in Content
  BY <1>1 DEF Fine, Placed, OnDisk, Rowed, Snapshot
<1>3. r \in JobState
  BY <1>1, <1>2 DEF JobState, Step, Active
<1>4. Fine(r, rag') /\ (Holds(r) => Holds(job[j])) /\ r.name = job[j].name
  BY <1>1, <1>2 DEF JobState, Fine, Placed, InHand, OnDisk, Rowed, Holds, Active
<1> QED
  BY <1>1, <1>3, <1>4, Moves DEF Moved

\* A scan leaves the thread the hashes it saw, or none when the store failed.
LEMMA ScanMoves ==
    ASSUME IndInv, NEW j \in Job, Scan(j)
    PROVE  JobsOK'
<1> DEFINE pc == IF job[j].kind = "reconcile" THEN "list" ELSE "upsert"
           r(hashes) == [job[j] EXCEPT !.scan = hashes, !.pc = pc]
<1>1. JobsOK /\ rag' = rag /\ job[j] \in JobState /\ Fine(job[j], rag)
      /\ job[j].pc = "scan"
  BY Here DEF Scan, At, libVars
<1>2. PICK hashes \in Scanned : SetJob(j, r(hashes))
  BY DEF Scan
<1>3. hashes \in Store
  <2>1. [p \in Paper |-> Empty] \in Store
    BY DEF Store, Empty
  <2> QED
    BY <2>1 DEF Scanned, IndInv, TypeOK
<1>4. r(hashes) \in JobState
  <2>1. pc \in Step
    BY DEF Step
  <2> HIDE DEF pc
  <2>2. [job[j] EXCEPT !.scan = hashes, !.pc = pc] \in JobState
    BY <1>1, <1>3, <2>1 DEF JobState
  <2> QED
    BY <2>2 DEF pc
<1>5. /\ Fine(r(hashes), rag') /\ r(hashes).name = job[j].name
      /\ Holds(r(hashes)) => Holds(job[j])
  BY <1>1 DEF JobState, Fine, Placed, InHand, OnDisk, Rowed, Holds
<1> QED
  BY <1>1, <1>2, <1>4, <1>5, Moves DEF Moved

\* A thread has written what it has to write.
LEMMA MergeMoves ==
    ASSUME IndInv, NEW j \in Job, job[j].pc \in {"upsert", "delete"}, Merge(j),
           rag' = rag
    PROVE  JobsOK'
<1> DEFINE r == [job[j] EXCEPT !.pc = "merge", !.scan = NoJob.scan]
<1>1. JobsOK /\ job[j] \in JobState /\ Fine(job[j], rag) /\ SetJob(j, r)
  BY Here DEF Merge
<1>2. NoJob.scan \in Store
  BY NoJobFine DEF JobState
<1>3. r \in JobState
  BY <1>1, <1>2 DEF JobState, Step
<1>4. Fine(r, rag') /\ (Holds(r) => Holds(job[j])) /\ r.name = job[j].name
  BY <1>1 DEF JobState, Fine, Placed, InHand, OnDisk, Rowed, Holds
<1> QED
  BY <1>1, <1>3, <1>4, Moves DEF Moved

\* Chunks that are what the content at hand says, or nothing, leave the store
\* well formed.
LEMMA SetChunksType ==
    ASSUME store \in Store, NEW p \in Paper, NEW S, NEW units \in [Id -> Text \cup {None}],
           SetChunks(p, S, units)
    PROVE  store' \in Store
BY DEF SetChunks, Store

\* An upsert writes the content in hand, or fails and leaves the store.
LEMMA UpsertMoves ==
    ASSUME IndInv, NEW j \in Job, Upsert(j)
    PROVE  JobsOK' /\ store' \in Store
<1>1. JobsOK /\ rag' = rag /\ job[j] \in JobState /\ Fine(job[j], rag)
      /\ job[j].pc = "upsert"
  BY Here DEF Upsert, At
<1>2. job[j].kind \in {"ingest", "index"} /\ job[j].paper \in Paper
      /\ job[j].cont \in Content
  BY <1>1 DEF Fine, Placed, InHand
<1>3. store' \in Store
  <2>1. Chunks[job[j].cont] \in [Id -> Text \cup {None}]
    BY <1>2, ChunksAssumption
  <2>2. PICK S : SetChunks(job[j].paper, S, Chunks[job[j].cont])
    BY DEF Upsert
  <2> QED
    BY <1>2, <2>1, <2>2, SetChunksType DEF IndInv, TypeOK
<1>4. CASE Merge(j)
  BY <1>1, <1>3, <1>4, MergeMoves
<1>5. CASE Goto(j, "delete")
  BY <1>1, <1>3, <1>5, GoesOn
  DEF JobState, Step, Fine, Placed, InHand, OnDisk, Rowed
<1> QED
  BY <1>4, <1>5 DEF Upsert

\* A delete takes records away and adds none.
LEMMA DeleteMoves ==
    ASSUME IndInv, NEW j \in Job, Delete(j)
    PROVE  JobsOK' /\ store' \in Store
<1>1. JobsOK /\ rag' = rag /\ Fine(job[j], rag) /\ job[j].pc = "delete" /\ Merge(j)
  BY Here DEF Delete, At
<1>2. store' \in Store
  <2>1. job[j].paper \in Paper
    BY <1>1 DEF Fine, Placed
  <2>2. Empty \in [Id -> Text \cup {None}]
    BY DEF Empty
  <2> QED
    BY <2>1, <2>2, SetChunksType DEF Delete, IndInv, TypeOK
<1> QED
  BY <1>1, <1>2, MergeMoves

\* From the chunks on disk to search, and to the catalog.
LEMMA MergeReadMoves ==
    ASSUME IndInv, NEW j \in Job, MergeRead(j)
    PROVE  JobsOK'
<1> DEFINE r == [job[j] EXCEPT !.pc = "save", !.snap = rag]
<1>1. JobsOK /\ rag' = rag /\ rag \in Snapshot /\ job[j] \in JobState
      /\ Fine(job[j], rag) /\ job[j].pc = "merge" /\ SetJob(j, r)
  BY Here DEF MergeRead, At, libVars
<1>2. r \in JobState
  BY <1>1 DEF JobState, Step
<1>3. Fine(r, rag') /\ (Holds(r) => Holds(job[j])) /\ r.name = job[j].name
  BY <1>1 DEF JobState, Fine, Placed, InHand, OnDisk, Rowed, Holds
<1> QED
  BY <1>1, <1>2, <1>3, Moves DEF Moved

\* The merged file is written from the snapshot of the thread that holds it.
LEMMA MergeWriteMoves ==
    ASSUME IndInv, NEW j \in Job, MergeWrite(j)
    PROVE  JobsOK' /\ merged' \in Snapshot /\ job'[j].pc = "drop"
<1> DEFINE r == [job[j] EXCEPT !.pc = "drop", !.snap = NoJob.snap]
<1>1. JobsOK /\ rag' = rag /\ job[j] \in JobState /\ Fine(job[j], rag)
      /\ job[j].pc = "save" /\ SetJob(j, r) /\ merged' = job[j].snap
  BY Here DEF MergeWrite, At
<1>2. NoJob.snap \in Snapshot /\ job[j].snap \in Snapshot
  BY <1>1, NoJobFine DEF JobState
<1>3. r \in JobState /\ r.pc = "drop"
  BY <1>1, <1>2 DEF JobState, Step
<1>4. Fine(r, rag') /\ (Holds(r) => Holds(job[j])) /\ r.name = job[j].name
  BY <1>1 DEF JobState, Fine, Placed, InHand, OnDisk, Rowed, Holds
<1>5. job'[j] = r
  BY <1>1 DEF JobsOK, SetJob
<1> QED
  BY <1>1, <1>2, <1>3, <1>4, <1>5, Moves DEF Moved

\* After the cache is dropped the thread registers its paper.
LEMMA InvalidateMoves ==
    ASSUME IndInv, NEW j \in Job, Invalidate(j)
    PROVE  JobsOK'
<1>1. JobsOK /\ rag' = rag /\ rag \in Snapshot /\ job[j] \in JobState
      /\ Fine(job[j], rag) /\ job[j].pc = "drop"
  BY Here DEF Invalidate, At
<1>2. CASE End(j)
  BY <1>1, <1>2, Ends
<1>3. CASE Goto(j, "register")
  BY <1>1, <1>3, GoesOn
  DEF JobState, Step, Fine, Placed, InHand, OnDisk, Rowed
<1> QED
  BY <1>2, <1>3 DEF Invalidate

\* A catalog whose entry changes is a catalog, and so is a table of owners.
LEMMA CatalogType ==
    ASSUME TypeOK, NEW p \in Paper, NEW e \in Entry, SetEntry(p, e)
    PROVE  catalog' \in [Paper -> Entry]
BY DEF TypeOK, SetEntry

\* Who owns a content stays typed when one content changes hands.
LEMMA OwnerType ==
    ASSUME TypeOK, NEW p \in Paper, NEW x \in Content \cup {None}, Own(x, p)
    PROVE  owner' \in [Content -> Paper \cup {None}]
BY DEF TypeOK, Own

\* A parsed paper is entered in the catalog, and its thread is done.
LEMMA RegisterParsedMoves ==
    ASSUME IndInv, NEW j \in Job, RegisterParsed(j)
    PROVE  /\ JobsOK' /\ catalog' \in [Paper -> Entry]
           /\ owner' \in [Content -> Paper \cup {None}]
<1> DEFINE p == job[j].paper
           e == [there |-> TRUE, indexed |-> FALSE, count |-> 0, hash |-> job[j].hash]
<1>1. JobsOK /\ rag' = rag /\ job[j] \in JobState /\ Fine(job[j], rag)
      /\ job[j].pc = "register" /\ job[j].kind = "parse" /\ TypeOK
  BY Here DEF RegisterParsed, At, IndInv
<1>2. p \in Paper /\ job[j].hash \in Content \cup {None}
  BY <1>1 DEF Fine, Placed, JobState
<1>3. e \in Entry
  <2>1. Cardinality(Id) \in Nat
    BY FiniteAssumption, FS_CardinalityType
  <2> QED
    BY <1>2, <2>1 DEF Entry
<1>4. catalog' \in [Paper -> Entry]
  BY <1>1, <1>2, <1>3, CatalogType DEF RegisterParsed
<1>5. owner' \in [Content -> Paper \cup {None}]
  BY <1>1, <1>2, OwnerType DEF RegisterParsed
<1>6. JobsOK'
  <2>1. Goto(j, "merge")
    BY DEF RegisterParsed
  <2> QED
    BY <1>1, <2>1, GoesOn DEF JobState, Step, Fine, Placed, InHand, OnDisk, Rowed
<1> QED
  BY <1>4, <1>5, <1>6

\* An indexed paper is entered in the catalog, and its thread is done.
LEMMA RegisterIndexedMoves ==
    ASSUME IndInv, NEW j \in Job, RegisterIndexed(j)
    PROVE  /\ JobsOK' /\ catalog' \in [Paper -> Entry]
           /\ owner' \in [Content -> Paper \cup {None}]
<1> DEFINE p == job[j].paper
           x == IF job[j].meta THEN job[j].hash ELSE catalog[p].hash
           n == Count(Chunks[job[j].cont])
           e == [there |-> TRUE, indexed |-> TRUE, count |-> n, hash |-> x]
           y == IF job[j].meta THEN x ELSE None
<1>1. JobsOK /\ rag' = rag /\ job[j] \in JobState /\ Fine(job[j], rag)
      /\ job[j].pc = "register" /\ job[j].kind # "parse" /\ TypeOK
  BY Here DEF RegisterIndexed, At, IndInv
<1>2. p \in Paper /\ job[j].hash \in Content \cup {None}
      /\ job[j].kind \in {"ingest", "index"} /\ job[j].cont \in Content
  BY <1>1 DEF Fine, Placed, InHand, JobState
<1>3. catalog[p].hash \in Content \cup {None}
  BY <1>1, <1>2 DEF TypeOK, Entry
<1>4. x \in Content \cup {None} /\ y \in Content \cup {None}
  BY <1>2, <1>3
<1>5. n \in 0 .. Cardinality(Id)
  BY CountType
<1>6. e \in Entry
  BY <1>4, <1>5 DEF Entry
<1>7. catalog' \in [Paper -> Entry]
  BY <1>1, <1>2, <1>6, CatalogType DEF RegisterIndexed
<1>8. owner' \in [Content -> Paper \cup {None}]
  BY <1>1, <1>2, <1>4, OwnerType DEF RegisterIndexed
<1>9. JobsOK'
  <2>1. Goto(j, "finish")
    BY DEF RegisterIndexed
  <2> QED
    BY <1>1, <1>2, <2>1, GoesOn
    DEF JobState, Step, Fine, Placed, InHand, OnDisk, Rowed
<1> QED
  BY <1>7, <1>8, <1>9

\* The reconciliation of the catalog with the store.
LEMMA ListMoves ==
    ASSUME IndInv, NEW j \in Job, List(j)
    PROVE  JobsOK'
<1> DEFINE todo == {p \in Paper : Disagrees(j, p)}
           r == [job[j] EXCEPT !.pc = "patch", !.row = "running", !.todo = todo]
<1>1. JobsOK /\ rag' = rag /\ job[j] \in JobState /\ Fine(job[j], rag)
      /\ job[j].pc = "list" /\ SetJob(j, r)
  BY Here DEF List, At, libVars
<1>2. todo \in SUBSET Paper
  OBVIOUS
<1> HIDE DEF todo
<1>3. r \in JobState
  BY <1>1, <1>2 DEF JobState, Step, Active
<1>4. Fine(r, rag') /\ ~Holds(r)
  BY <1>1 DEF JobState, Fine, Placed, InHand, OnDisk, Rowed, Holds
<1> QED
  BY <1>1, <1>3, <1>4, Moves DEF Moved

\* The reconciliation patches one entry of the catalog.
LEMMA PatchMoves ==
    ASSUME IndInv, NEW j \in Job, Patch(j)
    PROVE  JobsOK' /\ catalog' \in [Paper -> Entry]
<1>1. JobsOK /\ rag' = rag /\ job[j] \in JobState /\ Fine(job[j], rag)
      /\ job[j].pc = "patch" /\ TypeOK
  BY Here DEF Patch, At, IndInv
<1>2. PICK p \in job[j].todo :
         /\ SetEntry(p, [catalog[p] EXCEPT !.indexed = ShouldBeIndexed(j, p),
                                           !.count = Found(j, p)])
         /\ SetJob(j, [job[j] EXCEPT !.todo = @ \ {p}])
  BY DEF Patch
<1>3. p \in Paper /\ catalog[p] \in Entry
  BY <1>1, <1>2 DEF JobState, TypeOK
<1>4. catalog' \in [Paper -> Entry]
  <2>1. Found(j, p) \in 0 .. Cardinality(Id)
    BY CountType DEF Found
  <2>2. PICK should \in BOOLEAN : should = ShouldBeIndexed(j, p)
    <3>1. ShouldBeIndexed(j, p) \in BOOLEAN
      BY DEF ShouldBeIndexed
    <3> QED
      BY <3>1, Zenon
  <2>3. [catalog[p] EXCEPT !.indexed = should, !.count = Found(j, p)] \in Entry
    BY <1>3, <2>1, <2>2 DEF Entry
  <2> QED
    BY <1>1, <1>2, <1>3, <2>2, <2>3, CatalogType
<1>5. JobsOK'
  <2> DEFINE r == [job[j] EXCEPT !.todo = @ \ {p}]
  <2>1. r \in JobState
    BY <1>1 DEF JobState
  <2>2. Fine(r, rag') /\ (Holds(r) => Holds(job[j])) /\ r.name = job[j].name
    BY <1>1 DEF JobState, Fine, Placed, InHand, OnDisk, Rowed, Holds
  <2> QED
    BY <1>1, <1>2, <2>1, <2>2, Moves DEF Moved
<1> QED
  BY <1>4, <1>5

-------------------------------------------------------------------------------
(* Every step keeps the invariant. *)

\* What every step leaves well formed besides the threads.
DataOK == /\ pdf \in Snapshot /\ rag \in Snapshot /\ store \in Store
          /\ catalog \in [Paper -> Entry] /\ owner \in [Content -> Paper \cup {None}]
          /\ merged \in Snapshot
          /\ served \in Snapshot \cup {None} /\ loading \in Snapshot \cup {None}

\* The inductive invariant in the three parts its proof treats one by one.
LEMMA Parts == DataOK /\ JobsOK /\ ServedFresh <=> IndInv
BY DEF DataOK, IndInv, TypeOK, JobsOK

\* The same of the next state.
LEMMA PartsNext == DataOK' /\ JobsOK' /\ ServedFresh' => IndInv'
BY DEF DataOK, IndInv, TypeOK, JobsOK

\* What search is served from changes with a merge, a load or a restart only.
LEMMA FreshKept ==
    ASSUME ServedFresh, merged' = merged, served' = served, loading' = loading,
           \A k \in Job : At(k, "drop") => At(k, "drop")'
    PROVE  ServedFresh'
BY DEF ServedFresh, At

\* A thread that is not at "drop" moves: the others stay where they are.
LEMMA OthersDrop ==
    ASSUME JobsOK, NEW j \in Job, NEW r, SetJob(j, r), ~At(j, "drop")
    PROVE  \A k \in Job : At(k, "drop") => At(k, "drop")'
<1>1. \A k \in Job \ {j} : job'[k] = job[k]
  BY DEF JobsOK, SetJob
<1> QED
  BY <1>1 DEF At

\* A thread that is not about to drop the cache cannot make what is served stale.
LEMMA FreshMove ==
    ASSUME JobsOK, ServedFresh, merged' = merged, served' = served,
           loading' = loading, NEW j \in Job, NEW r, SetJob(j, r), ~At(j, "drop")
    PROVE  ServedFresh'
BY FreshKept, OthersDrop

\* The library starts well formed, with every thread idle.
LEMMA LibraryInit == Init => IndInv
<1> SUFFICES ASSUME Init PROVE IndInv
  OBVIOUS
<1>1. pdf \in Snapshot /\ rag \in Snapshot /\ merged \in Snapshot
  BY DEF Init, Snapshot
<1>2. store \in Store
  BY DEF Init, Store, Empty
<1>3. catalog \in [Paper -> Entry] /\ owner \in [Content -> Paper \cup {None}]
  <2>1. Cardinality(Id) \in Nat
    BY FiniteAssumption, FS_CardinalityType
  <2> QED
    BY <2>1 DEF Init, NoEntry, Entry
<1>4. DataOK
  BY <1>1, <1>2, <1>3 DEF DataOK, Init
<1>5. job \in [Job -> JobState] /\ \A j \in Job : Fine(job[j], rag)
  BY <1>1, NoJobFine DEF Init
<1>6. OneRow
  BY DEF Init, OneRow, Holds, NoJob
<1>7. ServedFresh
  BY DEF Init, ServedFresh
<1> QED
  BY <1>4, <1>5, <1>6, <1>7, Parts DEF JobsOK

\* A handler starts at most one thread, and none at "drop".
LEMMA LaunchStep ==
    ASSUME IndInv, NEW j \in Job, NEW kind \in Kind,
           NEW n \in Name \cup {None}, NEW p \in Paper \cup {None},
           NEW pc \in {"parse", "locate", "read", "scan"}, Launch(j, kind, n, p, pc),
           kind = "ingest" => \E rows \in Listed : ~UnderWay(n, rows),
           pc = "parse" => kind = "parse", pc = "locate" => kind = "ingest",
           pc = "read" => kind = "index" /\ rag[p] # None,
           pc = "scan" => kind = "reconcile",
           kind # "reconcile" => p \in Paper,
           pdf' \in Snapshot,
           UNCHANGED <<rag, store, catalog, owner, merged, served, loading>>
    PROVE  IndInv'
<1>1. JobsOK /\ DataOK /\ ServedFresh
  BY Parts
<1>2. JobsOK'
  BY <1>1, Launches
<1>3. DataOK'
  BY <1>1 DEF DataOK
<1>4. ASSUME NEW k \in Job, At(k, "drop") PROVE At(k, "drop")'
  <2>1. k # j /\ job[k] \in JobState
    BY <1>1, <1>4 DEF Launch, Free, Busy, At, JobsOK
  <2>2. job'[k] = [job[k] EXCEPT !.sole = FALSE]
    BY <2>1 DEF Launch
  <2>3. job'[k].pc = job[k].pc
    BY <2>1, <2>2 DEF JobState
  <2> QED
    BY <1>4, <2>3 DEF At
<1>5. ServedFresh'
  BY <1>1, <1>4, FreshKept
<1> QED
  BY <1>2, <1>3, <1>5, PartsNext

\* A request starts a thread or changes the library's own records only.
LEMMA HandlerStep == IndInv /\ Handler => IndInv'
<1> SUFFICES ASSUME IndInv, Handler PROVE IndInv'
  OBVIOUS
<1>1. DataOK /\ JobsOK /\ ServedFresh
  BY Parts
<1>2. Kind = {"ingest", "parse", "index", "reconcile"}
  BY DEF Kind
<1>3. ASSUME NEW p \in Paper, NEW x \in Content, Upload(p, x) PROVE IndInv'
  <2>1. CASE Existing(x).there
    <3>1. pdf' = [pdf EXCEPT ![p] = None] /\ job' = job
      BY <1>3, <2>1 DEF Upload
    <3>2. pdf' \in Snapshot
      BY <1>1, <3>1 DEF DataOK, Snapshot
    <3>3. DataOK'
      BY <1>1, <1>3, <3>2 DEF DataOK, Upload
    <3>4. JobsOK' /\ ServedFresh'
      BY <1>1, <1>3, <3>1 DEF Upload, JobsOK, OneRow, ServedFresh, At
    <3> QED
      BY <3>3, <3>4, PartsNext
  <2>2. CASE ~Existing(x).there
    <3>1. PICK j \in Job : Launch(j, "parse", None, p, "parse")
      BY <1>3, <2>2 DEF Upload
    <3>2. pdf' = [pdf EXCEPT ![p] = x]
      BY <1>3, <2>2 DEF Upload
    <3>3. pdf' \in Snapshot
      BY <1>1, <3>2 DEF DataOK, Snapshot
    <3> QED
      BY <1>2, <1>3, <3>1, <3>3, LaunchStep DEF Upload
  <2> QED
    BY <2>1, <2>2
<1>4. ASSUME NEW p \in Paper, NEW x \in Content, Arrive(p, x) PROVE IndInv'
  <2>1. pdf' \in Snapshot
    BY <1>1, <1>4 DEF DataOK, Snapshot, Arrive
  <2>2. DataOK'
    BY <1>1, <1>4, <2>1 DEF DataOK, Arrive
  <2>3. JobsOK' /\ ServedFresh'
    BY <1>1, <1>4 DEF Arrive, JobsOK, OneRow, ServedFresh, At
  <2> QED
    BY <2>2, <2>3, PartsNext
<1>5. ASSUME NEW p \in Paper, ProcessLocal(p) PROVE IndInv'
  <2>1. PICK j \in Job : Launch(j, "parse", None, p, "parse")
    BY <1>5 DEF ProcessLocal
  <2> QED
    BY <1>1, <1>2, <1>5, <2>1, LaunchStep DEF ProcessLocal, libVars, DataOK
<1>6. ASSUME NEW n \in Name, Ingest(n) PROVE IndInv'
  <2>1. PICK j \in Job : Launch(j, "ingest", n, Sanitize[n], "locate")
    BY <1>6 DEF Ingest
  <2> QED
    BY <1>1, <1>2, <1>6, <2>1, NameAssumption, LaunchStep DEF Ingest, libVars, DataOK
<1>7. ASSUME NEW p \in Paper, IndexRun(p) PROVE IndInv'
  <2>1. PICK j \in Job : Launch(j, "index", None, p, "read")
    BY <1>7 DEF IndexRun
  <2> QED
    BY <1>1, <1>2, <1>7, <2>1, LaunchStep DEF IndexRun, libVars, DataOK
<1>8. ASSUME Reconcile PROVE IndInv'
  <2>1. PICK j \in Job : Launch(j, "reconcile", None, None, "scan")
    BY <1>8 DEF Reconcile
  <2> QED
    BY <1>1, <1>2, <1>8, <2>1, LaunchStep DEF Reconcile, libVars, DataOK
<1> QED
  BY <1>3, <1>4, <1>5, <1>6, <1>7, <1>8 DEF Handler

\* A step that only moves a thread, which is not at "drop".
LEMMA QuietStep ==
    ASSUME IndInv, NEW j \in Job, ~At(j, "drop"), NEW r, SetJob(j, r), JobsOK',
           UNCHANGED libVars
    PROVE  IndInv'
<1>1. DataOK /\ JobsOK /\ ServedFresh
  BY Parts
<1>2. DataOK'
  BY <1>1 DEF DataOK, libVars
<1>3. ServedFresh'
  BY <1>1, FreshMove DEF libVars
<1> QED
  BY <1>2, <1>3, PartsNext

\* One that changes what search is not served from.
LEMMA WritingStep ==
    ASSUME IndInv, NEW j \in Job, ~At(j, "drop"), NEW r, SetJob(j, r), JobsOK',
           DataOK', UNCHANGED <<merged, served, loading>>
    PROVE  IndInv'
<1>1. JobsOK /\ ServedFresh
  BY Parts
<1>2. ServedFresh'
  BY <1>1, FreshMove
<1> QED
  BY <1>2, PartsNext

\* The steps that leave everything but the thread as it is.
Quiet(j) == \/ Locate(j) \/ Parse(j) \/ ParseFails(j) \/ Check(j) \/ Read(j)
            \/ Scan(j) \/ DeleteFails(j) \/ MergeRead(j) \/ Finish(j) \/ List(j)
            \/ Reconciled(j) \/ Expire(j)

\* Steps of a thread that leave the store, the files and the catalog alone.
LEMMA QuietSteps ==
    ASSUME IndInv, NEW j \in Job, Quiet(j)
    PROVE  IndInv'
<1>1. UNCHANGED libVars
  BY DEF Quiet, Locate, Parse, ParseFails, Check, Read, Scan, DeleteFails,
         MergeRead, Finish, List, Reconciled, Expire
<1>2. ~At(j, "drop")
  BY DEF Quiet, Locate, Parse, ParseFails, Check, Read, Scan, DeleteFails,
         MergeRead, Finish, List, Reconciled, Expire, At, Busy
<1>3. \E r : SetJob(j, r)
  BY DEF Quiet, Locate, Parse, ParseFails, Check, Read, Scan, DeleteFails,
         MergeRead, Finish, List, Reconciled, Expire, End, Goto
<1>4. JobsOK'
  <2>1. CASE DeleteFails(j) \/ Finish(j) \/ Reconciled(j) \/ Expire(j)
    <3>1. End(j) /\ rag' = rag
      BY <1>1, <2>1 DEF DeleteFails, Finish, Reconciled, Expire, End, libVars
    <3> QED
      BY <3>1, Here, Ends
  <2> QED
    BY <2>1, LocateMoves, ParseMoves, ParseFailsMoves, CheckMoves, ReadMoves,
       ScanMoves, MergeReadMoves, ListMoves DEF Quiet
<1> QED
  BY <1>1, <1>2, <1>3, <1>4, QuietStep

\* Every step of a thread keeps the invariant.
LEMMA ThreadStep ==
    ASSUME IndInv, NEW j \in Job, Thread(j)
    PROVE  IndInv'
<1>1. DataOK /\ JobsOK /\ ServedFresh
  BY Parts
<1>2. CASE Quiet(j)
  BY <1>2, QuietSteps
<1>3. CASE WriteChunks(j)
  <2>1. JobsOK' /\ rag' \in Snapshot
    BY <1>3, WriteChunksMoves
  <2>2. DataOK'
    BY <1>1, <1>3, <2>1 DEF DataOK, WriteChunks
  <2>3. (\E r : SetJob(j, r)) /\ ~At(j, "drop")
    BY <1>3 DEF WriteChunks, At
  <2> QED
    BY <1>3, <2>1, <2>2, <2>3, WritingStep DEF WriteChunks
<1>4. CASE Upsert(j)
  <2>1. JobsOK' /\ store' \in Store
    BY <1>4, UpsertMoves
  <2>2. DataOK'
    BY <1>1, <1>4, <2>1 DEF DataOK, Upsert
  <2>3. (\E r : SetJob(j, r)) /\ ~At(j, "drop")
    BY <1>4 DEF Upsert, At, Merge, Goto
  <2> QED
    BY <1>4, <2>1, <2>2, <2>3, WritingStep DEF Upsert
<1>5. CASE Delete(j)
  <2>1. JobsOK' /\ store' \in Store
    BY <1>5, DeleteMoves
  <2>2. DataOK'
    BY <1>1, <1>5, <2>1 DEF DataOK, Delete
  <2>3. (\E r : SetJob(j, r)) /\ ~At(j, "drop")
    BY <1>5 DEF Delete, At, Merge
  <2> QED
    BY <1>5, <2>1, <2>2, <2>3, WritingStep DEF Delete
<1>6. CASE MergeWrite(j)
  <2>1. JobsOK' /\ merged' \in Snapshot /\ At(j, "drop")'
    BY <1>6, MergeWriteMoves DEF At
  <2>2. DataOK'
    BY <1>1, <1>6, <2>1 DEF DataOK, MergeWrite
  <2>3. ServedFresh'
    BY <2>1 DEF ServedFresh, At
  <2> QED
    BY <2>1, <2>2, <2>3, PartsNext
<1>7. CASE Invalidate(j)
  <2>1. JobsOK'
    BY <1>7, InvalidateMoves
  <2>2. DataOK'
    BY <1>1, <1>7 DEF DataOK, Invalidate
  <2>3. ServedFresh'
    BY <1>7 DEF ServedFresh, Invalidate
  <2> QED
    BY <2>1, <2>2, <2>3, PartsNext
<1>8. CASE RegisterParsed(j)
  <2>1. /\ JobsOK' /\ catalog' \in [Paper -> Entry]
        /\ owner' \in [Content -> Paper \cup {None}]
    BY <1>8, RegisterParsedMoves
  <2>2. DataOK'
    BY <1>1, <1>8, <2>1 DEF DataOK, RegisterParsed
  <2>3. (\E r : SetJob(j, r)) /\ ~At(j, "drop")
    BY <1>8 DEF RegisterParsed, At, Goto
  <2> QED
    BY <1>8, <2>1, <2>2, <2>3, WritingStep DEF RegisterParsed
<1>9. CASE RegisterIndexed(j)
  <2>1. /\ JobsOK' /\ catalog' \in [Paper -> Entry]
        /\ owner' \in [Content -> Paper \cup {None}]
    BY <1>9, RegisterIndexedMoves
  <2>2. DataOK'
    BY <1>1, <1>9, <2>1 DEF DataOK, RegisterIndexed
  <2>3. (\E r : SetJob(j, r)) /\ ~At(j, "drop")
    BY <1>9 DEF RegisterIndexed, At, Goto
  <2> QED
    BY <1>9, <2>1, <2>2, <2>3, WritingStep DEF RegisterIndexed
<1>10. CASE Patch(j)
  <2>1. JobsOK' /\ catalog' \in [Paper -> Entry]
    BY <1>10, PatchMoves
  <2>2. DataOK'
    BY <1>1, <1>10, <2>1 DEF DataOK, Patch
  <2>3. (\E r : SetJob(j, r)) /\ ~At(j, "drop")
    BY <1>10 DEF Patch, At
  <2> QED
    BY <1>10, <2>1, <2>2, <2>3, WritingStep DEF Patch
<1> QED
  BY <1>2, <1>3, <1>4, <1>5, <1>6, <1>7, <1>8, <1>9, <1>10 DEF Thread, Quiet

\* The search service is built from the file that is there.
LEMMA ServiceStep == IndInv /\ (Load \/ Loaded) => IndInv'
<1> SUFFICES ASSUME IndInv, Load \/ Loaded PROVE IndInv'
  OBVIOUS
<1>1. DataOK /\ JobsOK /\ ServedFresh
  BY Parts
<1>2. DataOK'
  BY <1>1 DEF DataOK, Load, Loaded
<1>3. JobsOK'
  BY <1>1 DEF JobsOK, OneRow, Load, Loaded
<1>4. ServedFresh'
  <2>1. job' = job /\ merged' = merged
    BY DEF Load, Loaded
  <2>2. ASSUME \A j \in Job : ~At(j, "drop")
        PROVE  served' \in {None, merged} /\ loading' \in {None, merged}
    BY <1>1, <2>2 DEF ServedFresh, Load, Loaded
  <2> QED
    BY <2>1, <2>2 DEF ServedFresh, At
<1> QED
  BY <1>2, <1>3, <1>4, PartsNext

\* After a restart no thread is left, and the rows of ingests are.
LEMMA RestartStep == IndInv /\ Restart => IndInv'
<1> SUFFICES ASSUME IndInv, Restart PROVE IndInv'
  OBVIOUS
<1>1. DataOK /\ JobsOK /\ ServedFresh
  BY Parts
<1>2. DataOK' /\ ServedFresh'
  BY <1>1 DEF DataOK, ServedFresh, Restart
<1>3. NoJob \in JobState /\ Fine(NoJob, rag) /\ ~Holds(NoJob) /\ rag' = rag
  BY <1>1, NoJobFine DEF DataOK, Holds, NoJob, Restart
<1>4. ASSUME NEW j \in Job
      PROVE  /\ Left(j) \in JobState /\ Fine(Left(j), rag)
             /\ Holds(Left(j)) => Holds(job[j]) /\ Left(j).name = job[j].name
  <2>1. job[j] \in JobState /\ Fine(job[j], rag)
    BY <1>1 DEF JobsOK
  <2>2. CASE Holds(job[j])
    <3> DEFINE r == [NoJob EXCEPT !.kind = "ingest", !.name = job[j].name,
                                  !.paper = job[j].paper, !.row = job[j].row]
    <3>1. Left(j) = r
      BY <2>2 DEF Left, Holds
    <3>2. r \in JobState /\ r.kind = "ingest" /\ r.paper = job[j].paper
          /\ r.name = job[j].name /\ r.row = job[j].row
      BY <1>3, <2>1 DEF JobState, Kind
    <3>3. r.pc = "idle"
      BY <1>3 DEF NoJob, JobState
    <3>4. job[j].paper \in Paper
      BY <2>1, <2>2 DEF Fine, Placed, Holds
    <3>5. Fine(r, rag)
      BY <3>2, <3>3, <3>4 DEF Fine, Placed, InHand, OnDisk, Rowed
    <3> QED
      BY <2>2, <3>1, <3>2, <3>5
  <2>3. CASE ~Holds(job[j])
    BY <1>3, <2>3 DEF Left, Holds
  <2> QED
    BY <2>2, <2>3
<1>5. ASSUME NEW j \in Job
      PROVE  /\ job'[j] \in JobState /\ Fine(job'[j], rag')
             /\ Holds(job'[j]) => Holds(job[j]) /\ job'[j].name = job[j].name
  BY <1>1, <1>3, <1>4 DEF Restart, JobsOK
<1>6. job' \in [Job -> JobState]
  <2>1. \A j \in Job : job'[j] \in JobState
    BY <1>5
  <2> QED
    BY <2>1 DEF Restart
<1>7. OneRow'
  BY <1>1, <1>5 DEF JobsOK, OneRow, Holds
<1> QED
  BY <1>2, <1>5, <1>6, <1>7, PartsNext DEF JobsOK

-------------------------------------------------------------------------------
(* The theorems. *)

\* The inductive invariant holds for any number of papers, contents, chunks and
\* threads, with or without a faulty vector store.
THEOREM LibraryInvariant == Spec => []IndInv
<1>1. Init => IndInv
  BY LibraryInit
<1>2. IndInv /\ [Next]_vars => IndInv'
  <2> SUFFICES ASSUME IndInv, [Next]_vars PROVE IndInv'
    OBVIOUS
  <2>1. CASE Handler
    BY <2>1, HandlerStep
  <2>2. CASE Load \/ Loaded
    BY <2>2, ServiceStep
  <2>3. ASSUME NEW j \in Job, Thread(j) \/ Expire(j) PROVE IndInv'
    BY <2>3, ThreadStep, QuietSteps DEF Quiet
  <2>4. CASE Restart
    BY <2>4, RestartStep
  <2>5. CASE UNCHANGED vars
    <3>1. DataOK /\ JobsOK /\ ServedFresh
      BY Parts
    <3>2. DataOK' /\ JobsOK' /\ ServedFresh'
      BY <2>5, <3>1 DEF vars, DataOK, JobsOK, OneRow, ServedFresh, At
    <3> QED
      BY <3>2, PartsNext
  <2> QED
    BY <2>1, <2>2, <2>3, <2>4, <2>5 DEF Next
<1> QED
  BY <1>1, <1>2, PTL DEF Spec

\* Every variable stays well formed (catalog counts within the number of chunks).
THEOREM LibraryTypeCorrect == Spec => []TypeOK
<1>1. IndInv => TypeOK
  BY DEF IndInv
<1> QED
  BY <1>1, LibraryInvariant, PTL

\* No two threads that were asked for one paper in the same words take it into
\* the library at the same time, whatever fails, is started again or expires
\* (agent_ingest, background.py:201-223), unless a hundred newer tasks hide the
\* row of the first.
THEOREM OneIngestHolds == Spec => []OneIngest
<1>1. IndInv => OneIngest
  <2> SUFFICES ASSUME IndInv, ~Crowded, NEW j \in Job, NEW k \in Job,
                      Writing(j), Writing(k), job[j].name = job[k].name
               PROVE  j = k
    BY DEF OneIngest
  <2>1. Holds(job[j]) /\ Holds(job[k])
    BY Here DEF Writing, At, Fine, Rowed, Holds
  <2> QED
    BY <2>1, Here DEF JobsOK, OneRow
<1> QED
  BY <1>1, LibraryInvariant, PTL

\* Search never keeps an index that a finished merge has made obsolete
\* (invalidate_retrieval_service, retrieval.py:79-91).
THEOREM ServedFreshHolds == Spec => []ServedFresh
<1>1. IndInv => ServedFresh
  BY DEF IndInv
<1> QED
  BY <1>1, LibraryInvariant, PTL

-------------------------------------------------------------------------------
(* Where a step takes its thread. *)

\* What a step makes of its thread is the thread's next record.
LEMMA Became ==
    ASSUME IndInv, NEW j \in Job, NEW r, SetJob(j, r)
    PROVE  job'[j] = r /\ SetJob(j, job'[j])
BY DEF IndInv, JobsOK, SetJob

\* A thread goes on with its task and its paper.
Same(r, q) == r.kind = q.kind /\ r.paper = q.paper /\ r.sole = q.sole
Going(j) == SetJob(j, job'[j]) /\ Same(job'[j], job[j])

\* Before the chunks are read.
LEMMA GoesBefore ==
    ASSUME IndInv, NEW j \in Job, ~End(j),
           Locate(j) \/ Parse(j) \/ WriteChunks(j) \/ ParseFails(j) \/ Check(j)
    PROVE  /\ Going(j)
           /\ \/ job'[j].pc \in {"parse", "write", "check", "read"}
              \/ job'[j].pc = "register" /\ job[j].kind = "parse"
<1>1. job[j] \in JobState
  BY DEF IndInv, JobsOK
<1>2. CASE Locate(j)
  <2> DEFINE p == job[j].paper
             pc == IF rag[p] = None THEN "parse" ELSE "read"
             meta == rag[p] # None /\ Existing(pdf[p]).there
             hash == IF rag[p] = None THEN None ELSE Existing(pdf[p]).hash
  <2>1. SetJob(j, [job[j] EXCEPT !.row = "running", !.pc = pc, !.meta = meta,
                                 !.hash = hash])
    BY <1>2 DEF Locate
  <2>2. pc \in {"parse", "read"}
    OBVIOUS
  <2> HIDE DEF pc, meta, hash
  <2> DEFINE r == [job[j] EXCEPT !.row = "running", !.pc = pc, !.meta = meta,
                                 !.hash = hash]
  <2>3. Same(r, job[j]) /\ r.pc = pc
    BY <1>1 DEF JobState, Same
  <2> HIDE DEF r
  <2> QED
    BY <2>1, <2>2, <2>3, Became DEF r, Going
<1>3. CASE Parse(j)
  <2> DEFINE x == pdf[job[j].paper]
             r == [job[j] EXCEPT !.pc = "check", !.row = "failed"]
             q == [job[j] EXCEPT !.pc = "write", !.row = Doing(j), !.cont = x]
  <2>1. SetJob(j, r) \/ SetJob(j, q)
    BY <1>3 DEF Parse
  <2>2. Same(r, job[j]) /\ r.pc = "check" /\ Same(q, job[j]) /\ q.pc = "write"
    BY <1>1 DEF JobState, Same
  <2> HIDE DEF r, q
  <2> QED
    BY <2>1, <2>2, Became DEF Going
<1>4. CASE WriteChunks(j)
  <2> DEFINE row == IF job[j].kind = "parse" THEN "done" ELSE job[j].row
             r == [job[j] EXCEPT !.pc = "check", !.meta = TRUE, !.cont = None,
                                 !.hash = job[j].cont, !.row = row]
  <2>1. SetJob(j, r)
    BY <1>1, <1>4 DEF WriteChunks, JobState
  <2>2. Same(r, job[j]) /\ r.pc = "check"
    BY <1>1 DEF JobState, Same
  <2> HIDE DEF r
  <2> QED
    BY <2>1, <2>2, Became DEF Going
<1>5. CASE ParseFails(j)
  <2> DEFINE r == [job[j] EXCEPT !.pc = "check", !.row = "failed"]
  <2>1. SetJob(j, r)
    BY <1>5 DEF ParseFails
  <2>2. Same(r, job[j]) /\ r.pc = "check"
    BY <1>1 DEF JobState, Same
  <2> HIDE DEF r
  <2> QED
    BY <2>1, <2>2, Became DEF Going
<1>6. CASE Check(j)
  <2> DEFINE pc == IF job[j].kind = "parse" THEN "register" ELSE "read"
             r == [job[j] EXCEPT !.pc = pc]
  <2>1. SetJob(j, r)
    BY <1>6 DEF Check, Goto
  <2>2. Same(r, job[j]) /\ r.pc = pc
    BY <1>1 DEF JobState, Same
  <2> HIDE DEF r
  <2> QED
    BY <2>1, <2>2, Became DEF Going
<1> QED
  BY <1>2, <1>3, <1>4, <1>5, <1>6

\* Reading the chunks.
LEMMA GoesRead ==
    ASSUME IndInv, NEW j \in Job, Read(j)
    PROVE  /\ Going(j) /\ job'[j].pc = "scan"
           /\ job'[j].cont = rag[job[j].paper]
<1>1. job[j] \in JobState
  BY DEF IndInv, JobsOK
<1> DEFINE x == rag[job[j].paper]
           r == [job[j] EXCEPT !.pc = "scan", !.row = "running", !.cont = x]
<1>2. SetJob(j, r)
  BY DEF Read
<1>3. Same(r, job[j]) /\ r.pc = "scan" /\ r.cont = x
  BY <1>1 DEF JobState, Same
<1> HIDE DEF r
<1> QED
  BY <1>2, <1>3, Became DEF Going

\* Scanning a store that answers.
LEMMA GoesScan ==
    ASSUME ~StoreFaults, IndInv, NEW j \in Job, Scan(j)
    PROVE  /\ Going(j) /\ job'[j].scan = store
           /\ job'[j].cont = job[j].cont
           /\ job'[j].pc = IF job[j].kind = "reconcile" THEN "list" ELSE "upsert"
<1>1. job[j] \in JobState
  BY DEF IndInv, JobsOK
<1> DEFINE pc == IF job[j].kind = "reconcile" THEN "list" ELSE "upsert"
           r == [job[j] EXCEPT !.scan = store, !.pc = pc]
<1>2. SetJob(j, r)
  BY DEF Scan, Scanned
<1>3. Same(r, job[j]) /\ r.pc = pc /\ r.scan = store /\ r.cont = job[j].cont
  BY <1>1 DEF JobState, Same
<1> HIDE DEF r
<1> QED
  BY <1>2, <1>3, Became DEF Going

\* Writing to the store.
LEMMA GoesWrite ==
    ASSUME IndInv, NEW j \in Job, Upsert(j) \/ Delete(j)
    PROVE  /\ Going(j) /\ job'[j].pc \in {"merge", "delete"}
           /\ job'[j].cont = job[j].cont
<1>1. job[j] \in JobState
  BY DEF IndInv, JobsOK
<1> DEFINE scan == NoJob.scan
           r == [job[j] EXCEPT !.pc = "merge", !.scan = scan]
           q == [job[j] EXCEPT !.pc = "delete"]
<1>2. SetJob(j, r) \/ SetJob(j, q)
  BY DEF Upsert, Delete, Merge, Goto
<1> HIDE DEF scan
<1>3. /\ Same(r, job[j]) /\ r.pc = "merge" /\ r.cont = job[j].cont
      /\ Same(q, job[j]) /\ q.pc = "delete" /\ q.cont = job[j].cont
  BY <1>1 DEF JobState, Same
<1> HIDE DEF r, q
<1> QED
  BY <1>2, <1>3, Became DEF Going

\* Merging, saving and dropping the cached service.
LEMMA GoesMerge ==
    ASSUME IndInv, NEW j \in Job, ~End(j),
           MergeRead(j) \/ MergeWrite(j) \/ Invalidate(j)
    PROVE  /\ Going(j) /\ job'[j].cont = job[j].cont
           /\ MergeRead(j) => job'[j].pc = "save" /\ job'[j].snap = rag
           /\ MergeWrite(j) => job'[j].pc = "drop"
           /\ Invalidate(j) => job'[j].pc = "register"
<1>1. job[j] \in JobState
  BY DEF IndInv, JobsOK
<1>2. CASE MergeRead(j)
  <2> DEFINE r == [job[j] EXCEPT !.pc = "save", !.snap = rag]
  <2>1. SetJob(j, r)
    BY <1>2 DEF MergeRead
  <2>2. Same(r, job[j]) /\ r.pc = "save" /\ r.snap = rag /\ r.cont = job[j].cont
    BY <1>1 DEF JobState, Same
  <2> HIDE DEF r
  <2> QED
    BY <1>2, <2>1, <2>2, Became DEF Going, MergeRead, MergeWrite, Invalidate, At
<1>3. CASE MergeWrite(j)
  <2> DEFINE snap == NoJob.snap
             r == [job[j] EXCEPT !.pc = "drop", !.snap = snap]
  <2>1. SetJob(j, r)
    BY <1>3 DEF MergeWrite
  <2> HIDE DEF snap
  <2>2. Same(r, job[j]) /\ r.pc = "drop" /\ r.cont = job[j].cont
    BY <1>1 DEF JobState, Same
  <2> HIDE DEF r
  <2> QED
    BY <1>3, <2>1, <2>2, Became DEF Going, MergeRead, MergeWrite, Invalidate, At
<1>4. CASE Invalidate(j)
  <2> DEFINE r == [job[j] EXCEPT !.pc = "register"]
  <2>1. SetJob(j, r)
    BY <1>4 DEF Invalidate, Goto
  <2>2. Same(r, job[j]) /\ r.pc = "register" /\ r.cont = job[j].cont
    BY <1>1 DEF JobState, Same
  <2> HIDE DEF r
  <2> QED
    BY <1>4, <2>1, <2>2, Became DEF Going, MergeRead, MergeWrite, Invalidate, At
<1> QED
  BY <1>2, <1>3, <1>4

\* Registering.
LEMMA GoesRegister ==
    ASSUME IndInv, NEW j \in Job, RegisterParsed(j) \/ RegisterIndexed(j)
    PROVE  /\ Going(j) /\ job'[j].cont = job[j].cont
           /\ RegisterParsed(j) => job'[j].pc = "merge"
           /\ RegisterIndexed(j) => job'[j].pc = "finish"
<1>1. job[j] \in JobState
  BY DEF IndInv, JobsOK
<1> DEFINE r(pc) == [job[j] EXCEPT !.pc = pc]
<1>2. /\ RegisterParsed(j) => job[j].kind = "parse" /\ SetJob(j, r("merge"))
      /\ RegisterIndexed(j) => job[j].kind # "parse" /\ SetJob(j, r("finish"))
  BY DEF RegisterParsed, RegisterIndexed, Goto
<1>3. ASSUME NEW pc
      PROVE  Same(r(pc), job[j]) /\ r(pc).pc = pc /\ r(pc).cont = job[j].cont
  BY <1>1 DEF JobState, Same
<1> HIDE DEF r
<1> QED
  BY <1>2, <1>3, Became DEF Going

\* Listing and patching what disagrees.
LEMMA GoesReconcile ==
    ASSUME IndInv, NEW j \in Job
    PROVE  /\ List(j) => /\ Going(j) /\ job'[j].pc = "patch"
                         /\ job'[j].scan = job[j].scan
                         /\ job'[j].todo = {p \in Paper : Disagrees(j, p)}
           /\ \A p : SetJob(j, [job[j] EXCEPT !.todo = @ \ {p}]) =>
                  /\ Going(j) /\ job'[j].pc = job[j].pc
                  /\ job'[j].scan = job[j].scan
                  /\ job'[j].todo = job[j].todo \ {p}
<1>1. job[j] \in JobState
  BY DEF IndInv, JobsOK
<1>2. ASSUME List(j)
      PROVE  /\ Going(j) /\ job'[j].pc = "patch" /\ job'[j].scan = job[j].scan
             /\ job'[j].todo = {p \in Paper : Disagrees(j, p)}
  <2> DEFINE todo == {p \in Paper : Disagrees(j, p)}
             r == [job[j] EXCEPT !.pc = "patch", !.row = "running", !.todo = todo]
  <2>1. SetJob(j, r)
    BY <1>2 DEF List
  <2> HIDE DEF todo
  <2>2. Same(r, job[j]) /\ r.pc = "patch" /\ r.scan = job[j].scan /\ r.todo = todo
    BY <1>1 DEF JobState, Same
  <2> HIDE DEF r
  <2>3. job'[j] = r /\ Going(j)
    BY <2>1, <2>2, Became DEF Going
  <2> QED
    BY <2>2, <2>3 DEF todo
<1>3. ASSUME NEW p, SetJob(j, [job[j] EXCEPT !.todo = @ \ {p}])
      PROVE  /\ Going(j) /\ job'[j].pc = job[j].pc /\ job'[j].scan = job[j].scan
             /\ job'[j].todo = job[j].todo \ {p}
  <2> DEFINE todo == job[j].todo \ {p}
             r == [job[j] EXCEPT !.todo = todo]
  <2>1. SetJob(j, r)
    BY <1>1, <1>3 DEF JobState
  <2> HIDE DEF todo
  <2>2. /\ Same(r, job[j]) /\ r.pc = job[j].pc /\ r.scan = job[j].scan
        /\ r.todo = todo
    BY <1>1 DEF JobState, Same
  <2> HIDE DEF r
  <2>3. job'[j] = r /\ Going(j)
    BY <2>1, <2>2, Became DEF Going
  <2> QED
    BY <2>2, <2>3 DEF todo
<1> QED
  BY <1>2, <1>3

-------------------------------------------------------------------------------
(* What the catalog calls indexed is there.  Chunks are numbered from the same *)
(* number in every content (chunk_idx = 0, rag_chunker.py:251), and the store  *)
(* says so when it fails.  Without the first, three threads with contents that *)
(* share no number may delete each other's chunks.                             *)

First == CHOOSE i \in Id : \A x \in Content : Chunks[x][i] # None
Numbered == /\ ~StoreFaults /\ First \in Id
            /\ \A x \in Content : Chunks[x][First] # None

\* Once a paper has a chunk in the store it has its first one, for good; and so
\* has a paper that a scan has found, or that a thread has written.
Has(units) == units[First] # None
JobThere(r, chunks) ==
    /\ r.pc \in {"upsert", "list", "patch"} =>
           \A p \in Paper, i \in Id : r.scan[p][i] # None => Has(chunks[p])
    /\ r.kind \in {"ingest", "index"}
       /\ r.pc \in {"delete", "merge", "save", "drop", "register"} =>
           Has(chunks[r.paper])
FirstIn(chunks) == \A p \in Paper, i \in Id : chunks[p][i] # None => Has(chunks[p])
ThereInv == /\ FirstIn(store)
            /\ \A p \in Paper : catalog[p].indexed => Has(store[p])
            /\ \A j \in Job : JobThere(job[j], store)

\* A paper with chunks has one.
LEMMA CountPositive ==
    ASSUME NEW units
    PROVE  Count(units) > 0 <=> \E i \in Id : units[i] # None
<1> DEFINE S == {i \in Id : units[i] # None}
<1>1. S \in SUBSET Id /\ IsFiniteSet(Id)
  BY FiniteAssumption
<1>2. IsFiniteSet(S)
  BY <1>1, FS_Subset
<1>3. Cardinality(S) \in Nat /\ (Cardinality(S) = 0 <=> S = {})
  BY <1>2, FS_CardinalityType, FS_EmptySet
<1>4. Count(units) = Cardinality(S)
  BY DEF Count
<1> HIDE DEF S
<1>5. Count(units) > 0 <=> S # {}
  BY <1>3, <1>4
<1> QED
  BY <1>5 DEF S

\* One thread moves, and no paper loses its first chunk.
LEMMA ThereMove ==
    ASSUME IndInv, ThereInv, NEW j \in Job, NEW r, SetJob(j, r),
           JobThere(r, store'), FirstIn(store'),
           \A p \in Paper : Has(store[p]) => Has(store'[p]),
           \A p \in Paper : catalog'[p].indexed => Has(store'[p])
    PROVE  ThereInv'
<1>1. ASSUME NEW k \in Job PROVE JobThere(job'[k], store')
  <2>1. CASE k = j
    BY <2>1 DEF SetJob, IndInv, JobsOK
  <2>2. CASE k # j
    <3>1. job'[k] = job[k] /\ JobThere(job[k], store) /\ Placed(job[k])
      BY <2>2 DEF SetJob, IndInv, JobsOK, ThereInv, Fine
    <3> QED
      BY <3>1 DEF JobThere, Placed
  <2> QED
    BY <2>1, <2>2
<1> QED
  BY <1>1 DEF ThereInv

\* One that leaves store and catalog alone.
LEMMA ThereQuiet ==
    ASSUME IndInv, ThereInv, NEW j \in Job, NEW r, SetJob(j, r),
           JobThere(r, store), store' = store, catalog' = catalog
    PROVE  ThereInv'
BY ThereMove DEF ThereInv

\* A thread ends.
LEMMA ThereEnds ==
    ASSUME IndInv, ThereInv, NEW j \in Job, End(j), store' = store,
           catalog' = catalog
    PROVE  ThereInv'
<1>1. JobThere(NoJob, store)
  BY DEF JobThere, NoJob
<1> QED
  BY <1>1, ThereQuiet DEF End

\* Threads start before they have scanned or written anything.
LEMMA ThereLaunch ==
    ASSUME IndInv, ThereInv, NEW j \in Job, NEW kind \in Kind,
           NEW n \in Name \cup {None}, NEW p \in Paper \cup {None},
           NEW pc \in {"parse", "locate", "read", "scan"},
           Launch(j, kind, n, p, pc), store' = store, catalog' = catalog
    PROVE  ThereInv'
<1>1. PICK r : /\ Fresh(r, kind, n, p, pc)
               /\ job' = [k \in Job |-> IF k = j THEN r
                                        ELSE [job[k] EXCEPT !.sole = FALSE]]
  <2>1. pc \in Step
    BY DEF Step
  <2> QED
    BY <2>1, LaunchFresh
<1>2. ASSUME NEW k \in Job PROVE JobThere(job'[k], store')
  <2>1. CASE k = j
    BY <1>1, <2>1 DEF Fresh, JobThere
  <2>2. CASE k # j
    <3>1. job[k] \in JobState /\ JobThere(job[k], store)
      BY DEF IndInv, JobsOK, ThereInv
    <3>2. job'[k] = [job[k] EXCEPT !.sole = FALSE]
      BY <1>1, <2>2
    <3>3. /\ job'[k].pc = job[k].pc /\ job'[k].kind = job[k].kind
          /\ job'[k].paper = job[k].paper /\ job'[k].scan = job[k].scan
      BY <3>1, <3>2 DEF JobState
    <3> QED
      BY <3>1, <3>3 DEF JobThere
  <2> QED
    BY <2>1, <2>2
<1> QED
  BY <1>2 DEF ThereInv

\* An empty store misses no paper.
LEMMA ThereInit == Init => ThereInv
<1> SUFFICES ASSUME Init PROVE ThereInv
  OBVIOUS
<1>1. FirstIn(store)
  BY DEF Init, FirstIn, Empty
<1>2. \A p \in Paper : ~catalog[p].indexed
  BY DEF Init, NoEntry
<1>3. \A j \in Job : JobThere(job[j], store)
  BY DEF Init, JobThere, NoJob
<1> QED
  BY <1>1, <1>2, <1>3 DEF ThereInv

\* No request touches the store or the catalog.
LEMMA ThereHandler ==
    ASSUME IndInv, ThereInv, Handler
    PROVE  ThereInv'
<1>1. store' = store /\ catalog' = catalog
  BY DEF Handler, Upload, Arrive, ProcessLocal, Ingest, IndexRun, Reconcile, libVars
<1>2. CASE job' = job
  BY <1>1, <1>2 DEF ThereInv
<1>3. CASE job' # job
  <2>1. PICK j \in Job, kind \in Kind, n \in Name \cup {None}, p \in Paper \cup {None},
             pc \in {"parse", "locate", "read", "scan"} : Launch(j, kind, n, p, pc)
    BY <1>3, NameAssumption DEF Handler, Upload, Arrive, ProcessLocal, Ingest,
       IndexRun, Reconcile, Kind
  <2> QED
    BY <1>1, <2>1, ThereLaunch
<1> QED
  BY <1>2, <1>3

\* Steps before the scan, and steps that only pass on what has been written.
LEMMA ThereBefore ==
    ASSUME IndInv, ThereInv, NEW j \in Job,
           \/ Locate(j) \/ Parse(j) \/ WriteChunks(j) \/ ParseFails(j)
           \/ Check(j) \/ Read(j)
    PROVE  ThereInv'
<1>1. store' = store /\ catalog' = catalog
  BY DEF Locate, Parse, WriteChunks, ParseFails, Check, Read, libVars
<1>2. job[j] \in JobState
  BY DEF IndInv, JobsOK
<1>3. CASE End(j)
  BY <1>1, <1>3, ThereEnds
<1>4. CASE ~End(j)
  <2>1. /\ Going(j)
        /\ \/ job'[j].pc \in {"parse", "write", "check", "read", "scan"}
           \/ job'[j].pc = "register" /\ job[j].kind = "parse"
    BY <1>4, GoesBefore, GoesRead
  <2>2. JobThere(job'[j], store)
    BY <2>1 DEF JobThere, Going, Same
  <2> QED
    BY <1>1, <2>1, <2>2, ThereQuiet DEF Going
<1> QED
  BY <1>3, <1>4

\* The scan finds what is there.
LEMMA ThereScan ==
    ASSUME Numbered, IndInv, ThereInv, NEW j \in Job, Scan(j)
    PROVE  ThereInv'
<1>1. /\ Going(j) /\ job'[j].scan = store
      /\ job'[j].pc \in {"list", "upsert"}
  BY GoesScan DEF Numbered
<1>2. store' = store /\ catalog' = catalog
  BY DEF Scan, libVars
<1>3. JobThere(job'[j], store)
  BY <1>1 DEF JobThere, ThereInv, FirstIn
<1> QED
  BY <1>1, <1>2, <1>3, ThereQuiet DEF Going

\* A thread that has written the paper hands it on.
LEMMA ThereAfter ==
    ASSUME IndInv, ThereInv, NEW j \in Job,
           MergeRead(j) \/ MergeWrite(j) \/ Invalidate(j)
    PROVE  ThereInv'
<1>1. store' = store /\ catalog' = catalog
  BY DEF MergeRead, MergeWrite, Invalidate, libVars
<1>2. job[j] \in JobState /\ JobThere(job[j], store)
      /\ job[j].pc \in {"merge", "save", "drop"}
  BY DEF IndInv, JobsOK, ThereInv, MergeRead, MergeWrite, Invalidate, At
<1>3. CASE End(j)
  BY <1>1, <1>3, ThereEnds
<1>4. CASE ~End(j)
  <2>1. Going(j) /\ job'[j].pc \in {"save", "drop", "register"}
    BY <1>4, GoesMerge
  <2>2. JobThere(job'[j], store)
    BY <1>2, <2>1 DEF JobThere, Going, Same
  <2> QED
    BY <1>1, <2>1, <2>2, ThereQuiet DEF Going
<1> QED
  BY <1>3, <1>4

\* What is written has a first chunk, and what is deleted has none.
LEMMA ThereWrite ==
    ASSUME Numbered, IndInv, ThereInv, NEW j \in Job, Upsert(j) \/ Delete(j)
    PROVE  ThereInv'
<1> DEFINE p == job[j].paper
           x == job[j].cont
<1>1. job[j] \in JobState /\ Fine(job[j], rag) /\ JobThere(job[j], store)
      /\ store \in Store /\ FirstIn(store)
  BY DEF IndInv, TypeOK, JobsOK, ThereInv
<1>2. p \in Paper /\ x \in Content /\ job[j].kind \in {"ingest", "index"}
      /\ job[j].pc \in {"upsert", "delete"}
  BY <1>1 DEF Upsert, Delete, At, Fine, Placed, InHand
<1>3. Chunks[x][First] # None /\ First \in Id
  BY <1>2 DEF Numbered
<1>4. PICK S, units : SetChunks(p, S, units)
                      /\ (First \in S => units[First] # None)
                      /\ (First \notin S => Has(store[p]))
  <2>1. CASE Upsert(j)
    <3>1. SetChunks(p, Changed(j), Chunks[x])
      BY <2>1 DEF Upsert, Numbered
    <3>2. First \notin Changed(j) => Has(store[p])
      BY <1>1, <1>2, <1>3, <2>1 DEF Changed, Upsert, At, JobThere
    <3> QED
      BY <1>3, <3>1, <3>2
  <2>2. CASE Delete(j)
    <3>1. SetChunks(p, Orphaned(j), Empty) /\ job[j].pc = "delete"
      BY <2>2 DEF Delete, At
    <3>2. First \notin Orphaned(j)
      BY <1>3 DEF Orphaned
    <3> QED
      BY <1>1, <1>2, <3>1, <3>2 DEF JobThere
  <2> QED
    BY <2>1, <2>2
<1>5. Has(store'[p]) /\ \A q \in Paper \ {p} : store'[q] = store[q]
  BY <1>1, <1>2, <1>3, <1>4 DEF SetChunks, Has, Store
<1>6. FirstIn(store')
  BY <1>1, <1>5 DEF FirstIn
<1>7. /\ \A q \in Paper : Has(store[q]) => Has(store'[q])
      /\ \A q \in Paper : catalog'[q].indexed => Has(store'[q])
  BY <1>5 DEF ThereInv, Upsert, Delete
<1>8. Going(j) /\ job'[j].pc \in {"merge", "delete"}
  BY GoesWrite
<1>9. JobThere(job'[j], store')
  BY <1>5, <1>8 DEF JobThere, Going, Same
<1> QED
  BY <1>6, <1>7, <1>8, <1>9, ThereMove DEF Going

\* Only a paper that has been written is registered as indexed.
LEMMA ThereRegister ==
    ASSUME IndInv, ThereInv, NEW j \in Job, RegisterParsed(j) \/ RegisterIndexed(j)
    PROVE  ThereInv'
<1> DEFINE p == job[j].paper
<1>1. job[j] \in JobState /\ Fine(job[j], rag) /\ JobThere(job[j], store)
      /\ catalog \in [Paper -> Entry] /\ job[j].pc = "register" /\ store' = store
  BY DEF IndInv, TypeOK, JobsOK, ThereInv, RegisterParsed, RegisterIndexed, At
<1>2. p \in Paper /\ job[j].kind \in {"ingest", "index", "parse"}
  BY <1>1 DEF Fine, Placed
<1>3. \A q \in Paper : catalog'[q].indexed => Has(store'[q])
  <2>1. \A q \in Paper \ {p} : catalog'[q] = catalog[q]
    BY <1>1, <1>2 DEF RegisterParsed, RegisterIndexed, SetEntry
  <2>2. catalog'[p].indexed => RegisterIndexed(j)
    BY <1>1, <1>2 DEF RegisterParsed, SetEntry
  <2>3. RegisterIndexed(j) => Has(store[p])
    BY <1>1, <1>2 DEF RegisterIndexed, JobThere
  <2> QED
    BY <1>1, <2>1, <2>2, <2>3 DEF ThereInv
<1>4. /\ Going(j)
      /\ job'[j].pc = "finish" \/ (job'[j].pc = "merge" /\ job[j].kind = "parse")
  BY GoesRegister DEF RegisterParsed
<1>5. JobThere(job'[j], store')
  BY <1>4 DEF JobThere, Going, Same
<1>6. FirstIn(store') /\ \A q \in Paper : Has(store[q]) => Has(store'[q])
  BY <1>1 DEF ThereInv
<1> QED
  BY <1>3, <1>4, <1>5, <1>6, ThereMove DEF Going

\* Only a paper that has been found is patched to be indexed.
LEMMA ThereReconcile ==
    ASSUME IndInv, ThereInv, NEW j \in Job, List(j) \/ Patch(j)
    PROVE  ThereInv'
<1>1. job[j] \in JobState /\ JobThere(job[j], store) /\ store' = store
      /\ catalog \in [Paper -> Entry] /\ job[j].pc \in {"list", "patch"}
      /\ Fine(job[j], rag)
  BY DEF IndInv, TypeOK, JobsOK, ThereInv, List, Patch, At, libVars
<1>2. job[j].kind = "reconcile"
  BY <1>1 DEF Fine, Placed
<1>3. Going(j) /\ job'[j].scan = job[j].scan /\ job'[j].pc = "patch"
  BY <1>1, GoesReconcile DEF Patch, At
<1>4. JobThere(job'[j], store')
  BY <1>1, <1>2, <1>3 DEF JobThere, Going, Same
<1>5. \A q \in Paper : catalog'[q].indexed => Has(store'[q])
  <2>1. CASE List(j)
    BY <1>1, <2>1 DEF List, libVars, ThereInv
  <2>2. CASE Patch(j)
    <3>1. PICK p \in job[j].todo :
             SetEntry(p, [catalog[p] EXCEPT !.indexed = ShouldBeIndexed(j, p),
                                            !.count = Found(j, p)])
      BY <2>2 DEF Patch
    <3>2. p \in Paper /\ catalog[p] \in Entry
      BY <1>1, <3>1 DEF JobState
    <3>3. \A q \in Paper \ {p} : catalog'[q] = catalog[q]
      BY <1>1, <3>1 DEF SetEntry
    <3>4. catalog'[p].indexed => ShouldBeIndexed(j, p)
      BY <1>1, <3>1, <3>2 DEF SetEntry, Entry
    <3>5. ShouldBeIndexed(j, p) => \E i \in Id : job[j].scan[p][i] # None
      BY CountPositive DEF ShouldBeIndexed, Found
    <3>6. ShouldBeIndexed(j, p) => Has(store[p])
      BY <1>1, <3>2, <3>5 DEF JobThere
    <3> QED
      BY <1>1, <3>3, <3>4, <3>6 DEF ThereInv
  <2> QED
    BY <2>1, <2>2
<1>6. FirstIn(store') /\ \A q \in Paper : Has(store[q]) => Has(store'[q])
  BY <1>1 DEF ThereInv
<1> QED
  BY <1>3, <1>4, <1>5, <1>6, ThereMove DEF Going

\* A restart leaves store and catalog as they are.
LEMMA ThereRestart == ThereInv /\ Restart => ThereInv'
<1> SUFFICES ASSUME ThereInv, Restart PROVE ThereInv'
  OBVIOUS
<1>1. ASSUME NEW j \in Job PROVE JobThere(job'[j], store')
  <2>1. CASE ~Busy(j)
    BY <2>1 DEF Restart, ThereInv
  <2>2. CASE Busy(j)
    <3>1. job'[j] = Left(j)
      BY <2>2 DEF Restart
    <3>2. Left(j).pc = "idle"
      BY DEF Left, NoJob
    <3> QED
      BY <3>1, <3>2 DEF JobThere
  <2> QED
    BY <2>1, <2>2
<1> QED
  BY <1>1 DEF ThereInv, Restart

\* What the catalog calls indexed can be found, for any number of papers,
\* contents and threads, as long as chunks are numbered from the same number
\* and the store does not hide its errors (catalog.py:17).
THEOREM IndexedIsThereHolds == Spec => [](Numbered => IndexedIsThere)
<1>1. Init => ThereInv
  BY ThereInit
<1>2. IndInv /\ (Numbered => ThereInv) /\ [Next]_vars => (Numbered => ThereInv)'
  <2> SUFFICES ASSUME IndInv, ThereInv, Numbered, [Next]_vars PROVE ThereInv'
    BY DEF Numbered
  <2>1. CASE Handler
    BY <2>1, ThereHandler
  <2>2. CASE Load \/ Loaded \/ UNCHANGED vars
    BY <2>2 DEF Load, Loaded, vars, ThereInv
  <2>3. ASSUME NEW j \in Job, Thread(j) \/ Expire(j) PROVE ThereInv'
    <3>1. CASE DeleteFails(j) \/ Finish(j) \/ Reconciled(j) \/ Expire(j)
      <4>1. End(j) /\ store' = store /\ catalog' = catalog
        BY <3>1 DEF DeleteFails, Finish, Reconciled, Expire, End, libVars
      <4> QED
        BY <4>1, ThereEnds
    <3> QED
      BY <2>3, <3>1, ThereBefore, ThereScan, ThereAfter, ThereWrite,
         ThereRegister, ThereReconcile DEF Thread
  <2>4. CASE Restart
    BY <2>4, ThereRestart
  <2> QED
    BY <2>1, <2>2, <2>3, <2>4 DEF Next
<1>3. ThereInv /\ Numbered => IndexedIsThere
  <2> SUFFICES ASSUME ThereInv, Numbered, NEW p \in Paper, catalog[p].indexed
               PROVE  Count(store[p]) > 0
    BY DEF IndexedIsThere
  <2>1. Has(store[p]) /\ First \in Id
    BY DEF ThereInv, Numbered
  <2>2. \E i \in Id : store[p][i] # None
    BY <2>1 DEF Has
  <2> QED
    BY <2>2, CountPositive
<1> QED
  BY <1>1, <1>2, <1>3, LibraryInvariant, PTL DEF Spec
-------------------------------------------------------------------------------
(* What a run that had the library to itself leaves behind.  The store says so *)
(* when it fails: one that answers a scan with {} makes a reconciliation take  *)
(* every paper for lost.                                                       *)

Alone(j) == \A k \in Job \ {j} : ~Busy(k)
Kept(p) == \A i \in Id : Chunks[rag[p]][i] \in {None, store[p][i]}
Agrees(p) == catalog[p].there => /\ catalog[p].indexed = (Count(store[p]) > 0)
                                 /\ catalog[p].count = Count(store[p])
ToIndex(r) == r.kind \in {"ingest", "index"}

\* How far a run has come, at the step it is to do next.
InLine(r) ==
    /\ ToIndex(r) /\ r.pc \in {"scan", "upsert", "delete", "merge", "save",
                               "drop", "register", "finish"} =>
           r.cont = rag[r.paper]
    /\ r.pc \in {"upsert", "list", "patch"} => r.scan = store
    /\ ToIndex(r) /\ r.pc \in {"delete", "merge", "save", "drop", "register",
                               "finish"} => Kept(r.paper)
    /\ ToIndex(r) /\ r.pc = "save" => r.snap = rag
    /\ ToIndex(r) /\ r.pc \in {"drop", "register", "finish"} =>
           merged[r.paper] = rag[r.paper]
    /\ ToIndex(r) /\ r.pc = "finish" => catalog[r.paper].indexed
    /\ r.pc = "patch" => \A p \in Paper \ r.todo : Agrees(p)
SoleInv == \A j \in Job : job[j].sole => Alone(j) /\ InLine(job[j])

\* One thread moves: what it does to the library is its own to answer for.
LEMMA SoleMove ==
    ASSUME IndInv, SoleInv, NEW j \in Job, Busy(j), Going(j),
           job[j].sole => InLine(job[j])'
    PROVE  SoleInv'
<1>1. \A k \in Job \ {j} : job'[k] = job[k]
  BY DEF Going, SetJob, IndInv, JobsOK
<1>2. job[j].sole => SoleInv'
  <2> SUFFICES ASSUME job[j].sole PROVE SoleInv'
    OBVIOUS
  <2>1. Alone(j)'
    BY <1>1 DEF SoleInv, Alone, Busy
  <2>2. \A k \in Job \ {j} : ~job[k].sole
    BY DEF SoleInv, Alone
  <2> QED
    BY <1>1, <2>1, <2>2 DEF SoleInv
<1>3. ~job[j].sole => SoleInv'
  <2>1. \A k \in Job \ {j} : ~job[k].sole
    BY DEF SoleInv, Alone
  <2> QED
    BY <1>1, <2>1 DEF SoleInv, Going, Same
<1> QED
  BY <1>2, <1>3

\* A thread ends, and has changed nothing the others look at.
LEMMA SoleEnds ==
    ASSUME IndInv, SoleInv, NEW j \in Job, End(j), rag' = rag, store' = store,
           catalog' = catalog, merged' = merged
    PROVE  SoleInv'
<1>1. job'[j] = NoJob /\ \A k \in Job \ {j} : job'[k] = job[k]
  BY DEF End, SetJob, IndInv, JobsOK
<1>2. ~NoJob.sole /\ NoJob.pc = "idle"
  BY DEF NoJob
<1>3. ASSUME NEW k \in Job, job'[k].sole PROVE Alone(k)' /\ InLine(job[k])'
  <2>1. k # j /\ job'[k] = job[k]
    BY <1>1, <1>2, <1>3
  <2>2. Alone(k) /\ InLine(job[k])
    BY <1>3, <2>1 DEF SoleInv
  <2>3. Alone(k)'
    BY <1>1, <1>2, <2>2 DEF Alone, Busy
  <2>4. InLine(job[k])'
    BY <2>1, <2>2 DEF InLine, Kept, Agrees
  <2> QED
    BY <2>3, <2>4
<1> QED
  BY <1>3 DEF SoleInv

\* A thread that starts has done nothing yet, and nobody runs alone beside it.
LEMMA SoleLaunch ==
    ASSUME IndInv, SoleInv, NEW j \in Job, NEW kind \in Kind,
           NEW n \in Name \cup {None}, NEW p \in Paper \cup {None},
           NEW pc \in {"parse", "locate", "read", "scan"},
           pc = "scan" => kind = "reconcile", Launch(j, kind, n, p, pc)
    PROVE  SoleInv'
<1>1. PICK alone \in BOOLEAN : alone = \A l \in Job : ~Busy(l)
  OBVIOUS
<1> DEFINE r == [NoJob EXCEPT !.kind = kind, !.name = n, !.paper = p,
                              !.pc = pc, !.row = "pending", !.sole = alone]
<1>2. job' = [k \in Job |-> IF k = j THEN r ELSE [job[k] EXCEPT !.sole = FALSE]]
  BY <1>1 DEF Launch
<1>3. r.kind = kind /\ r.pc = pc /\ r.sole = alone
  BY DEF NoJob
<1> HIDE DEF r
<1>4. ASSUME NEW k \in Job \ {j} PROVE ~job'[k].sole /\ job'[k].pc = job[k].pc
  <2>1. job[k] \in JobState /\ job'[k] = [job[k] EXCEPT !.sole = FALSE]
    BY <1>2 DEF IndInv, JobsOK
  <2> QED
    BY <2>1 DEF JobState
<1>5. alone => Alone(j)'
  BY <1>1, <1>4 DEF Alone, Busy
<1>6. InLine(r)'
  BY <1>3 DEF InLine, ToIndex
<1>7. job'[j] = r
  BY <1>2
<1> QED
  BY <1>3, <1>4, <1>5, <1>6, <1>7 DEF SoleInv

\* The handlers.
LEMMA SoleHandler ==
    ASSUME IndInv, SoleInv, Handler
    PROVE  SoleInv'
<1>1. rag' = rag /\ store' = store /\ catalog' = catalog /\ merged' = merged
  BY DEF Handler, Upload, Arrive, ProcessLocal, Ingest, IndexRun, Reconcile, libVars
<1>2. CASE job' = job
  BY <1>1, <1>2 DEF SoleInv, Alone, Busy, InLine, Kept, Agrees
<1>3. CASE job' # job
  <2>1. PICK j \in Job, kind \in Kind, n \in Name \cup {None}, p \in Paper \cup {None},
             pc \in {"parse", "locate", "read", "scan"} :
             Launch(j, kind, n, p, pc) /\ (pc = "scan" => kind = "reconcile")
    BY <1>3, NameAssumption DEF Handler, Upload, Arrive, ProcessLocal, Ingest,
       IndexRun, Reconcile, Kind
  <2> QED
    BY <2>1, SoleLaunch
<1> QED
  BY <1>2, <1>3

\* Before the chunks are read there is nothing to answer for.
LEMMA SoleBefore ==
    ASSUME IndInv, SoleInv, NEW j \in Job,
           \/ Locate(j) \/ Parse(j) \/ WriteChunks(j) \/ ParseFails(j)
           \/ Check(j) \/ Read(j)
    PROVE  SoleInv'
<1>1. Busy(j)
  BY DEF Locate, Parse, WriteChunks, ParseFails, Check, Read, At, Busy
<1>2. CASE End(j)
  <2>1. ~WriteChunks(j)
    <3>1. job[j] \in JobState
      BY DEF IndInv, JobsOK
    <3>2. job'[j].pc = "idle"
      BY <1>2 DEF End, SetJob, IndInv, JobsOK, NoJob
    <3>3. WriteChunks(j) => job'[j].pc = "check"
      BY <3>1 DEF WriteChunks, SetJob, IndInv, JobsOK, JobState
    <3> QED
      BY <3>2, <3>3
  <2> QED
    BY <1>2, <2>1, SoleEnds DEF Locate, Parse, ParseFails, Check, Read, libVars
<1>3. CASE ~End(j) /\ ~Read(j)
  <2>1. /\ Going(j)
        /\ \/ job'[j].pc \in {"parse", "write", "check", "read"}
           \/ job'[j].pc = "register" /\ job[j].kind = "parse"
    BY <1>3, GoesBefore
  <2>2. InLine(job[j])'
    BY <2>1 DEF InLine, ToIndex, Going, Same
  <2> QED
    BY <1>1, <2>1, <2>2, SoleMove
<1>4. CASE Read(j)
  <2>1. Going(j) /\ job'[j].pc = "scan" /\ job'[j].cont = rag[job[j].paper]
    BY <1>4, GoesRead
  <2>2. InLine(job[j])'
    BY <1>4, <2>1 DEF InLine, ToIndex, Going, Same, Read, libVars
  <2> QED
    BY <1>1, <2>1, <2>2, SoleMove
<1> QED
  BY <1>2, <1>3, <1>4

\* The scan sees the store as it is, and it stays as it is until the write.
LEMMA SoleScan ==
    ASSUME ~StoreFaults, IndInv, SoleInv, NEW j \in Job, Scan(j)
    PROVE  SoleInv'
<1>1. /\ Going(j) /\ job'[j].scan = store /\ job'[j].cont = job[j].cont
      /\ job'[j].pc = IF job[j].kind = "reconcile" THEN "list" ELSE "upsert"
  BY GoesScan
<1>2. rag' = rag /\ store' = store /\ job[j].pc = "scan" /\ Busy(j)
  BY DEF Scan, libVars, At, Busy
<1>3. job[j].sole => InLine(job[j])'
  BY <1>1, <1>2 DEF SoleInv, InLine, ToIndex, Going, Same
<1> QED
  BY <1>1, <1>2, <1>3, SoleMove

\* What has changed is written, the rest is there already; what is deleted is
\* not among the chunks on disk.
LEMMA SoleWrite ==
    ASSUME ~StoreFaults, IndInv, SoleInv, NEW j \in Job, Upsert(j) \/ Delete(j)
    PROVE  SoleInv'
<1> DEFINE p == job[j].paper
           x == job[j].cont
<1>1. /\ job[j] \in JobState /\ Fine(job[j], rag) /\ store \in Store
      /\ job[j].pc \in {"upsert", "delete"} /\ Busy(j)
      /\ rag' = rag /\ merged' = merged /\ catalog' = catalog
  BY DEF IndInv, TypeOK, JobsOK, Upsert, Delete, At, Busy
<1>2. p \in Paper /\ ToIndex(job[j])
  BY <1>1 DEF Fine, Placed, ToIndex
<1>3. /\ Going(j) /\ job'[j].pc \in {"merge", "delete"} /\ job'[j].cont = x
  BY GoesWrite
<1>4. ASSUME job[j].sole PROVE InLine(job[j])'
  <2>1. InLine(job[j]) /\ x = rag[p]
    BY <1>1, <1>2, <1>4 DEF SoleInv, InLine
  <2>2. \A i \in Id : Chunks[x][i] \in {None, store'[p][i]}
    <3>1. CASE Upsert(j)
      <4>1. SetChunks(p, Changed(j), Chunks[x]) /\ job[j].scan = store
        BY <1>1, <2>1, <3>1 DEF Upsert, At, InLine
      <4>2. store'[p] = [i \in Id |-> IF i \in Changed(j) THEN Chunks[x][i]
                                                          ELSE store[p][i]]
        BY <1>1, <1>2, <4>1 DEF SetChunks, Store
      <4>3. \A i \in Id : i \notin Changed(j) => Chunks[x][i] \in {None, store[p][i]}
        BY <4>1 DEF Changed
      <4> QED
        BY <4>2, <4>3
    <3>2. CASE Delete(j)
      <4>1. SetChunks(p, Orphaned(j), Empty) /\ Kept(p)
        BY <1>1, <1>2, <2>1, <3>2 DEF Delete, At, InLine
      <4>2. store'[p] = [i \in Id |-> IF i \in Orphaned(j) THEN Empty[i]
                                                           ELSE store[p][i]]
        BY <1>1, <1>2, <4>1 DEF SetChunks, Store
      <4>3. \A i \in Orphaned(j) : Chunks[x][i] = None
        BY DEF Orphaned
      <4> QED
        BY <2>1, <4>1, <4>2, <4>3 DEF Kept
    <3> QED
      BY <3>1, <3>2
  <2> QED
    BY <1>1, <1>3, <2>1, <2>2 DEF InLine, Kept, Going, Same
<1> QED
  BY <1>1, <1>3, <1>4, SoleMove

\* The chunk files are merged as they are, and search is told.
LEMMA SoleMerge ==
    ASSUME IndInv, SoleInv, NEW j \in Job,
           MergeRead(j) \/ MergeWrite(j) \/ Invalidate(j)
    PROVE  SoleInv'
<1>1. /\ rag' = rag /\ store' = store /\ catalog' = catalog /\ Busy(j)
      /\ MergeRead(j) \/ Invalidate(j) => merged' = merged
      /\ MergeWrite(j) => merged' = job[j].snap
  BY DEF MergeRead, MergeWrite, Invalidate, libVars, At, Busy
<1>2. CASE End(j)
  <2>1. ~MergeWrite(j)
    <3>1. job[j] \in JobState
      BY DEF IndInv, JobsOK
    <3>2. job'[j].pc = "idle"
      BY <1>2 DEF End, SetJob, IndInv, JobsOK, NoJob
    <3>3. MergeWrite(j) => job'[j].pc = "drop"
      BY <3>1 DEF MergeWrite, SetJob, IndInv, JobsOK, JobState
    <3> QED
      BY <3>2, <3>3
  <2> QED
    BY <1>1, <1>2, <2>1, SoleEnds
<1>3. CASE ~End(j)
  <2>1. /\ Going(j) /\ job'[j].cont = job[j].cont
        /\ MergeRead(j) => job'[j].pc = "save" /\ job'[j].snap = rag
        /\ MergeWrite(j) => job'[j].pc = "drop"
        /\ Invalidate(j) => job'[j].pc = "register"
    BY <1>3, GoesMerge
  <2>2. /\ MergeRead(j) => job[j].pc = "merge"
        /\ MergeWrite(j) => job[j].pc = "save"
        /\ Invalidate(j) => job[j].pc = "drop"
    BY DEF MergeRead, MergeWrite, Invalidate, At
  <2>3. ASSUME job[j].sole PROVE InLine(job[j])'
    <3>1. InLine(job[j])
      BY <2>3 DEF SoleInv
    <3> QED
      BY <1>1, <2>1, <2>2, <3>1 DEF InLine, ToIndex, Kept, Going, Same
  <2> QED
    BY <1>1, <2>1, <2>3, SoleMove
<1> QED
  BY <1>2, <1>3

\* Registering, at last.
LEMMA SoleRegister ==
    ASSUME IndInv, SoleInv, NEW j \in Job, RegisterParsed(j) \/ RegisterIndexed(j)
    PROVE  SoleInv'
<1>1. /\ rag' = rag /\ store' = store /\ merged' = merged /\ Busy(j)
      /\ job[j] \in JobState /\ Fine(job[j], rag) /\ catalog \in [Paper -> Entry]
      /\ job[j].pc = "register"
  BY DEF RegisterParsed, RegisterIndexed, At, Busy, IndInv, TypeOK, JobsOK
<1>2. job[j].paper \in Paper
  BY <1>1 DEF Fine, Placed
<1>3. /\ Going(j) /\ job'[j].cont = job[j].cont
      /\ RegisterParsed(j) => job'[j].pc = "merge"
      /\ RegisterIndexed(j) => job'[j].pc = "finish"
  BY GoesRegister
<1>4. RegisterIndexed(j) => catalog'[job[j].paper].indexed
  BY <1>1, <1>2 DEF RegisterIndexed, SetEntry
<1>5. RegisterParsed(j) => job[j].kind = "parse"
  BY DEF RegisterParsed
<1>6. ASSUME job[j].sole PROVE InLine(job[j])'
  <2>1. InLine(job[j])
    BY <1>6 DEF SoleInv
  <2>2. CASE RegisterParsed(j)
    BY <1>3, <1>5, <2>2 DEF InLine, ToIndex, Going, Same
  <2>3. CASE RegisterIndexed(j)
    BY <1>1, <1>3, <1>4, <2>1, <2>3 DEF InLine, ToIndex, Kept, Going, Same
  <2> QED
    BY <2>2, <2>3
<1> QED
  BY <1>1, <1>3, <1>6, SoleMove

\* What is not on the list agrees with the store, and what is taken off it does.
LEMMA SoleReconcile ==
    ASSUME IndInv, SoleInv, NEW j \in Job, List(j) \/ Patch(j)
    PROVE  SoleInv'
<1>1. /\ rag' = rag /\ store' = store /\ merged' = merged /\ Busy(j)
      /\ job[j] \in JobState /\ Fine(job[j], rag) /\ catalog \in [Paper -> Entry]
      /\ job[j].pc \in {"list", "patch"}
  BY DEF List, Patch, At, Busy, IndInv, TypeOK, JobsOK, libVars
<1>2. ~ToIndex(job[j])
  BY <1>1 DEF Fine, Placed, ToIndex
<1>3. ASSUME job[j].sole PROVE job[j].scan = store
  BY <1>1, <1>3 DEF SoleInv, InLine
<1>4. CASE List(j)
  <2>1. /\ Going(j) /\ job'[j].pc = "patch" /\ job'[j].scan = job[j].scan
        /\ job'[j].todo = {p \in Paper : Disagrees(j, p)} /\ catalog' = catalog
    BY <1>4, GoesReconcile DEF List, libVars
  <2>2. ASSUME job[j].sole, NEW p \in Paper \ job'[j].todo PROVE Agrees(p)'
    BY <1>1, <1>3, <2>1, <2>2 DEF Disagrees, Agrees, Found, ShouldBeIndexed
  <2>3. job[j].sole => InLine(job[j])'
    BY <1>1, <1>2, <1>3, <2>1, <2>2 DEF InLine, ToIndex, Going, Same
  <2> QED
    BY <1>1, <2>1, <2>3, SoleMove
<1>5. CASE Patch(j)
  <2>1. PICK p \in job[j].todo :
           /\ SetEntry(p, [catalog[p] EXCEPT !.indexed = ShouldBeIndexed(j, p),
                                             !.count = Found(j, p)])
           /\ SetJob(j, [job[j] EXCEPT !.todo = @ \ {p}])
    BY <1>5 DEF Patch
  <2>2. /\ Going(j) /\ job'[j].pc = "patch" /\ job'[j].scan = job[j].scan
        /\ job'[j].todo = job[j].todo \ {p}
    BY <1>5, <2>1, GoesReconcile DEF Patch, At
  <2>3. p \in Paper /\ catalog[p] \in Entry
    BY <1>1, <2>1 DEF JobState
  <2>4. PICK found \in BOOLEAN : found = ShouldBeIndexed(j, p)
    <3>1. ShouldBeIndexed(j, p) \in BOOLEAN
      BY DEF ShouldBeIndexed
    <3> QED
      BY <3>1, Zenon
  <2>5. SetEntry(p, [catalog[p] EXCEPT !.indexed = found, !.count = Found(j, p)])
    BY <2>1, <2>4
  <2>6. /\ catalog'[p].indexed = found /\ catalog'[p].count = Found(j, p)
        /\ \A q \in Paper \ {p} : catalog'[q] = catalog[q]
    BY <1>1, <2>3, <2>5 DEF SetEntry, Entry
  <2>7. ASSUME job[j].sole PROVE InLine(job[j])'
    <3>1. \A q \in Paper \ job[j].todo : Agrees(q)
      BY <1>5, <2>7 DEF SoleInv, InLine, Patch, At
    <3>2. Agrees(p)'
      BY <1>1, <1>3, <2>4, <2>6, <2>7 DEF Agrees, Found, ShouldBeIndexed
    <3>3. \A q \in Paper \ job'[j].todo : Agrees(q)'
      BY <1>1, <2>2, <2>6, <3>1, <3>2 DEF Agrees
    <3> QED
      BY <1>1, <1>2, <1>3, <2>2, <2>7, <3>3 DEF InLine, ToIndex, Going, Same
  <2> QED
    BY <1>1, <2>2, <2>7, SoleMove
<1> QED
  BY <1>4, <1>5

\* After a restart nobody is at work.
LEMMA SoleRestart == IndInv /\ SoleInv /\ Restart => SoleInv'
<1> SUFFICES ASSUME IndInv, SoleInv, Restart PROVE SoleInv'
  OBVIOUS
<1>1. ASSUME NEW j \in Job PROVE ~Busy(j)'
  <2>1. Left(j).pc = "idle"
    BY DEF Left, NoJob
  <2> QED
    BY <2>1 DEF Restart, Busy
<1>2. ASSUME NEW j \in Job PROVE InLine(job[j])'
  BY <1>1, <1>2 DEF InLine, Busy
<1> QED
  BY <1>1, <1>2 DEF SoleInv, Alone

\* An ingest that had the library to itself has delivered when it reports
\* success (_run_ingest, background.py:92-161), and a reconciliation that ran
\* alone leaves the catalog in agreement with the store (reconcile.py:14-15),
\* whatever had happened to the library before, as long as the store says so
\* when it fails.
THEOREM SoleRunAgreesHolds == Spec => [](~StoreFaults => SoleRunAgrees)
<1>1. Init => SoleInv
  BY DEF Init, SoleInv, NoJob
<1>2. IndInv /\ (~StoreFaults => SoleInv) /\ [Next]_vars => (~StoreFaults => SoleInv)'
  <2> SUFFICES ASSUME IndInv, SoleInv, ~StoreFaults, [Next]_vars PROVE SoleInv'
    OBVIOUS
  <2>1. CASE Handler
    BY <2>1, SoleHandler
  <2>2. CASE Load \/ Loaded \/ UNCHANGED vars
    BY <2>2 DEF Load, Loaded, vars, SoleInv, Alone, Busy, InLine, Kept, Agrees
  <2>3. ASSUME NEW j \in Job, Thread(j) \/ Expire(j) PROVE SoleInv'
    <3>1. CASE DeleteFails(j) \/ Finish(j) \/ Reconciled(j) \/ Expire(j)
      <4>1. End(j) /\ UNCHANGED libVars
        BY <3>1 DEF DeleteFails, Finish, Reconciled, Expire, End
      <4> QED
        BY <4>1, SoleEnds DEF libVars
    <3> QED
      BY <2>3, <3>1, SoleBefore, SoleScan, SoleWrite, SoleMerge, SoleRegister,
         SoleReconcile DEF Thread
  <2>4. CASE Restart
    BY <2>4, SoleRestart
  <2> QED
    BY <2>1, <2>2, <2>3, <2>4 DEF Next
<1>3. IndInv /\ SoleInv => SoleRunAgrees
  <2> SUFFICES ASSUME IndInv, SoleInv PROVE SoleIngestDelivers /\ SoleReconcileAgrees
    BY DEF SoleRunAgrees
  <2>1. SoleIngestDelivers
    <3> SUFFICES ASSUME NEW j \in Job, At(j, "finish"), job[j].sole
                 PROVE  LET p == job[j].paper IN
                        /\ catalog[p].indexed
                        /\ \A i \in Id : Chunks[rag[p]][i] \in {None, store[p][i]}
                        /\ merged[p] = rag[p]
                        /\ served # None => served[p] = rag[p]
      BY DEF SoleIngestDelivers
    <3>1. ToIndex(job[j])
      BY Here DEF Fine, Placed, ToIndex, At
    <3>2. /\ catalog[job[j].paper].indexed /\ Kept(job[j].paper)
          /\ merged[job[j].paper] = rag[job[j].paper]
      BY <3>1 DEF SoleInv, InLine, At
    <3>3. \A k \in Job : ~At(k, "drop")
      BY DEF SoleInv, Alone, Busy, At
    <3>4. served \in {None, merged}
      BY <3>3 DEF IndInv, ServedFresh
    <3> QED
      BY <3>2, <3>4 DEF Kept
  <2>2. SoleReconcileAgrees
    BY DEF SoleReconcileAgrees, SoleInv, InLine, Agrees, At
  <2> QED
    BY <2>1, <2>2
<1> QED
  BY <1>1, <1>2, <1>3, LibraryInvariant, PTL DEF Spec
===============================================================================
