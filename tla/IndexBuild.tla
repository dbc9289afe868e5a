----------------------------- MODULE IndexBuild -----------------------------
(***************************************************************************)
(* Indexing one paper, again and again: the texts are embedded in batches   *)
(* (indexer/embedder.py, embedding_adapters.py), compared with what the     *)
(* vector store holds (dedup_manager.py), written to it                     *)
(* (vector_store.py, both backends) and noted in the manifest of the        *)
(* evaluation (pipeline.py run, export_eval_manifest).  The embedding model *)
(* and so the length of its vectors may change between two runs, any call   *)
(* may fail and the process may stop.  The store also holds another paper.  *)
(***************************************************************************)
EXTENDS Integers, Sequences, FiniteSets, SequencesExt, FiniteSetsExt

CONSTANTS
    Mine,      \* ids of the paper's chunks
    Others,    \* ids of the other paper's
    Contents,  \* versions of the paper: functions from some of Mine to texts
    Models,    \* lengths of vectors
    Default,   \* the length that Chroma is given when nothing tells it
    Batch, Tries, MaxRuns, MaxFaults

None == "none"
BuildAssumption ==
    /\ {Batch, Tries} \subseteq Nat \ {0} /\ {MaxRuns, MaxFaults} \subseteq Nat /\ Default \notin Models
    /\ Mine \cap Others = {}

VARIABLES
    ix,     \* the run: [pc, model, local, from, tries, one, runs, faults, remade, harmed]
    units,  \* its chunks: a sequence of [id, text, vec]
    known,  \* the hashes that it read from the store, each standing for the text
    col,    \* the collection: [kind, dim, shared, points]
    book    \* the manifest: lines of [id, text], unreadable ones have no id

buildVars == <<ix, units, known, col, book>>

Id == Mine \cup Others
Vec(text, dim) == <<text, dim>>
Zero(dim)      == <<"", dim>>
Failed         == <<>>
Point(text, vec) == [text |-> text, vec |-> vec]
NoPoint          == Point(None, Failed)
Stored(c)        == {i \in Id : c.points[i] # NoPoint}

First == 1   \* the model of the first index
Init ==
    /\ \E l \in BOOLEAN :
          ix = [pc |-> "idle", model |-> First, local |-> l, from |-> 0, tries |-> 0, one |-> 0, runs |-> 0,
                faults |-> 0, remade |-> 0, harmed |-> FALSE]
    /\ units = <<>> /\ known = [i \in Id |-> None] /\ book = <<>>
    /\ \/ \E k \in {"qdrant", "chroma"} :
             col = [kind |-> k, dim |-> First, shared |-> TRUE,
                    points |-> [i \in Id |-> IF i \in Others THEN Point("other", Vec("other", First)) ELSE NoPoint]]
       \/ col = [kind |-> "chroma", dim |-> 0, shared |-> FALSE, points |-> [i \in Id |-> NoPoint]]

Goto(pc) == ix' = [ix EXCEPT !.pc = pc]
Fault(rec) == ix.faults < MaxFaults /\ ix' = [rec EXCEPT !.faults = ix.faults + 1, !.harmed = TRUE]

-----------------------------------------------------------------------------
Begin(c, m) ==
    LET ids == SetToSeq(DOMAIN c) IN
    /\ ix.pc = "idle" /\ ix.runs < MaxRuns
    /\ units' = [n \in DOMAIN ids |-> [id |-> ids[n], text |-> c[ids[n]], vec |-> Failed]]
    /\ ix' = [ix EXCEPT !.pc = IF ids = <<>> THEN "read" ELSE "embed", !.model = m, !.from = 1, !.tries = 1,
                        !.one = 0, !.runs = @ + 1, !.harmed = FALSE]
    /\ UNCHANGED <<known, col, book>>

BatchEnd == Min({ix.from + Batch - 1, Len(units)})
Onwards ==
    IF BatchEnd = Len(units) THEN [ix EXCEPT !.pc = "read"]
    ELSE [ix EXCEPT !.pc = "embed", !.from = BatchEnd + 1, !.tries = 1, !.one = 0]
Embedded(S) ==
    [n \in DOMAIN units |-> IF n \in S THEN [units[n] EXCEPT !.vec = Vec(units[n].text, ix.model)] ELSE units[n]]

EmbedBatch ==
    /\ ix.pc = "embed" /\ ix' = Onwards /\ units' = Embedded(ix.from..BatchEnd)
    /\ UNCHANGED <<known, col, book>>

\* The service is asked again and then for one text at a time; the local model
\* forgets the batches it has done and goes through all texts.
BatchFails ==
    /\ ix.pc = "embed" /\ UNCHANGED <<known, col, book>>
    /\ IF ix.local
       THEN Fault([ix EXCEPT !.pc = "single", !.one = 1])
            /\ units' = [n \in DOMAIN units |-> [units[n] EXCEPT !.vec = Failed]]
       ELSE Fault(IF ix.tries < Tries THEN [ix EXCEPT !.tries = @ + 1]
                  ELSE [ix EXCEPT !.pc = "single", !.one = ix.from])
            /\ UNCHANGED units

\* Mutant: the vector of a text of the batch goes to its place in the batch.
SingleToBatchPlace(ok) ==
    LET last == IF ix.local THEN Len(units) ELSE BatchEnd
        next == IF ix.one < last THEN [ix EXCEPT !.one = @ + 1] ELSE IF ix.local THEN [ix EXCEPT !.pc = "read"] ELSE Onwards
        place == IF ix.local THEN ix.one ELSE ix.one - ix.from + 1
    IN  /\ ix.pc = "single" /\ UNCHANGED <<known, col, book>>
        /\ IF ok THEN ix' = next /\ units' = [units EXCEPT ![place].vec = Vec(units[ix.one].text, ix.model)]
           ELSE Fault(next) /\ UNCHANGED units
Single(ok) ==
    LET last == IF ix.local THEN Len(units) ELSE BatchEnd
        next == IF ix.one < last THEN [ix EXCEPT !.one = @ + 1] ELSE IF ix.local THEN [ix EXCEPT !.pc = "read"] ELSE Onwards
    IN  /\ ix.pc = "single" /\ UNCHANGED <<known, col, book>>
        /\ IF ok THEN ix' = next /\ units' = Embedded({ix.one})
           ELSE Fault(next) /\ UNCHANGED units

-----------------------------------------------------------------------------
(* What the store holds is read in pages, and a page that fails ends the list   *)
(* as if nothing came after it; Chroma answers all or nothing.                  *)
Hashes(S) == [i \in Id |-> IF i \in S THEN col.points[i].text ELSE None]
Read ==
    /\ ix.pc = "read" /\ Goto("write") /\ known' = Hashes(Stored(col))
    /\ UNCHANGED <<units, col, book>>
ReadFails ==
    /\ ix.pc = "read" /\ Fault([ix EXCEPT !.pc = "write"])
    /\ \E S \in IF col.kind = "qdrant" THEN SUBSET Stored(col) ELSE {{}} : known' = Hashes(S)
    /\ UNCHANGED <<units, col, book>>

\* Mutant: only what the store does not know is written.
ToWriteNew == SelectSeq(units, LAMBDA u : known[u.id] = None)
ToWrite    == SelectSeq(units, LAMBDA u : known[u.id] # u.text)
\* Mutant: whatever this paper does not have is an orphan, of whichever paper.
OrphansOfAll == {i \in Id : known[i] # None /\ i \notin {units[n].id : n \in DOMAIN units}}
Orphans      == {i \in Mine : known[i] # None /\ i \notin {units[n].id : n \in DOMAIN units} /\ units # <<>>}

NothingToWrite ==
    /\ ix.pc = "write" /\ ToWrite = <<>> /\ Goto("export")
    /\ UNCHANGED <<units, known, col, book>>

\* Qdrant: what was not embedded gets zeros as long as the other vectors, and a
\* collection for vectors of another length is dropped with all that it holds.
HasVector == \E n \in DOMAIN ToWrite : ToWrite[n].vec # Failed
Written(c, us, dim) ==
    [c EXCEPT !.dim = dim,
              !.points = [i \in Id |->
                  IF \E n \in DOMAIN us : us[n].id = i
                  THEN LET u == us[CHOOSE n \in DOMAIN us : us[n].id = i]
                       IN  Point(u.text, IF u.vec = Failed THEN Zero(dim) ELSE u.vec)
                  ELSE c.points[i]]]
Remake ==
    /\ ix.pc = "write" /\ ToWrite # <<>> /\ col.kind = "qdrant" /\ HasVector /\ col.dim # ix.model
    /\ ix' = [ix EXCEPT !.remade = @ + 1]
    /\ col' = [col EXCEPT !.dim = ix.model, !.points = [i \in Id |-> NoPoint]]
    /\ UNCHANGED <<units, known, book>>
UpsertQdrant ==
    /\ ix.pc = "write" /\ ToWrite # <<>> /\ col.kind = "qdrant" /\ (HasVector => col.dim = ix.model)
    /\ Goto("delete")
    /\ col' = IF HasVector THEN Written(col, ToWrite, ix.model) ELSE col
    /\ UNCHANGED <<units, known, book>>

\* Chroma: zeros of the length it has, or of the default; it takes a list of one
\* length that is its own, else the chunks one by one, whichever fit.
Filled(u) == [u EXCEPT !.vec = IF @ # Failed THEN @ ELSE Zero(IF col.dim = 0 THEN Default ELSE col.dim)]
OneByOne(us) == FoldLeft(LAMBDA c, u : IF c.dim \in {0, u.vec[2]} THEN Written(c, <<u>>, u.vec[2]) ELSE c, col, us)
UpsertChroma ==
    /\ ix.pc = "write" /\ ToWrite # <<>> /\ col.kind = "chroma" /\ Goto("delete")
    /\ col' = OneByOne([n \in DOMAIN ToWrite |-> Filled(ToWrite[n])])
    /\ UNCHANGED <<units, known, book>>

UpsertFails ==
    /\ ix.pc = "write" /\ ToWrite # <<>> /\ (col.kind = "qdrant" => HasVector /\ col.dim = ix.model)
    /\ Fault([ix EXCEPT !.pc = "delete"])
    /\ UNCHANGED <<units, known, col, book>>

Delete ==
    /\ ix.pc = "delete" /\ Goto("export")
    /\ col' = [col EXCEPT !.points = [i \in Id |-> IF i \in Orphans THEN NoPoint ELSE @[i]]]
    /\ UNCHANGED <<units, known, book>>
\* The one backend says how many it deleted, the other one raises.
DeleteFails ==
    /\ ix.pc = "delete" /\ Orphans # {}
    /\ Fault([ix EXCEPT !.pc = IF col.kind = "chroma" THEN "export" ELSE "idle"])
    /\ UNCHANGED <<units, known, col, book>>

\* The manifest names every chunk once; a line cut off by the end of the process
\* and the one then written behind it are not read again.
Line(id, text, whole) == [id |-> id, text |-> text, whole |-> whole]
Torn == book # <<>> /\ ~book[Len(book)].whole
\* Mutant: the manifest is not read before it is written to.
NewLinesAnyway == units
NewLines == SelectSeq(units, LAMBDA u : ~\E n \in DOMAIN book : book[n].id = u.id)
Appended(us) ==
    IF us = <<>> THEN book
    ELSE [n \in 1..Len(us) |-> IF n = 1 /\ Torn THEN Line(None, None, TRUE) ELSE Line(us[n].id, us[n].text, TRUE)]
Export ==
    /\ ix.pc = "export" /\ Goto("idle")
    /\ book' = IF NewLines = <<>> THEN book
               ELSE (IF Torn THEN SubSeq(book, 1, Len(book) - 1) ELSE book) \o Appended(NewLines)
    /\ UNCHANGED <<units, known, col>>

Stop ==
    /\ ix.pc # "idle" /\ Fault([ix EXCEPT !.pc = "idle"])
    /\ \/ book' = book
       \/ /\ ix.pc = "export" /\ NewLines # <<>> /\ ~Torn
          /\ book' = Append(book, Line(None, None, FALSE))
    /\ UNCHANGED <<units, known, col>>

Next ==
    \/ \E c \in Contents, m \in Models : Begin(c, m)
    \/ EmbedBatch \/ BatchFails \/ \E ok \in BOOLEAN : Single(ok)
    \/ Read \/ ReadFails \/ NothingToWrite \/ Remake \/ UpsertQdrant \/ UpsertChroma \/ UpsertFails
    \/ Delete \/ DeleteFails \/ Export \/ Stop

-----------------------------------------------------------------------------
TypeOK ==
    /\ ix.pc \in {"idle", "embed", "single", "read", "write", "delete", "export"}
    /\ \A n \in DOMAIN units : units[n].id \in Mine
    /\ \A i \in Id : known[i] = None \/ i \in Mine \/ known[i] = "other"
    /\ col.kind \in {"qdrant", "chroma"} /\ ix.faults \in 0..MaxFaults

\* Through retries, single calls and failures in between, a stored chunk has the
\* vector of the very text that it shows, or zeros; all are as long as the
\* collection says (embedding_adapters.py 86-127, 282-317, vector_store.py 104-157, 360-421).
VectorOfText ==
    \A i \in Stored(col) :
        LET p == col.points[i] IN
        p.vec # Failed /\ p.vec[2] = col.dim /\ p.vec[1] \in {p.text, ""}

\* Indexing a paper leaves the chunks of other papers alone, unless vectors of
\* another length made the store drop its collection (dedup_manager.py 99-112).
OthersKept == \A i \in Others : (ix.remade = 0 /\ col.shared) =>
                  col.points[i] = Point("other", Vec("other", First))

\* A run in which nothing failed, with vectors that the collection takes, ends
\* with every chunk of the paper stored with its text (pipeline.py 180-333).
RunStores ==
    (ix.pc = "export" /\ ~ix.harmed /\ ix.remade = 0 /\ col.dim = ix.model) =>
        \A n \in DOMAIN units : col.points[units[n].id].text = units[n].text

\* However often a paper is indexed and wherever the process stopped, no chunk
\* stands twice in the manifest (pipeline.py 57-100).
ManifestOnce ==
    \A m, n \in DOMAIN book : (m # n /\ book[m].id # None) => book[m].id # book[n].id

BuildSound == TypeOK /\ VectorOfText /\ OthersKept /\ RunStores /\ ManifestOnce
=============================================================================
