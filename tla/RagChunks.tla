------------------------------ MODULE RagChunks ------------------------------
(***************************************************************************)
(* The passages of a paper (pdf_pipeline/rag_chunker.py): the enriched     *)
(* Markdown of one paper becomes the chunks that are embedded, searched    *)
(* and shown.  Tables, figure and formula descriptions are blocks that are *)
(* not cut; sections that are too long are split with an overlap; small    *)
(* chunks are merged into the one before; blocks get a summary chunk;      *)
(* references are split off, cut at their numbers and packed; body chunks  *)
(* of one section are linked.  Keywords, bindings and page numbers only    *)
(* annotate the chunks.                                                    *)
(*                                                                         *)
(* A document is a sequence of sections, a section a sequence of items: a  *)
(* paragraph, one that begins with a number in brackets ("entry"), or a    *)
(* block, with its size.  The size stands for characters and for tokens    *)
(* (the code converts one into the other by a constant).                   *)
(***************************************************************************)
EXTENDS Integers, Sequences, SequencesExt

CONSTANTS Docs,      \* the documents: sequences of [path, refs, items]
          Chunk,     \* chunk_tokens
          Overlap,   \* overlap_tokens
          Small,     \* min_chunk_tokens
          Hard       \* max_chunk_tokens

RagAssumption == /\ {Chunk, Overlap, Small, Hard} \subseteq Nat \ {0}
                 /\ Small < Chunk /\ Overlap < Chunk /\ Chunk < Hard

VARIABLES paper,     \* the document
          passages   \* its chunks, none before the chunker has run

ragVars == <<paper, passages>>

Total(Of(_), items) == FoldLeft(LAMBDA n, i : n + Of(i), 0, items)
Block(i)  == i.kind \notin {"text", "entry"}
\* A block is a placeholder of one unit while the text around it is split.
Width(i)  == IF Block(i) THEN 1 ELSE i.size
Size(i)   == i.size
Wide(p) == Total(Width, p)
Tokens(p) == Total(Size, p)

\* The items of a section, each with its place and whether it is a repetition.
Items(s) == [a \in DOMAIN paper[s].items |->
               [at |-> <<s, a, 1>>, kind |-> paper[s].items[a].kind,
                size |-> paper[s].items[a].size, copy |-> FALSE]]

\* The splitter of the library packs paragraphs up to Chunk and starts the next
\* piece with the longest tail of the last that fits the overlap; a paragraph
\* that is too long for a piece is one of its own.
TailOf(cur, next) ==
    LET fits(k) == LET w == Wide(SubSeq(cur, k, Len(cur)))
                   IN  w <= Overlap /\ (w + Width(next) <= Chunk \/ w = 0)
        from == CHOOSE k \in 1..Len(cur) + 1 : fits(k) /\ \A j \in 1..k - 1 : ~fits(j)
    IN  [n \in 1..Len(cur) - from + 1 |-> [cur[from + n - 1] EXCEPT !.copy = TRUE]]
\* Mutant: the last piece is forgotten.
FlushNot(st) == st.out
Flush(st) == IF st.cur = <<>> THEN st.out ELSE Append(st.out, st.cur)
Pack(st, i) ==
    IF Width(i) >= Chunk THEN [out |-> Append(Flush(st), <<i>>), cur |-> <<>>]
    ELSE IF st.cur # <<>> /\ Wide(st.cur) + Width(i) > Chunk
         THEN [out |-> Flush(st), cur |-> Append(TailOf(st.cur, i), i)]
         ELSE [st EXCEPT !.cur = Append(@, i)]
SubSplit(items) == IF Wide(items) <= Chunk THEN <<items>>
                   ELSE Flush(FoldLeft(Pack, [out |-> <<>>, cur |-> <<>>], items))

\* What is still over the hard limit is cut at sentences, or words.
Force(p) ==
    IF Wide(p) <= Hard THEN <<p>>
    ELSE LET parts == (p[1].size + Hard - 1) \div Hard
         IN  [n \in 1..parts |-> << [p[1] EXCEPT !.at[3] = n,
                 !.size = IF n < parts THEN Hard ELSE p[1].size - Hard * (parts - 1)] >>]

\* The pieces of the body, in order, each with its section.  Sections whose
\* path names references are taken out, and only the last of them is kept.
Forced(pieces) == FlattenSeq([n \in DOMAIN pieces |-> Force(pieces[n])])
Under(path, pieces) == [n \in DOMAIN pieces |-> [path |-> path, text |-> pieces[n]]]
Pieces == FlattenSeq([s \in DOMAIN paper |->
            IF paper[s].refs THEN <<>>
            ELSE Under(paper[s].path, Forced(SubSplit(Items(s))))])
RefText == LET secs == {s \in DOMAIN paper : paper[s].refs}
           IN  IF secs = {} THEN <<>> ELSE Items(CHOOSE s \in secs : \A t \in secs : t <= s)

\* Its entries begin at their numbers: what has none goes with the entry before,
\* and what stands before the first number with none.
Numbered(i) == i.kind = "entry"
RefEntries ==
    LET first == SelectSeq([k \in DOMAIN RefText |-> k], LAMBDA k : Numbered(RefText[k]))
    IN  [n \in DOMAIN first |->
           SubSeq(RefText, first[n], IF n = Len(first) THEN Len(RefText) ELSE first[n + 1] - 1)]

Detect(text) == IF Block(text[1]) THEN text[1].kind ELSE "body"

\* A body chunk repeats the end of the body chunk before it, of whatever section.
Lead(last) == << [last[Len(last)] EXCEPT !.copy = TRUE,
                    !.size = IF Tokens(last) < Overlap THEN Tokens(last) ELSE Overlap] >>

\* Every block of a piece gets a summary, but a table without rows of data.
Summaries(text, parent) ==
    LET blocks == SelectSeq(text, LAMBDA i : Block(i) /\ i.kind # "bare")
    IN  [n \in DOMAIN blocks |->
           [id |-> parent + n, type |-> "summary", path |-> "", tokens |-> 1, parent |-> parent,
            content |-> <<>>, of |-> blocks[n].at]]
AddPiece(acc, piece) ==
    LET type == Detect(piece.text)
        ch   == [id |-> acc.next, type |-> type, path |-> piece.path, tokens |-> Tokens(piece.text),
                 parent |-> 0, of |-> <<>>,
                 content |-> IF type = "body" /\ acc.last # <<>> THEN Lead(acc.last) \o piece.text
                             ELSE piece.text]
        sums == Summaries(piece.text, acc.next)
    IN  [chunks |-> Append(acc.chunks, ch) \o sums, next |-> acc.next + 1 + Len(sums),
         last   |-> IF type = "body" THEN piece.text ELSE acc.last]
Body == FoldLeft(AddPiece, [chunks |-> <<>>, next |-> 1, last |-> <<>>], Pieces)

\* References are packed, in order, up to Chunk.
RefPack(st, entry) ==
    IF st.cur # <<>> /\ Tokens(st.cur) + Tokens(entry) > Chunk
    THEN [out |-> Append(st.out, st.cur), cur |-> entry]
    ELSE [st EXCEPT !.cur = @ \o entry]
RefChunks(from) ==
    LET groups == Flush(FoldLeft(RefPack, [out |-> <<>>, cur |-> <<>>], RefEntries))
    IN  [n \in DOMAIN groups |->
           [id |-> from + n - 1, type |-> "reference", path |-> "References", of |-> <<>>,
            tokens |-> Tokens(groups[n]), parent |-> 0, content |-> groups[n]]]

\* A small chunk, of text or of a block, goes into the body chunk right before it.
Folds(prev, ch) == prev.type = "body" /\ ch.tokens < Small /\ ch.type \notin {"summary", "reference"}
Merge(out, ch) ==
    IF out # <<>> /\ Folds(out[Len(out)], ch)
    THEN [out EXCEPT ![Len(out)].content = @ \o ch.content,
                     ![Len(out)].tokens = Tokens(out[Len(out)].content \o ch.content)]
    ELSE Append(out, ch)
MergeSmall(chunks) == FoldLeft(Merge, <<>>, chunks)

\* Body chunks of one section path are neighbours, in their order.
Near(chunks, i, before) ==
    {j \in DOMAIN chunks : /\ chunks[i].type = "body" /\ chunks[j].type = "body"
                           /\ chunks[i].path = chunks[j].path /\ chunks[i].path # ""
                           /\ IF before THEN j < i ELSE j > i}
LinkNeighbors(chunks) ==
    [i \in DOMAIN chunks |->
       LET b == Near(chunks, i, TRUE)
           a == Near(chunks, i, FALSE)
       IN  [prev |-> IF b = {} THEN 0 ELSE chunks[CHOOSE j \in b : \A k \in b : k <= j].id,
            next |-> IF a = {} THEN 0 ELSE chunks[CHOOSE j \in a : \A k \in a : k >= j].id,
            ch   |-> chunks[i]]]

WithRefs(body) == body.chunks \o RefChunks(body.next)
RagChunkMarkdown == LinkNeighbors(MergeSmall(WithRefs(Body)))

RagInit == paper \in Docs /\ passages = <<>>
Chunks  == /\ passages = <<>>
           /\ passages' = RagChunkMarkdown /\ passages' # <<>>
           /\ UNCHANGED paper
RagSpec == RagInit /\ [][Chunks]_ragVars

-----------------------------------------------------------------------------
Texts == SelectSeq(passages, LAMBDA p : p.ch.type \notin {"summary", "reference"})
Refs  == SelectSeq(passages, LAMBDA p : p.ch.type = "reference")
Once(ps) == FlattenSeq([n \in DOMAIN ps |-> SelectSeq(ps[n].ch.content, LAMBDA i : ~i.copy)])
Before(i, j) == \/ i.at[1] < j.at[1]
                \/ i.at[1] = j.at[1] /\ i.at[2] < j.at[2]
                \/ i.at[1] = j.at[1] /\ i.at[2] = j.at[2] /\ i.at[3] < j.at[3]

\* Every item of the body is in the chunks once and whole, in the order of the
\* paper, whatever was split, protected, overlapped and merged; so is what the
\* last reference section says from its first number in brackets on, in chunks
\* that keep their limit or hold one entry (rag_chunk_markdown).  What stands
\* before that number, and a bibliography without numbers, is in no chunk
\* (_split_reference_entries).
TextKept == passages # <<>> =>
    LET kept == Once(Texts)
    IN  /\ \A n \in 1..Len(kept) - 1 : Before(kept[n], kept[n + 1])
        /\ \A s \in DOMAIN paper : ~paper[s].refs => \A a \in DOMAIN paper[s].items :
             Tokens(SelectSeq(kept, LAMBDA i : i.at[1] = s /\ i.at[2] = a)) = paper[s].items[a].size
        /\ \E k \in 1..Len(RefText) + 1 :
              /\ Once(Refs) = SubSeq(RefText, k, Len(RefText))
              /\ k <= Len(RefText) => Numbered(RefText[k])
              /\ \A j \in 1..k - 1 : ~Numbered(RefText[j])
        /\ \A n \in DOMAIN Refs : \/ Refs[n].ch.tokens <= Chunk
                                  \/ Len(SelectSeq(Refs[n].ch.content, Numbered)) = 1

\* The last chunk before a summary that is no summary holds the block it sums
\* up, even when the small block was folded into the text (_merge_small_chunks
\* after _create_textualization_chunks).
SummaryNear == \A n \in DOMAIN passages : passages[n].ch.type = "summary" =>
    \E m \in 1..n - 1 : /\ \A k \in m + 1..n - 1 : passages[k].ch.type = "summary"
                        /\ passages[m].ch.type # "summary"
                        /\ \E i \in DOMAIN passages[m].ch.content :
                             passages[m].ch.content[i].at = passages[n].ch.of

\* Ids grow, and the links are those of one list per section: the neighbour of
\* my neighbour is me (_link_neighbors runs after the merge).
LinksMutual == \A n, m \in DOMAIN passages :
    /\ n < m => passages[n].ch.id < passages[m].ch.id
    /\ (passages[n].next = passages[m].ch.id) <=> (passages[m].prev = passages[n].ch.id)
    /\ passages[n].next = passages[m].ch.id => n < m /\ passages[n].ch.path = passages[m].ch.path

\* A formula that stands alone has its summary (_quality_check).
FormulaSummed == \A n \in DOMAIN passages : passages[n].ch.type = "formula" =>
    \E m \in DOMAIN passages : /\ passages[m].ch.type = "summary"
                               /\ passages[m].ch.parent = passages[n].ch.id

\* Observation, not checked by a run: the parent of a summary may be gone.
ParentExists == \A n \in DOMAIN passages : passages[n].ch.type = "summary" =>
    \E m \in DOMAIN passages : passages[m].ch.id = passages[n].ch.parent
=============================================================================
