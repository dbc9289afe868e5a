---------------------------- MODULE PaperSections ---------------------------
(***************************************************************************)
(* The sections of a paper: how chunk_markdown packs their paragraphs       *)
(* (pdf_pipeline/chunker.py), and how the reader lists them, finds the one  *)
(* a name or a number asks for in a list of chunks that has lost the        *)
(* hierarchy, and walks from a chunk to its neighbours                      *)
(* (web/api/routers/reader.py).                                            *)
(***************************************************************************)
EXTENDS Integers, Sequences, FiniteSets, SequencesExt

CONSTANTS
    Papers,   \* sequences of [head, abstract, paras]: whether it stands before the
              \* first heading, and the sizes of its paragraphs
    Target,   \* size of a chunk; a quarter of it is the least
    Scrap,    \* up to this size, what stands before the first heading is left out
    Outlines, \* sequences of [roman, looks, title, chunks, joined]: the headings in
              \* order, their number (0: none), the number their first letters
              \* look like, the chunks below each, and whether the first of these
              \* was merged into the chunk before
    Windows   \* how many neighbours are asked for

SectionsAssumption == {Target, Scrap} \subseteq Nat /\ Windows \subseteq Nat

VARIABLES
    paper,   \* the paper, and what it is cut into
    packed,
    outline, \* the headings of a paper in the library
    query,   \* the section asked for, and the chunks of the answer
    answer,
    around   \* the chunks around one

sectionVars == <<paper, packed, outline, query, answer, around>>

-----------------------------------------------------------------------------
\* Paragraphs are [sec, n, size]; a chunk is cut before a paragraph that would
\* not fit, once it has the least size.
Size(paras) == FoldLeft(LAMBDA s, p : s + p.size, 0, paras)
\* Mutant: the open chunk is given up when a new one begins.
PackStepLosing(acc, p) ==
    IF acc.open # <<>> /\ Size(acc.open) + p.size > Target
    THEN [done |-> IF Size(acc.open) >= Target \div 4 THEN Append(acc.done, acc.open) ELSE acc.done,
          open |-> <<p>>]
    ELSE [acc EXCEPT !.open = Append(@, p)]
PackStep(acc, p) ==
    IF acc.open # <<>> /\ Size(acc.open) + p.size > Target /\ Size(acc.open) >= Target \div 4
    THEN [done |-> Append(acc.done, acc.open), open |-> <<p>>]
    ELSE [acc EXCEPT !.open = Append(@, p)]
ChunkParagraphs(paras) ==
    LET acc == FoldLeft(PackStep, [done |-> <<>>, open |-> <<>>], paras)
    IN  IF acc.open = <<>> THEN acc.done ELSE Append(acc.done, acc.open)
ParasOf(s) == [n \in DOMAIN paper[s].paras |-> [sec |-> s, n |-> n, size |-> paper[s].paras[n]]]
\* A short head is left out, where a heading follows; an abstract that is not too
\* long stays whole.
LeftOut(s) == paper[s].head /\ Len(paper) > 1 /\ Size(ParasOf(s)) <= Scrap
OfSection(s) ==
    IF ParasOf(s) = <<>> \/ LeftOut(s) THEN <<>>
    ELSE IF paper[s].abstract /\ Size(ParasOf(s)) <= Target THEN <<ParasOf(s)>>
    ELSE ChunkParagraphs(ParasOf(s))
ChunkMarkdown == FlattenSeq([s \in DOMAIN paper |-> OfSection(s)])

-----------------------------------------------------------------------------
\* The chunks of the library: the path is the heading of their first text.
Heading == DOMAIN outline
Units   == FlattenSeq([h \in Heading |-> [k \in 1..outline[h].chunks |-> [head |-> h, part |-> k]]])
Opens(u) == ~(u.part = 1 /\ outline[u.head].joined)
Chunks ==
    LET starts == SelectSeq([i \in DOMAIN Units |-> i], LAMBDA i : i = 1 \/ Opens(Units[i]))
        last(k) == IF k = Len(starts) THEN Len(Units) ELSE starts[k + 1] - 1
    IN  [k \in DOMAIN starts |->
           [path |-> Units[starts[k]].head,
            holds |-> {Units[i].head : i \in starts[k]..last(k)},
            heads |-> {Units[i].head : i \in {j \in starts[k]..last(k) : Units[j].part = 1}}]]
Title(h) == outline[h].title

\* Names in the order of their first chunk, with the number of their chunks.
ListSections ==
    [h \in {Chunks[k].path : k \in DOMAIN Chunks} |->
       Cardinality({k \in DOMAIN Chunks : Title(Chunks[k].path) = Title(h)})]

\* The numbered headings of the raw text in order.
RomanHeadings == SelectSeq([h \in Heading |-> h], LAMBDA h : outline[h].roman > 0)
Shows(k, h) == h \in Chunks[k].heads \/ Title(Chunks[k].path) = Title(h)
\* From the first chunk that shows the heading to the next one's.
ByPosition(n) ==
    LET found == {i \in DOMAIN RomanHeadings : outline[RomanHeadings[i]].roman = n}
    IN  IF found = {} THEN {}
        ELSE LET i == CHOOSE j \in found : \A m \in found : j <= m
                 from == {k \in DOMAIN Chunks : Shows(k, RomanHeadings[i])}
                 first == CHOOSE k \in from : \A m \in from : k <= m
                 stops == IF i = Len(RomanHeadings) THEN {}
                          ELSE {k \in DOMAIN Chunks : k > first /\ Shows(k, RomanHeadings[i + 1])}
             IN  IF from = {} THEN {}
                 ELSE {k \in DOMAIN Chunks : k >= first /\ \A m \in stops : k < m}
ByPath(t)  == {k \in DOMAIN Chunks : Title(Chunks[k].path) = t}
ByRoman(n) == {k \in DOMAIN Chunks : outline[Chunks[k].path].roman = n}

Ordinal(q) == IF q.by = "number" THEN q.n ELSE outline[q.n].looks
GetPaperSection(q) ==
    LET named == IF q.by = "name" THEN ByPath(Title(q.n)) ELSE {}
        n     == Ordinal(q)
        word  == IF named = {} /\ n > 0 THEN ByRoman(n) ELSE named
    IN  IF n > 0 /\ ByPosition(n) # {} THEN ByPosition(n) ELSE word

\* The neighbours of a chunk along the links of its paper, at most so many.
Context(k, window) == {j \in DOMAIN Chunks : k - window <= j /\ j <= k + window}

-----------------------------------------------------------------------------
SectionsInit == /\ paper \in Papers /\ outline \in Outlines /\ packed = <<>>
                /\ query = [by |-> "none", n |-> 0] /\ answer = {} /\ around = {}
Pack == /\ packed = <<>> /\ packed' = ChunkMarkdown /\ UNCHANGED <<paper, outline, query, answer, around>>
Ask(q) == /\ query.by = "none" /\ query' = q /\ answer' = GetPaperSection(q)
          /\ UNCHANGED <<paper, packed, outline, around>>
Step(w) == /\ around = {} /\ \E k \in DOMAIN Chunks : around' = Context(k, w)
           /\ UNCHANGED <<paper, packed, outline, query, answer>>
SectionsNext ==
    \/ Pack \/ \E w \in Windows : Step(w)
    \/ \E h \in Heading : Ask([by |-> "name", n |-> h])
    \/ \E n \in 1..3 : Ask([by |-> "number", n |-> n])
SectionsSpec == SectionsInit /\ [][SectionsNext]_sectionVars

-----------------------------------------------------------------------------
\* Every paragraph is in one chunk, in order and with its section's others, but
\* for a scrap before the first heading (chunker.py:220); and a chunk is larger
\* than the target only by one paragraph or by what was too small to stand alone
\* (chunker.py, _chunk_paragraphs).
ParagraphsKept == packed # <<>> =>
    /\ FlattenSeq(packed) =
         FlattenSeq([s \in DOMAIN paper |-> IF LeftOut(s) THEN <<>> ELSE ParasOf(s)])
    /\ \A c \in DOMAIN packed : \A i, j \in DOMAIN packed[c] : packed[c][i].sec = packed[c][j].sec
    /\ \A c \in DOMAIN packed :
          Size(packed[c]) > Target =>
             Size(SubSeq(packed[c], 1, Len(packed[c]) - 1)) <= Target

\* The section a number names, or a listed name, is read whole and alone when no
\* chunk holds the text of two: its own chunks and those of the sections below
\* it (reader.py, get_paper_section, _match_section_by_position).
Below(h) == {g \in Heading : g >= h /\ \A f \in (h + 1)..g : outline[f].roman = 0}
Asked(q) == IF q.by = "name" THEN IF outline[q.n].roman > 0 THEN Below(q.n) ELSE {q.n}
            ELSE LET hs == {h \in Heading : outline[h].roman = q.n}
                 IN  IF hs = {} THEN {} ELSE Below(CHOOSE h \in hs : \A g \in hs : h <= g)
Distinct == \A h, g \in Heading : h # g => /\ Title(h) # Title(g)
                                           /\ outline[h].roman = 0 \/ outline[h].roman # outline[g].roman
Plain    == \A h \in Heading : outline[h].looks = outline[h].roman
Apart    == \A h \in Heading : ~outline[h].joined
SectionWhole == query.by # "none" /\ Distinct /\ Plain /\ Apart =>
    answer = {k \in DOMAIN Chunks : Chunks[k].holds \cap Asked(query) # {}}
\* Observation, no run checks it: with a chunk that holds the end of a section
\* and the heading of the next, the text of either is missing in the answer, or
\* the answer goes on to the end of the paper.
JoinedWhole == query.by = "number" /\ Distinct /\ Plain =>
    {k \in DOMAIN Chunks : Chunks[k].holds \cap Asked(query) # {}} \subseteq answer
\* Observation, no run checks it: a name whose first letters read as a Roman
\* number ("Implementation", "Validation") is answered with that section.
NameGivesSection == query.by = "name" => ByPath(Title(query.n)) \subseteq answer
=============================================================================
