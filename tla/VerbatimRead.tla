---------------------------- MODULE VerbatimRead ----------------------------
(***************************************************************************)
(* A step that answers with the source text: the tool host cuts every       *)
(* answer to a page and spills a long one to an artifact (agent/            *)
(* dispatcher.py, tool_contract.py, core/artifact_store.py), the model asks *)
(* for pages, the executor reads the rest without it and puts the pages     *)
(* together (agent/plan.py _run_agent_step, _auto_complete_verbatim_reads,  *)
(* _assemble_verbatim_sections).  A text is a sequence of characters, each  *)
(* with the section, version and place it comes from; what is not of a      *)
(* section (headers, the JSON of an envelope) is the character Other.       *)
(***************************************************************************)
EXTENDS Integers, Sequences, FiniteSets

CONSTANTS
    Papers,     \* functions from 1..n to [len, wide]: the sections of a paper
    Page,       \* characters of a page that the caller does not bound
    MaxPage,    \* characters of a page at most
    ArtPage,    \* characters of a page of an artifact
    Spill,      \* width above which an answer becomes an artifact
    Limit,      \* width of a tool message for the model
    Over,       \* width of an envelope without its data
    Budget,     \* rounds of the model
    MaxCalls,   \* calls of the model, over all rounds
    MaxPasses,  \* passes of the executor over the sections it reads
    MaxFaults   \* calls that fail and sections that change

ReadAssumption ==
    /\ {Page, MaxPage, ArtPage, Spill, Limit, Over, Budget, MaxCalls, MaxPasses, MaxFaults} \subseteq Nat
    /\ 0 < ArtPage /\ 0 < Page /\ Page <= MaxPage /\ Over < Limit

VARIABLES
    doc,     \* the sections: [len, wide, ver]
    refs,    \* the sections the request names
    calls,   \* the tool messages of the step that succeeded
    phase,   \* "model", "missing", "pages", "done"
    rounds, asked, down, faults,
    todo,    \* sections still to visit in this part of the executor's reading
    moved,   \* whether this pass asked for a page
    passes,
    answer   \* what the step returns: <<>> is the model's own text

readVars == <<doc, refs, calls, phase, rounds, asked, down, faults, todo, moved, passes, answer>>

Section == DOMAIN doc
Other   == <<0, 0, 0, FALSE>>
NoPage  == -1
Least(a, b) == IF a <= b THEN a ELSE b

Text(s)  == [k \in 1..doc[s].len |-> <<s, doc[s].ver, k, doc[s].wide>>]
Width(t) == Len(t) + Len(SelectSeq(t, LAMBDA c : c[4]))
Cut(t, from, n) == SubSeq(t, from + 1, Least(Len(t), from + n))

\* What a tool message carries; an answer that was not cut has no continuation.
Envelope(t) == [data |-> t, next |-> NoPage, eof |-> FALSE, cont |-> FALSE]
IsSpilled(e) == Over + Width(e.data) > Spill
Stored(t)    == [k \in 1..Over |-> Other] \o t

Paged(e, offset, max) ==
    LET limit == IF max < 1 THEN 1 ELSE Least(max, MaxPage)
        start == Least(offset, Len(e.data))
        end   == Least(Len(e.data), start + limit)
        eof   == end = Len(e.data)
    IN  IF offset = 0 /\ Len(e.data) <= limit THEN e
        ELSE [data |-> Cut(e.data, start, limit), next |-> IF eof THEN NoPage ELSE end, eof |-> eof,
              cont |-> TRUE]

\* The longest prefix that fits; the offset counts from the start of the page.
Truncated(e) ==
    IF Over + Width(e.data) <= Limit THEN e
    ELSE LET shown == CHOOSE n \in 0..Len(e.data) :
                         /\ Over + Width(Cut(e.data, 0, n)) <= Limit
                         /\ n = Len(e.data) \/ Over + Width(Cut(e.data, 0, n + 1)) > Limit
         IN  [data |-> Cut(e.data, 0, shown), next |-> shown, eof |-> FALSE, cont |-> TRUE]

FetchContent(s, offset, max) == Paged(Envelope(Text(s)), offset, max)
\* The page of the artifact is an answer like any other: it is paged again.
ArtifactRead(stored, offset, max) ==
    LET n == IF max < 1 THEN 1 ELSE Least(max, ArtPage)
    IN  Paged(Envelope(<<Other>> \o Cut(stored, Least(offset, Len(stored)), n)), offset, max)

Call(s, offset, page, id) == [sec |-> s, offset |-> offset, page |-> page, id |-> id, art |-> FALSE]
\* The artifact a page names: the whole answer, or none.
Spilled(s) == IF IsSpilled(Envelope(Text(s))) THEN Stored(Text(s)) ELSE <<>>

\* The pages by section and offset, a later one in the place of an earlier.
Known == {calls[i].sec : i \in DOMAIN calls}
Offsets(s) == {calls[i].offset : i \in {j \in DOMAIN calls : calls[j].sec = s}}
PageAt(s, o) ==
    LET is == {i \in DOMAIN calls : calls[i].sec = s /\ calls[i].offset = o}
    IN  calls[CHOOSE i \in is : \A j \in is : j <= i].page
LastPage(s) == PageAt(s, CHOOSE o \in Offsets(s) : \A p \in Offsets(s) : p <= o)
FirstAt(s) == CHOOSE i \in DOMAIN calls : calls[i].sec = s /\ \A j \in 1..(i - 1) : calls[j].sec # s
Before(s, t) == FirstAt(s) < FirstAt(t)
Order == [n \in 1..Cardinality(Known) |-> CHOOSE s \in Known : Cardinality({t \in Known : Before(t, s)}) = n - 1]

\* The pages of a section in order while each starts where the last one ended,
\* up to one that ends it; NoText if there is a gap or no end.
NoText == <<Other>>
Joined(s) ==
    LET os == Offsets(s)
        nth == [n \in 1..Cardinality(os) |-> CHOOSE o \in os : Cardinality({p \in os : p < o}) = n - 1]
        ends(n) == LET p == PageAt(s, nth[n]) IN p.eof \/ ~p.cont
        text[n \in 0..Cardinality(os)] ==
            IF n = 0 THEN <<>>
            ELSE IF text[n - 1] = NoText \/ nth[n] # Len(text[n - 1]) THEN NoText
            ELSE text[n - 1] \o PageAt(s, nth[n]).data
        stops == {n \in DOMAIN nth : ends(n)}
    IN  IF stops = {} THEN NoText ELSE text[CHOOSE n \in stops : \A m \in stops : n <= m]

\* Mutant: the pages that are there are put together, with or without the end.
AssembledSoFar ==
    LET n == Cardinality(Known)
        all[k \in 0..n] == IF k = 0 THEN <<>> ELSE all[k - 1] \o LastPage(Order[k]).data
    IN  IF n < Cardinality(refs) \/ n = 0 THEN <<>> ELSE all[n]

Assembled ==
    LET n == Cardinality(Known)
        all[k \in 0..n] == IF k = 0 THEN <<>> ELSE all[k - 1] \o Joined(Order[k])
    IN  IF n < Cardinality(refs) \/ n = 0 \/ \E s \in Known : Joined(s) = NoText THEN <<>> ELSE all[n]

ReadInit ==
    /\ doc \in {[s \in DOMAIN p |-> [len |-> p[s].len, wide |-> p[s].wide, ver |-> 1]] : p \in Papers}
    /\ refs \in (SUBSET Section) \ {{}}
    /\ calls = <<>> /\ phase = "model" /\ rounds = 0 /\ asked = 0 /\ down = 0 /\ faults = 0
    /\ todo = {} /\ moved = FALSE /\ passes = 0 /\ answer = <<>>

Adds(c) == calls' = Append(calls, c)
Fault   == faults < MaxFaults /\ faults' = faults + 1 /\ UNCHANGED calls
Still   == UNCHANGED <<doc, refs, answer>>

\* The model asks for a page of a section, or of an artifact it was shown.
Fetch(s, offset, max) ==
    /\ phase = "model" /\ asked < MaxCalls /\ asked' = asked + 1
    /\ \/ /\ Adds(Call(s, offset, Truncated(FetchContent(s, offset, max)), Spilled(s)))
          /\ down' = 0 /\ UNCHANGED faults
       \/ Fault /\ down' = down + 1
    /\ Still /\ UNCHANGED <<phase, rounds, todo, moved, passes>>
ReadArtifact(i, offset) ==
    /\ phase = "model" /\ asked < MaxCalls /\ asked' = asked + 1
    /\ calls[i].id # <<>>
    /\ LET page == Truncated(ArtifactRead(calls[i].id, offset, ArtPage))
       IN  Adds([Call(calls[i].sec, offset, page, <<>>) EXCEPT !.art = TRUE])
    /\ down' = 0 /\ Still /\ UNCHANGED <<phase, rounds, faults, todo, moved, passes>>

\* The calls of a round have their answers: the executor reads what is missing.
EndRound ==
    /\ phase = "model" /\ asked > 0
    /\ rounds' = rounds + 1 /\ passes' = 0 /\ moved' = FALSE
    /\ IF Known = {} THEN phase' = "done" /\ todo' = {}
       ELSE phase' = "missing" /\ todo' = refs \ Known
    /\ Still /\ UNCHANGED <<calls, asked, down, faults>>
\* The model answers itself.
Answers == phase = "model" /\ phase' = "done" /\ Still
           /\ UNCHANGED <<calls, rounds, asked, down, faults, todo, moved, passes>>

Auto(s, offset) ==
    \/ Adds(Call(s, offset, FetchContent(s, offset, Page), Spilled(s))) /\ UNCHANGED faults
    \/ Fault
\* A section that the request names and no call asked for.
Prefetch(s) ==
    /\ phase = "missing" /\ s \in todo /\ todo' = todo \ {s} /\ Auto(s, 0)
    /\ Still /\ UNCHANGED <<phase, rounds, asked, down, moved, passes>>
StartPass ==
    /\ phase = "missing" /\ todo = {} /\ phase' = "pages" /\ todo' = Known
    /\ Still /\ UNCHANGED <<calls, rounds, asked, down, faults, moved, passes>>
NextPage(s) ==
    /\ phase = "pages" /\ s \in todo /\ todo' = todo \ {s}
    /\ IF LastPage(s).eof \/ LastPage(s).next = NoPage THEN UNCHANGED <<calls, faults, moved>>
       ELSE moved' = TRUE /\ Auto(s, LastPage(s).next)
    /\ Still /\ UNCHANGED <<phase, rounds, asked, down, passes>>
EndPass ==
    /\ phase = "pages" /\ todo = {} /\ passes' = passes + 1
    /\ IF moved /\ passes + 1 < MaxPasses
       THEN todo' = Known /\ moved' = FALSE /\ UNCHANGED <<phase, answer>>
       ELSE /\ answer' = Assembled /\ UNCHANGED <<todo, moved>>
            /\ phase' = IF Assembled # <<>> \/ down >= 2 \/ rounds = Budget THEN "done" ELSE "model"
    /\ UNCHANGED <<doc, refs, calls, rounds, asked, down, faults>>

\* The paper is parsed anew and the section differs.
Reparse(s) ==
    /\ phase # "done" /\ s \in Known /\ doc[s].ver = 1 /\ doc' = [doc EXCEPT ![s].ver = 2]
    /\ Fault /\ UNCHANGED <<refs, phase, rounds, asked, down, todo, moved, passes, answer>>

ReadNext ==
    \/ \E s \in Section, max \in {1, Page} :
          \E o \in {0} \cup {calls[i].page.next : i \in DOMAIN calls} : o # NoPage /\ Fetch(s, o, max)
    \/ \E i \in DOMAIN calls, o \in {0, ArtPage} \cup {calls[j].page.next : j \in DOMAIN calls} :
          o # NoPage /\ ReadArtifact(i, o)
    \/ \E s \in Section : Prefetch(s) \/ NextPage(s) \/ Reparse(s)
    \/ EndRound \/ Answers \/ StartPass \/ EndPass
ReadSpec == ReadInit /\ [][ReadNext]_readVars

-----------------------------------------------------------------------------
\* The answer is, for every section that was read, the whole text of it in
\* order and nothing else, or it is not there, if the sections did not change
\* and their pages were read with fetch_content (plan.py,
\* _assemble_verbatim_sections).
Exact == /\ \A k \in DOMAIN answer : answer[k] # Other
         /\ \A s \in Known : SelectSeq(answer, LAMBDA c : c[1] = s) = Text(s)
Unchanged   == \A s \in Section : doc[s].ver = 1
AnswerWhole == answer # <<>> /\ Unchanged /\ (\A i \in DOMAIN calls : ~calls[i].art) => Exact

\* If nothing failed and the model asked once, the executor's passes read every
\* section to its end.
ReadToEnd == phase = "done" /\ rounds > 0 /\ faults = 0 /\ asked = 1 => answer # <<>>

\* An answer that is given as the source text is the source text, however its
\* pages were read (plan.py, _assemble_verbatim_sections: "Return complete source
\* text directly when the request is verbatim").
VerbatimExact == answer # <<>> /\ Unchanged => Exact

\* Observations, no run checks them: the answer has every section the request
\* names (another one that was read may stand for one that failed), and a
\* section that changes between two pages is not mixed.
RequestedServed == answer # <<>> => refs \subseteq Known
NeverMixed == \A s \in Known :
    Cardinality({answer[k][2] : k \in {j \in DOMAIN answer : answer[j][1] = s}}) <= 1
=============================================================================
