------------------------------ MODULE Enrichment ------------------------------
(***************************************************************************)
(* The descriptions of a paper's formulas and pictures (pdf_pipeline/      *)
(* bindings.py, enhancer.py, enricher.py).  The parser's document gives    *)
(* elements numbered by type, and Markdown in which a formula that was not *)
(* decoded, and every picture, is a placeholder.  A model describes        *)
(* formulas in batches, with a second try one by one, and pictures in a    *)
(* pool of threads; what it says is validated, and put at the placeholder  *)
(* with the number of the element.                                         *)
(*                                                                         *)
(* A document is a sequence of formulas and pictures; a `decoded` formula  *)
(* leaves its text in the Markdown, every other item a placeholder.        *)
(***************************************************************************)
EXTENDS Integers, Sequences, FiniteSets, SequencesExt

CONSTANTS Papers,   \* documents
          BatchMax, \* formulas of a batch
          Workers   \* threads that describe pictures

EnrichAssumption == BatchMax \in Nat \ {0} /\ Workers \in Nat \ {0}

VARIABLES source,   \* the document
          stage,    \* "formulas", "pictures", "enrich" or "ready"
          from,     \* formulas before this one are done
          solo,     \* formulas of the batch that are asked for one by one
          work,     \* pictures whose description is being made
          left,     \* pictures no thread has taken
          desc,     \* desc[i]: whether item i has a description
          enhanced, \* the number the stages report
          places    \* places[i]: the item whose text replaced placeholder i, 0 if none

enrichVars == <<source, stage, from, solo, work, left, desc, enhanced, places>>

Items   == DOMAIN source
Kind(i)  == source[i].kind
IsElement(i) == Kind(i) \in {"formula", "picture"}
\* Elements are numbered by type, in the order of the document.
Number(i) == Cardinality({j \in 1..i : Kind(j) = Kind(i)})
Of(kind)  == SelectSeq([i \in Items |-> i], LAMBDA i : Kind(i) = kind)
\* The placeholders of the Markdown: a decoded formula has none.
Placeholders(kind) == SelectSeq(Of(kind), LAMBDA i : ~source[i].decoded)

Formulas == Of("formula")
EnrichInit ==
    /\ source \in Papers /\ stage = "formulas" /\ from = 1 /\ solo = {} /\ work = {}
    /\ left = {i \in Items : Kind(i) = "picture"} /\ desc = [i \in Items |-> FALSE]
    /\ enhanced = 0 /\ places = [i \in Items |-> 0]

Upto  == IF from + BatchMax - 1 < Len(Formulas) THEN from + BatchMax - 1 ELSE Len(Formulas)
Batch == {Formulas[n] : n \in from..Upto}

\* The answer to one item: accepted, vetoed by the validation, or an error.
Describe(items) == /\ desc' = [i \in Items |-> desc[i] \/ i \in items]
                   /\ enhanced' = enhanced + Cardinality(items)

\* A batch of more than one is one call; those it does not describe well, or all
\* of them when it fails, are asked for again one by one.
AskBatch ==
    /\ stage = "formulas" /\ solo = {} /\ from <= Len(Formulas)
    /\ IF Cardinality(Batch) = 1 THEN solo' = Batch /\ UNCHANGED <<desc, enhanced>>
       ELSE \E ok \in SUBSET Batch : solo' = Batch \ ok /\ Describe(ok)
    /\ from' = Upto + 1
    /\ UNCHANGED <<source, stage, work, left, places>>
AskSolo(i) ==
    /\ i \in solo /\ solo' = solo \ {i}
    /\ Describe({i}) \/ UNCHANGED <<desc, enhanced>>
    /\ UNCHANGED <<source, stage, from, work, left, places>>
FormulasDone ==
    /\ stage = "formulas" /\ solo = {} /\ from > Len(Formulas) /\ stage' = "pictures"
    /\ UNCHANGED <<source, from, solo, work, left, desc, enhanced, places>>

Take(i) ==
    /\ stage = "pictures" /\ i \in left /\ Cardinality(work) < Workers
    /\ work' = work \cup {i} /\ left' = left \ {i}
    /\ UNCHANGED <<source, stage, from, solo, desc, enhanced, places>>
\* A thread that raises counts for nothing and takes no other with it.
Describes(i) ==
    /\ i \in work /\ work' = work \ {i}
    /\ Describe({i}) \/ UNCHANGED <<desc, enhanced>>
    /\ UNCHANGED <<source, stage, from, solo, left, places>>
PicturesDone ==
    /\ stage = "pictures" /\ work = {} /\ left = {} /\ stage' = "enrich"
    /\ UNCHANGED <<source, from, solo, work, left, desc, enhanced, places>>

\* The description of element n goes to placeholder n of its type; a picture
\* without one leaves its caption there, if it has one.
Says(i) == desc[i] \/ (Kind(i) = "picture" /\ source[i].caption)
Places == [p \in Items |->
    LET at == {i \in Items : /\ IsElement(i) /\ Says(i)
                              /\ Number(i) <= Len(Placeholders(Kind(i)))
                              /\ Placeholders(Kind(i))[Number(i)] = p}
    IN  IF at = {} THEN 0 ELSE CHOOSE i \in at : TRUE]
Enrich ==
    /\ stage = "enrich" /\ stage' = "ready" /\ places' = Places
    /\ UNCHANGED <<source, from, solo, work, left, desc, enhanced>>

EnrichNext == AskBatch \/ (\E i \in Items : AskSolo(i)) \/ FormulasDone
              \/ (\E i \in Items : Take(i) \/ Describes(i)) \/ PicturesDone \/ Enrich
EnrichSpec == EnrichInit /\ [][EnrichNext]_enrichVars

-----------------------------------------------------------------------------
Plain == \A i \in Items : ~source[i].decoded

\* What is put at a placeholder is said of the element that stood there, if no
\* formula was decoded (inject_enhancements counts placeholders, bindings
\* elements), and nothing said is left out.
RightPlace == stage = "ready" /\ Plain =>
    \A i \in Items : places[i] = IF IsElement(i) /\ Says(i) THEN i ELSE 0

\* The count is that of the elements with an accepted description, whatever
\* failed or was asked twice (enhance_all), and at the end every element was
\* asked for.
CountsAgree ==
    /\ enhanced = Cardinality({i \in Items : desc[i]})
    /\ stage \in {"enrich", "ready"} => left = {} /\ work = {} /\ solo = {} /\ from > Len(Formulas)

\* Observation, not checked by a run: with a decoded formula the next
\* descriptions move up by one placeholder.
AlwaysRightPlace == stage = "ready" =>
    \A i \in Items : places[i] # 0 => places[i] = i
=============================================================================
