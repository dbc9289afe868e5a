------------------------------ MODULE Writing -------------------------------
(***************************************************************************)
(* One writing document (agent/domains/creation.py) while a creation plan  *)
(* writes it (agent/plan.py) and the user edits it in the interface        *)
(* (web/api/routers/creation.py).  A chapter is written by three writes to *)
(* the disk - its text, doc.json, the assembled Markdown - that run in one *)
(* go: only the end of the process, or a disk that refuses, comes between  *)
(* them.  doc.json is replaced as a whole; the two others are truncated    *)
(* and then written, so that a part may be left of them.                   *)
(***************************************************************************)
EXTENDS Integers, Sequences, FiniteSets, SequencesExt

CONSTANTS Name,      \* the section ids a model or a user may give
          Id,        \* what is left of them
          Slug,      \* _safe_id: what does not fit in an id is dropped
          MaxPlan,   \* bound: chapters of the plan and of an outline
          MaxWrites  \* bound: texts written and outlines set

WritingAssumption ==
    /\ Slug \in [Name -> Id] /\ MaxPlan \in Nat \ {0} /\ MaxWrites \in Nat

VARIABLES
    plan,   \* the section each creator step is about
    doc,    \* doc.json: the outline and the status
    texts,  \* of each section the last write whose text is on the disk in full, or 0
    torn,   \* the sections whose file has only a part of a later text
    md,     \* the assembled Markdown: a section and its text at places of the outline
    cut,    \* the last change of the document was not completed
    mark,   \* the steps: "wait", "run", "done" or "failed"
    turn,   \* the turn that runs the plan lives
    writes  \* writes so far

wvars == <<plan, doc, texts, torn, md, cut, mark, turn, writes>>

Names   == UNION {[1..n -> Name] : n \in 1..MaxPlan}
Section == [id : Id, st : {"pending", "done"}]
Pending(names) == [i \in DOMAIN names |-> [id |-> Slug[names[i]], st |-> "pending"]]

\* _creation_plan and _ensure_writing_doc: a document of the plan's chapters.
Init ==
    /\ plan \in Names
    /\ doc = [outline |-> Pending(plan), st |-> "writing"]
    /\ texts = [s \in Id |-> 0] /\ torn = {} /\ md = <<>> /\ cut = FALSE
    /\ mark = [i \in DOMAIN plan |-> "wait"] /\ turn = TRUE /\ writes = 0

\* _rebuild_markdown: the sections of the outline that have a file, each at its
\* place in it; of a torn file it has what is there (0).
Assemble(outline, files, parts) ==
    [i \in {j \in DOMAIN outline : files[outline[j].id] # 0 \/ outline[j].id \in parts} |->
        [id |-> outline[i].id,
         text |-> IF outline[i].id \in parts THEN 0 ELSE files[outline[i].id]]]

\* A change of `all' writes of which `upTo' were completed: after fewer the process
\* ended, and with it the turn, or the tool answers the disk's error.
Stopped(upTo, all) ==
    /\ cut' = (upTo < all)
    /\ turn' \in (IF upTo < all THEN {turn, FALSE} ELSE {turn})

\* write_text: the Markdown is the new one, or still the old one, or emptied.
MarkdownWritten(whole, new) == md' \in (IF whole THEN {new} ELSE {md, <<>>})

-----------------------------------------------------------------------------
(* doc_write_section: refused outside the outline. *)

Marked(outline, s) ==
    [i \in DOMAIN outline |-> IF outline[i].id = s THEN [id |-> s, st |-> "done"] ELSE outline[i]]
AllDone(outline) == \A i \in DOMAIN outline : outline[i].st = "done"

\* The text: in full, or the file was opened and only a part is in it.
Text(s, upTo) == IF upTo = 0 THEN texts ELSE [texts EXCEPT ![s] = writes + 1]
Torn(s, upTo) == IF upTo = 0 THEN torn \cup {s} ELSE torn \ {s}

WriteSection(s, upTo) ==
    /\ writes < MaxWrites /\ writes' = writes + 1
    /\ \E i \in DOMAIN doc.outline : doc.outline[i].id = s
    /\ LET outline == Marked(doc.outline, s)
       IN  /\ texts' = Text(s, upTo) /\ torn' = Torn(s, upTo)
           /\ doc' = IF upTo < 2 THEN doc
                     ELSE [outline |-> outline,
                           st |-> IF AllDone(outline) THEN "done" ELSE doc.st]
           /\ IF upTo < 2 THEN md' = md
              ELSE MarkdownWritten(upTo = 3, Assemble(outline, texts', torn'))
    /\ Stopped(upTo, 3)
    /\ UNCHANGED plan

-----------------------------------------------------------------------------
(* The plan: each step waits for the one before. *)

StartCreator(i) ==
    /\ turn /\ mark[i] = "wait" /\ \A j \in 1..(i - 1) : mark[j] = "done"
    /\ mark' = [mark EXCEPT ![i] = "run"]
    /\ UNCHANGED <<plan, doc, texts, torn, md, cut, turn, writes>>

\* The creator's model writes its section, or another one of the document.
CreatorWrites(i, s, upTo) ==
    /\ turn /\ mark[i] = "run" /\ WriteSection(s, upTo) /\ mark' = mark

\* verify_section_written, whatever text the creator returned.
SectionWritten(s) == \E i \in DOMAIN doc.outline : doc.outline[i] = [id |-> s, st |-> "done"]
CreatorReturns(i) ==
    /\ turn /\ mark[i] = "run"
    /\ mark' = [mark EXCEPT ![i] = IF SectionWritten(Slug[plan[i]]) THEN "done" ELSE "failed"]
    /\ UNCHANGED <<plan, doc, texts, torn, md, cut, turn, writes>>

\* _verify_creation_domain: the verdict on the document, whatever the steps say.
Verdict == IF doc.outline # <<>> /\ AllDone(doc.outline) THEN "satisfied" ELSE "partial"

-----------------------------------------------------------------------------
(* The user: a text of any section of the outline, or another outline. *)

UserWrites(s, upTo) == WriteSection(s, upTo) /\ mark' = mark

\* doc_set_outline, doc.json and then the Markdown: every section is pending again,
\* and the texts stay; without a valid item the outline stays and the document is
\* still to be written.
SetOutline(names, upTo) ==
    /\ writes < MaxWrites /\ writes' = writes + 1
    /\ LET outline == IF names = <<>> THEN doc.outline ELSE Pending(names)
       IN  /\ doc' = [outline |-> outline, st |-> "writing"]
           /\ MarkdownWritten(upTo = 2, Assemble(outline, texts, torn))
    /\ Stopped(upTo, 2)
    /\ UNCHANGED <<plan, texts, torn, mark>>

-----------------------------------------------------------------------------
Next ==
    \/ \E i \in DOMAIN plan : StartCreator(i) \/ CreatorReturns(i)
    \/ \E i \in DOMAIN plan, s \in Id, upTo \in 0..3 : CreatorWrites(i, s, upTo)
    \/ \E s \in Id, upTo \in 0..3 : UserWrites(s, upTo)
    \/ \E names \in {<<>>} \cup Names, upTo \in 1..2 : SetOutline(names, upTo)

Spec == Init /\ [][Next]_wvars

TypeOK ==
    /\ plan \in Names /\ doc.outline \in Seq(Section) /\ doc.st \in {"writing", "done"}
    /\ texts \in [Id -> 0..MaxWrites] /\ \A i \in DOMAIN md : md[i] \in [id : Id, text : 0..MaxWrites]
    /\ torn \subseteq Id /\ cut \in BOOLEAN /\ turn \in BOOLEAN /\ writes \in 0..MaxWrites
    /\ mark \in [DOMAIN plan -> {"wait", "run", "done", "failed"}]

\* Wherever the process ended or the disk refused: a section is marked as done only
\* if a text of it was written in full, a document that is done has all its sections,
\* and a creator step was accepted only for a section with such a text (creation.py:
\* 320-330, plan.py:731).  The text may be gone: a later one of it that was cut off
\* has taken its place and leaves the mark (`torn').
DoneHasText ==
    /\ \A i \in DOMAIN doc.outline : doc.outline[i].st = "done" => texts[doc.outline[i].id] # 0
    /\ doc.st = "done" => Verdict = "satisfied"
    /\ \A i \in DOMAIN plan : mark[i] = "done" => texts[Slug[plan[i]]] # 0

\* The Markdown that is shown and exported is the outline's, with what the file of
\* each section holds, unless the last change of the document was not completed.
MarkdownCurrent == cut \/ md = Assemble(doc.outline, texts, torn)

-----------------------------------------------------------------------------
(* What the documents say and the code does not do. *)

\* plan.py:719-722: a chapter nobody wrote is not produced, and a step that did not
\* write fails: as many accepted steps as texts.
EachStepWrote ==
    \A i, j \in DOMAIN plan :
        mark[i] = "done" /\ mark[j] = "done" /\ plan[i] # plan[j] => Slug[plan[i]] # Slug[plan[j]]

\* creation.py:298 (docstring): the write is atomic.
WriteAtomic == torn = {} /\ md = Assemble(doc.outline, texts, torn)
=============================================================================
