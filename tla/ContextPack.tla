----------------------------- MODULE ContextPack ----------------------------
(***************************************************************************)
(* What a prompt tells of the conversation (agent/core/context_pack.py,     *)
(* memory.py, context.py): the window is divided into zones; evidence is    *)
(* taken from the results of tools, without copies and with a penalty for   *)
(* what resembles the evidence chosen before; the last messages are laid    *)
(* out, the newest first, until their room is used up; and the document,    *)
(* the project and the experiments the conversation is about are found in   *)
(* it.  Four pure functions, each from an input `given` to what is `made`.  *)
(***************************************************************************)
EXTENDS Integers, Sequences, FiniteSets, SequencesExt

CONSTANTS
    Zones,    \* inputs: [usable, invariant, task, summary, buffer, memories]: sizes
    Found,    \* [budget, messages]: results of tools, the newest first
    Threads,  \* [limit, lines]: messages with the size of their line
    Spoken,   \* [doc, events]: what calls and results name, the oldest first
    Projects, \* the project each experiment's record names
    Dots, Mark, \* sizes of "..." and of the line that says what is left out
    Recent    \* RECENT_CAP

PackAssumption == /\ {Dots, Mark, Recent} \subseteq Nat /\ Dots <= Mark
                  /\ \A z \in Zones : z.usable \in Nat /\ z.invariant \in Nat

VARIABLES job, given, made
packVars == <<job, given, made>>

Least(a, b) == IF a <= b THEN a ELSE b
AtLeast0(n) == IF n < 0 THEN 0 ELSE n
Sum(seq) == FoldLeft(LAMBDA n, m : n + m, 0, seq)

-----------------------------------------------------------------------------
(* The window: zone_budgets, build. *)
Share(z) == CASE z = "task" -> 15 [] z = "conversation" -> 25 [] z = "retrieved" -> 45
              [] z = "memory" -> 10 [] z = "reserve" -> 5
Flexible == {"task", "conversation", "retrieved", "memory", "reserve"}
SumOf(part) == FoldFunction(LAMBDA n, m : n + m, 0, part)
\* Mutant: what the invariant text takes beyond its nominal cap is not charged.
ZoneBudgetsCapped(g) ==
    LET first == Least(g.usable, Least(g.invariant, 1500))
        part  == [z \in Flexible |-> ((g.usable - first) * Share(z)) \div 100]
        spent == first + SumOf(part)
    IN  [part EXCEPT !["retrieved"] = @ + g.usable - spent]
ZoneBudgets(g) ==
    LET first == Least(g.usable, g.invariant)
        part  == [z \in Flexible |-> ((g.usable - first) * Share(z)) \div 100]
        spent == first + SumOf(part)
    IN  [part EXCEPT !["retrieved"] = @ + g.usable - spent]

\* Heading lines of the summary and of the recent messages are 8 and 5 tokens;
\* the summary needs 200 of its own, the messages 100.
Snapshot(g, budget) ==
    LET room  == Least(2400, budget - 200)
        told  == IF room > 0 /\ g.summary > 0 THEN Least(g.summary, room) ELSE 0
        left  == Least(4000, budget - (IF told > 0 THEN told + 30 ELSE 0) - 100)
    IN  IF budget = 0 THEN 0
        ELSE (IF told > 0 THEN told + 8 ELSE 0)
             + (IF g.buffer > 0 THEN AtLeast0(Least(g.buffer, left)) + 5 ELSE 0)
\* Whole pieces while they fit, in order; one that does not is skipped.
Fill(costs, budget) ==
    FoldLeft(LAMBDA used, c : IF used + c > budget THEN used ELSE used + c, 0, costs)
BuildZones(g) ==
    LET b == ZoneBudgets(g)
    IN  [budget |-> b,
         used   |-> [invariant |-> g.invariant, task |-> Least(g.task, b["task"]),
                     conversation |-> Snapshot(g, b["conversation"]),
                     memory |-> Fill(g.memories, b["memory"])]]

-----------------------------------------------------------------------------
(* Evidence: _retrieved_from_messages, _retrieved_zone.  Scores in sixtieths;   *)
(* a text is the set of its words, as long as they are many.                    *)
Evidence(ms) ==
    LET add(out, e) == IF \E i \in DOMAIN out : out[i].src = e.src THEN out ELSE Append(out, e)
        raw(out, r) == add(out, [src |-> <<"call", r>>, text |-> ms[r].text, score |-> 60 \div r])
        hits(out, r) ==
            LET all == FoldLeft(LAMBDA o, h : add(o, [h EXCEPT !.score = @ + 60 \div (r + 1)]),
                                out, ms[r].hits)
            IN  IF all = out THEN raw(out, r) ELSE all
    IN  FoldLeft(LAMBDA out, r : CASE ms[r].tool = "search_papers" -> hits(out, r)
                                   [] ms[r].tool = "fetch_content" -> raw(out, r)
                                   [] OTHER -> out,
                 <<>>, [r \in DOMAIN ms |-> r])
FirstOfText(es) == SelectSeq([i \in DOMAIN es |-> i],
                             LAMBDA i : \A j \in 1..i - 1 : es[j].text # es[i].text)
Alike(a, b) == (30 * Cardinality(a \cap b)) \div Cardinality(a \cup b)
Penalty(e, chosen) ==
    FoldLeft(LAMBDA m, c : IF Alike(e.text, c.text) > m THEN Alike(e.text, c.text) ELSE m, 0, chosen)
Value(e, chosen) == e.score - Penalty(e, chosen)
\* The first of the best of those that are left, by score.
BestOf(left, chosen) ==
    CHOOSE i \in DOMAIN left :
        /\ \A j \in DOMAIN left : Value(left[j], chosen) <= Value(left[i], chosen)
        /\ \A j \in 1..i - 1 : Value(left[j], chosen) < Value(left[i], chosen)
Diverse(cands) ==
    LET step(st, n) ==
            LET i == BestOf(st.left, st.chosen)
                e == st.left[i]
                in == st.chosen = <<>> \/ Value(e, st.chosen) > 0 \/ Len(st.chosen) < 3
            IN  [left |-> RemoveAt(st.left, i),
                 chosen |-> IF in THEN Append(st.chosen, e) ELSE st.chosen]
    IN  FoldLeft(step, [left |-> SortSeq(cands, LAMBDA a, b : a.score > b.score), chosen |-> <<>>],
                 cands).chosen
Placed(chosen, budget) ==
    FoldLeft(LAMBDA st, e : IF st.used + Cardinality(e.text) > budget THEN st
                            ELSE [used |-> st.used + Cardinality(e.text), kept |-> Append(st.kept, e)],
             [used |-> 0, kept |-> <<>>], chosen)
Those(es, places) == [n \in DOMAIN places |-> es[places[n]]]
Zone(es, chosen, budget) == [all |-> es, chosen |-> chosen, kept |-> Placed(chosen, budget).kept]
ZoneOf(es, budget) == Zone(es, Diverse(Those(es, FirstOfText(es))), budget)
RetrievedZone(g) == ZoneOf(Evidence(g.messages), g.budget)

-----------------------------------------------------------------------------
(* The last messages: _format_buffer.  A line is [type, size, dots]: whether    *)
(* its text ends with dots.                                                     *)
Joined(ls, i) ==
    \/ i > 1 /\ ls[i].type = "ai" /\ ls[i - 1].type = "human"
    \/ ls[i].type = "tool" /\ \E c \in 1..i - 1 :
          ls[c].type = "call" /\ \A k \in c + 1..i : ls[k].type = "tool"
UnitStarts(ls) == SelectSeq([i \in DOMAIN ls |-> i], LAMBDA i : ~Joined(ls, i))
UnitsOf(ls) == LET s == UnitStarts(ls)
               IN  [u \in DOMAIN s |-> [n \in 1..(IF u = Len(s) THEN Len(ls) ELSE s[u + 1] - 1) - s[u] + 1
                                          |-> s[u] + n - 1]]
\* Lines [at, size] of a unit within the limit; the first cut line is the last.
RenderUnit(ls, unit, limit) ==
    LET add(st, i) ==
            LET room == limit - st.used - (IF st.out = <<>> THEN 0 ELSE 1)
                size == IF ls[i].size <= room THEN ls[i].size ELSE IF room >= Dots THEN room ELSE 0
            IN  IF st.stop THEN st
                ELSE IF room <= 0 THEN [st EXCEPT !.stop = TRUE]
                ELSE [out  |-> Append(st.out, [at |-> i, size |-> size]),
                      used |-> st.used + size + (IF st.out = <<>> THEN 0 ELSE 1),
                      stop |-> (size < ls[i].size /\ room >= Dots) \/ (size = ls[i].size /\ ls[i].dots)]
    IN  FoldLeft(add, [out |-> <<>>, used |-> 0, stop |-> FALSE], unit)
Picked(ls, limit) ==
    LET pick(unit, st) ==
            LET r == RenderUnit(ls, unit, st.left)
                cost == r.used + (IF st.units = <<>> THEN 0 ELSE 1)
            IN  IF st.stop THEN st
                ELSE IF r.used = 0 \/ cost > st.left THEN [st EXCEPT !.omitted = TRUE, !.stop = TRUE]
                ELSE [st EXCEPT !.units = <<r.out>> \o @, !.left = @ - cost]
    IN  FoldRight(pick, UnitsOf(ls), [units |-> <<>>, left |-> limit, omitted |-> FALSE, stop |-> FALSE])
\* What is too long with the line about the omission is cut from the front.
SizeOf(out) == Sum([i \in DOMAIN out |-> out[i].size]) + Len(out) - 1
Cut(size, omitted, limit) ==
    CASE size + (IF omitted THEN Mark + 1 ELSE 0) <= limit -> 0
      [] limit <= Mark -> AtLeast0(size - limit)
      [] OTHER -> size - (limit - Mark - 1)
Laid(out, omitted, limit) == [lines |-> out, front |-> Cut(SizeOf(out), omitted, limit)]
LaidOut(p, limit) == IF p.units = <<>> THEN [lines |-> <<>>, front |-> 0]
                     ELSE Laid(FlattenSeq(p.units), p.omitted, limit)
FormatBuffer(g) == LaidOut(Picked(g.lines, g.limit), g.limit)

-----------------------------------------------------------------------------
(* What the conversation is about: context_node.  An event names a project, an  *)
(* experiment, a document or a study; the newest one decides.                   *)
Names(g, what) == SelectSeq([i \in DOMAIN g.events |-> g.events[Len(g.events) + 1 - i]],
                            LAMBDA e : e.what = what)
First(seq, else) == IF seq = <<>> THEN else ELSE seq[1].name
ActiveContext(g) ==
    LET exps == FoldLeft(LAMBDA out, e : IF Contains(out, e.name) THEN out ELSE Append(out, e.name),
                         <<>>, Names(g, "experiment"))
        top  == SubSeq(exps, 1, Least(Recent, Len(exps)))
        known == SelectSeq(top, LAMBDA e : Projects[e] # "none")
    IN  [doc |-> IF g.doc # "none" THEN g.doc ELSE First(Names(g, "document"), "none"),
         project |-> First(Names(g, "project"), IF known = <<>> THEN "none" ELSE Projects[known[1]]),
         topic |-> First(Names(g, "study"), "none"), experiments |-> top]

-----------------------------------------------------------------------------
Jobs == {"zones", "found", "buffer", "about"}
Inputs(j) == CASE j = "zones" -> Zones [] j = "found" -> Found [] j = "buffer" -> Threads
               [] j = "about" -> Spoken
PackInit == job \in Jobs /\ given \in Inputs(job) /\ made = <<>>
Build == /\ made = <<>>
         /\ made' = CASE job = "zones" -> BuildZones(given) [] job = "found" -> RetrievedZone(given)
                      [] job = "buffer" -> FormatBuffer(given) [] job = "about" -> ActiveContext(given)
         /\ UNCHANGED <<job, given>>
PackSpec == PackInit /\ [][Build]_packVars

-----------------------------------------------------------------------------
\* The zones share the window out to the last token and none overruns its own,
\* so that the prompt fits unless the invariant text alone does not; but for the
\* heading of a conversation that has no room at all (ContextManager.build).
WindowKept == job = "zones" /\ made # <<>> =>
    /\ SumOf(made.budget) + Least(given.usable, given.invariant) = given.usable
    /\ \A z \in DOMAIN made.used \ {"invariant"} :
          \/ made.used[z] <= made.budget[z]
          \/ z = "conversation" /\ made.budget[z] <= 4

\* The evidence in a prompt has no copies and fits; what is missing did not fit
\* or resembles what was chosen; the best one comes first (_retrieved_zone).
EvidenceSound == job = "found" /\ made # <<>> =>
    LET kept == made.kept   size == Sum([i \in DOMAIN kept |-> Cardinality(kept[i].text)])
    IN  /\ size <= given.budget
        /\ \A i, j \in DOMAIN kept : i # j => kept[i].text # kept[j].text /\ kept[i].src # kept[j].src
        /\ \A e \in {made.all[i] : i \in DOMAIN made.all} :
              \/ \E i \in DOMAIN kept : kept[i].text = e.text
              \/ size + Cardinality(e.text) > given.budget
              \/ \E i \in DOMAIN made.chosen : e.score <= Alike(e.text, made.chosen[i].text)
        /\ made.chosen # <<>> => \A e \in {made.all[i] : i \in DOMAIN made.all} :
              \/ e.score <= made.chosen[1].score
              \/ \E i \in DOMAIN made.all : made.all[i].text = e.text /\ made.all[i].score < e.score

\* The messages shown are the newest without a gap, in order, and whole but for
\* those of the oldest unit shown and for what the line about the omission
\* takes; a line that ends in dots ends its unit (_format_buffer).
UnitAt(ls, i) == CHOOSE u \in DOMAIN UnitsOf(ls) : Contains(UnitsOf(ls)[u], i)
NewestShown == job = "buffer" /\ made # <<>> /\ made.lines # <<>> =>
    LET ls == given.lines   shown == {made.lines[n].at : n \in DOMAIN made.lines}
        oldest == UnitAt(ls, made.lines[1].at)
    IN  /\ \A n \in 1..Len(made.lines) - 1 : made.lines[n].at < made.lines[n + 1].at
        /\ \A i \in DOMAIN ls : UnitAt(ls, i) > oldest =>
              \/ \E n \in DOMAIN made.lines : made.lines[n] = [at |-> i, size |-> ls[i].size]
              \/ \E k \in 1..i - 1 : UnitAt(ls, k) = UnitAt(ls, i) /\ ls[k].dots

\* Of the documents, projects and studies that were named the last is the one the
\* conversation is about (context_node).
Latest(what) == {i \in DOMAIN given.events : /\ given.events[i].what = what
                    /\ \A k \in i + 1..Len(given.events) : given.events[k].what # what}
AboutTheNewest == job = "about" /\ made # <<>> =>
    /\ \A i \in Latest("project") : made.project = given.events[i].name
    /\ \A i \in Latest("experiment") : made.experiments[1] = given.events[i].name
    /\ Latest("project") = {} /\ made.project # "none" =>
          \E n \in DOMAIN made.experiments : Projects[made.experiments[n]] = made.project
    /\ IsInjective(made.experiments) /\ Len(made.experiments) <= Recent

\* Observations, no run checks them: what is left out as a copy of a chosen text
\* may leave both out when the chosen one does not fit (context_pack.py:471,480);
\* the answer to a question that ends in dots is not shown (memory.py:521); the
\* start of the newest message is cut away by the line about the omission
\* (memory.py:562, against 536).
CopyOfShown == job = "found" /\ made # <<>> =>
    \A i \in DOMAIN made.chosen : \E j \in DOMAIN made.kept : made.kept[j] = made.chosen[i]
AnswerShown == job = "buffer" /\ made # <<>> =>
    \A n \in DOMAIN made.lines : given.lines[made.lines[n].at].type # "human"
       \/ made.lines[n].at = Len(given.lines) \/ n < Len(made.lines)
StartShown == job = "buffer" /\ made # <<>> => made.front = 0
=============================================================================
