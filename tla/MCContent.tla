------------------------------ MODULE MCContent ------------------------------
(***************************************************************************)
(* Components around the tools, the papers, the answers and the page, that *)
(* share no state, checked by one run of TLC as in MCServices: the initial *)
(* state picks the component that runs, and the others rest.               *)
(***************************************************************************)
EXTENDS Workbench, TLC

VARIABLES which,
    paper, passages,
    source, stage, from, solo, work, left, desc, enhanced, places,
    doc, refs, calls, phase, rounds, asked, down, faults, todo, moved, passes, answer,
    clock, shutTill, ver, since, cache, getter, told, row, dir, pdf, loader,
    article, packed, outline, query, reply, around,
    pc, msgs, iter, failures, strikes, verdict,
    ix, units, known, col, book,
    conv, turn, stale, toldBack,
    talk, heard, way, origin, before

\* Papers whose first section is a paragraph and up to three items of every
\* kind and of sizes on both sides of each limit, with or without a second
\* section, of the same name or of another, and references, once or twice,
\* some of them without a number.
Item(kind, size) == [kind |-> kind, size |-> size]
Kinds == {Item("text", 2), Item("text", 3), Item("text", 7), Item("formula", 1), Item("table", 5),
          Item("bare", 1)}
Section(path, items) == [path |-> path, refs |-> FALSE, items |-> <<Item("text", 1)>> \o items]
Entries(items) == [path |-> "References", refs |-> TRUE, items |-> items]
Firsts  == UNION {[1..n -> Kinds] : n \in 0..2}
Seconds == {<<>>} \cup {<<Section(p, x)>> : p \in {"A", "B"}, x \in {<<>>} \cup [1..1 -> Kinds]}
Lasts   == {<<>>, <<Entries([n \in 1..4 |-> Item("entry", <<2, 3, 1, 7>>[n])])>>,
            <<Entries(<<Item("text", 2), Item("entry", 3), Item("text", 3), Item("entry", 1)>>)>>,
            <<Entries(<<Item("text", 2), Item("text", 1)>>)>>,
            <<Entries(<<Item("entry", 2)>>), Entries(<<Item("entry", 1)>>)>>}
Articles == {<<Section("A", x)>> \o y : x \in Firsts, y \in Seconds}
            \cup {<<Section("A", x)>> \o y \o z : x \in Firsts, y \in {<<>>, <<Section("B", <<>>)>>}, z \in Lasts}
            \cup {<<Section("A", <<Item("text", 3)>> \o x)>> \o y : x \in [1..2 -> Kinds], y \in Seconds}

\* Papers of up to four formulas, decoded or not, and pictures, with or without
\* a caption.
Element(kind, decoded, caption) == [kind |-> kind, decoded |-> decoded, caption |-> caption]
Figures == UNION {[1..n -> {Element("formula", FALSE, FALSE), Element("formula", TRUE, FALSE),
                            Element("picture", FALSE, TRUE), Element("picture", FALSE, FALSE)}]
                  : n \in 1..4}

\* Two subagents, one with two tools and one with one.
StepIds == {"p", "q", "x", "y", "z"}
Parents == [s \in StepIds |->
              CASE s \in {"x", "y"} -> "p" [] s = "z" -> "q" [] OTHER -> "none"]

\* A paper of a long and a wide section, which is cut when its page is shown.
Verbatims == {<<[len |-> 7, wide |-> FALSE], [len |-> 4, wide |-> TRUE]>>}

\* Three papers that a search finds, in an order that is not the catalog's.
Names == <<"a", "b", "c">>

\* A section of up to three paragraphs below, at and above the size of a chunk,
\* before another one; headings with and without numbers, with first letters
\* that read as one, whose text was merged into the chunk before or not.
Small    == [head |-> FALSE, abstract |-> FALSE, paras |-> <<1, 3>>]
TwoParts == {<<s, Small>> : s \in [head : BOOLEAN, abstract : BOOLEAN,
                                    paras : UNION {[1..n -> {1, 5, 9}] : n \in 0..3}]}
            \cup {<<Small>>, <<[Small EXCEPT !.head = TRUE, !.paras = <<1>>]>>}
AHeading(title, roman, looks, chunks, joined) ==
    [title |-> title, roman |-> roman, looks |-> looks, chunks |-> chunks, joined |-> joined]
Outlines ==
    {<<AHeading(1, 1, 1, a, FALSE), AHeading(2, 0, l, 1, j), AHeading(3, 2, 2, b, k), AHeading(4, 3 * l, 3 * l, 1, FALSE)>>
        : a, b \in 1..2, l \in {0, 1}, j, k \in BOOLEAN}
    \cup {<<AHeading(1, 0, 0, 1, FALSE), AHeading(2, 1, 1, 2, FALSE), AHeading(3, 1, 1, 1, FALSE)>>,
          <<AHeading(1, 1, 1, 1, FALSE), AHeading(2, 2, 2, 1, TRUE), AHeading(3, 3, 3, 1, FALSE)>>}

\* Windows in tokens on both sides of each zone's least and of its share.
UpTo(S, n) == UNION {[1..k -> S] : k \in 0..n}
Zones   == [usable : {0, 1200, 4000, 28672}, invariant : {0, 900, 1500, 5000}, task : {50, 6000},
            summary : {0, 300, 9000}, buffer : {0, 700, 20000}, memories : UpTo({40, 300}, 2)]
\* Results of searches with near and exact copies, and other tools' messages.
Hit      == [src : {<<"x">>, <<"y">>}, text : {{1}, {1, 2}, {2, 3}}, score : {0, 60}]
FourHits == {<<[src |-> <<"p">>, text |-> {1, 2, 3}, score |-> a], [src |-> <<"q">>, text |-> {1, 2}, score |-> b],
               [src |-> <<"r">>, text |-> {1, 3}, score |-> c], [src |-> <<"x">>, text |-> {3}, score |-> d]>>
             : a, b, c, d \in {-10, 0, 60}}
Search(hits)  == [tool |-> "search_papers", text |-> {1}, hits |-> hits]
SearchesOf(n)   == {Search(h) : h \in UpTo(Hit, n)}
OtherResults  == {[tool |-> "fetch_content", text |-> {2, 3}, hits |-> <<>>],
                  [tool |-> "list_papers", text |-> {1}, hits |-> <<>>]}
FoundInputs   == [budget : {1, 3, 7},
                  messages : {<<a, b>> : a \in SearchesOf(2) \cup OtherResults, b \in SearchesOf(1) \cup OtherResults}
                             \cup {<<Search(h), b>> : h \in FourHits, b \in OtherResults}]
Lines   == {[type |-> t, size |-> s, dots |-> FALSE] : t \in {"human", "ai", "call", "tool"}, s \in {3, 6}}
           \cup {[type |-> "human", size |-> 3, dots |-> TRUE]}
Buffers == [limit : {2, 5, 9, 14}, lines : UNION {[1..k -> Lines] : k \in 1..3}]
Mention == [what : {"project", "document", "study"}, name : {"a", "b"}] \cup [what : {"experiment"}, name : {"e", "f"}]
Spoken  == [doc : {"none", "d"}, events : UpTo(Mention, 3)]

\* Traces of up to three events, and longer ones with the contract of a task.
Event0 == [type |-> "", node |-> "", said |-> {}, where |-> {}, tool |-> "", bad |-> FALSE,
           word |-> FALSE, tokens |-> 0, ms |-> 0, text |-> "", mode |-> ""]
Event(type, node) == [Event0 EXCEPT !.type = type, !.node = node]
Call(tool, says, inside, wrong, word) ==
    [Event0 EXCEPT !.type = "tool_call", !.tool = tool, !.said = says, !.where = inside, !.bad = wrong, !.word = word]
Final(text, mode) == [Event0 EXCEPT !.type = "final_answer", !.text = text, !.mode = mode]
Verdict(text) == [Event0 EXCEPT !.type = "plan_verify", !.text = text]
CallsAndVerdicts ==
    {Call("a", {"outcome"}, {}, FALSE, FALSE), Call("a", {"outcome", "operation"}, {"operation"}, FALSE, FALSE),
     Call("b", {}, {}, FALSE, TRUE), Call("b", {}, {}, TRUE, FALSE), Verdict("satisfied"), Verdict("partial")}
Events == CallsAndVerdicts \cup
    {Event("node_start", "understand"), Event("node_start", "agent"),
     [Event("node_end", "understand") EXCEPT !.ms = 2], [Event("node_end", "agent") EXCEPT !.ms = 3],
     Event("turn_start", ""), Event("intent", ""), Event("turn_end", ""),
     [Event("llm_call", "") EXCEPT !.tokens = 5], [Event("llm_call", "synthesize") EXCEPT !.tokens = 7],
     Final("x", "plan"), Final("x", "react"), Final("", "react")}
Contract(required, forbidden, term, artifacts) ==
    [required |-> required, forbidden |-> forbidden, term |-> term, artifacts |-> artifacts, seconds |-> 5, calls |-> 1]
File(written) == [exists |-> TRUE, size |-> 2, least |-> 1, fresh |-> TRUE, written |-> written]
AnyTask == Contract({}, {}, "", {})
Tasks   == {Contract({"a"}, {"b"}, "x", {}), Contract({"b"}, {}, "y", {}), Contract({"a"}, {}, "", {File(0)}),
            Contract({}, {}, "", {File(-3)})}
Trace(events, error, seconds, contract) ==
    [events |-> events, error |-> error, seconds |-> seconds, contract |-> contract]
Traces ==
    {Trace(es, FALSE, 1, AnyTask) : es \in UNION {[1..n -> Events] : n \in 1..3}}
    \cup {Trace(es \o <<Final("x", m)>>, e, s, c)
             : es \in [1..2 -> CallsAndVerdicts], m \in {"plan", "react"}, e \in BOOLEAN, s \in {1, 9}, c \in Tasks}
    \cup {Trace(<<Event("node_start", "understand"), Event("node_start", "agent")>> \o es, FALSE, 1, AnyTask)
             : es \in [1..2 -> Events]}
\* Measurements of runs in percent, 101 for none.
Measured  == [recall : {0, 55, 80}, mrr : {101, 50, 52, 56}, other : {60, 90}]
Histories == UNION {[1..n -> Measured] : n \in 1..2}
             \cup [1..4 -> [recall : {80}, mrr : {50, 52, 54, 57}, other : {90}]]

\* Calls of any tool by anyone, and those of two tools whose adapter may do
\* whatever it likes; a refusal in an envelope has applied nothing.
Fields(extra) == [fields |-> {"a", "o"}, open |-> extra]
Declared(mcp, hint, destroys, again, net, extra) ==
    [mcp : mcp, hint : hint, destroys : destroys, again : again, open : net, needed : {{"a"}},
     top : {Fields(x) : x \in extra}, inner : {[fields |-> {"i"}, open |-> FALSE]}]
Does(kind, word, outcome, applied) == [kind |-> kind, word |-> word, outcome |-> outcome, applied |-> applied]
Adapters ==
    {Does("answer", "", o, TRUE) : o \in {"succeeded", "partial"}}
    \cup {Does(k, "", "", a) : k \in {"slow", "lost", "raises", "malformed", "shape"}, a \in BOOLEAN}
    \cup {Does("envelope", w, "", a) : w \in {"transient", "timeout", "backend_down", "not_found", "checkpoint",
                                              "tool_crash", "protocol_error", "other"}, a \in BOOLEAN}
    \cup {Does("envelope", w, "", FALSE) : w \in {"param_error", "policy", "authorization"}}
Given(top, inner) == [top |-> top, inner |-> inner]
Fine == Does("answer", "", "succeeded", TRUE)
ToolCalls ==
    [def : Declared(BOOLEAN, {"yes", "no", "none"}, BOOLEAN, {TRUE}, BOOLEAN, BOOLEAN),
     role : {"user", "worker", "observer", "none", "guest"}, gate : BOOLEAN, answer : {"yes", "no", "odd"},
     path : {"round", "step", "button", "alone"}, row : {"none"}, does : {<<Fine, Fine, Fine>>},
     args : {Given({"a"}, {}), Given({}, {}), Given({"a", "z"}, {}), Given({"a", "o"}, {"i", "j"})}]
    \cup [def : Declared({FALSE}, {"yes", "no"}, {FALSE}, BOOLEAN, {FALSE}, {FALSE}),
          role : {"user"}, gate : {TRUE}, answer : {"yes"}, path : {"step"}, args : {Given({"a"}, {})},
          row : {"none", "done", "failed", "unknown", "running", "broken"},
          does : {<<b, c, c>> : b, c \in Adapters}]

\* Searches with a whole, a stale and a foreign cache of the words' index, and
\* chunks that only one of the chunk file, the store and the cache knows.
Cache(there, version, digest, ids) == [there |-> there, version |-> version, digest |-> digest, ids |-> ids]
Caches  == {Cache(FALSE, FALSE, FALSE, {}), Cache(TRUE, TRUE, FALSE, {"a", "b", "z"}),
            Cache(TRUE, TRUE, TRUE, {"a", "b", "c", "d"}), Cache(TRUE, FALSE, TRUE, {"z"})}
Method(method, weighted, filter) == [method |-> method, weighted |-> weighted, filter |-> filter]
Methods == {Method("hybrid", FALSE, FALSE), Method("hybrid", TRUE, FALSE), Method("dense", FALSE, TRUE),
            Method("sparse", FALSE, FALSE), Method("hybrid", FALSE, TRUE)}
Wording(text, canonical, alternates) == [text |-> text, canonical |-> canonical, alternates |-> alternates]
Nears   == {<<"a", "c", "b">>, <<"c", "a", "b">>}
Matched == {<<"d", "b", "a">>, <<"b", "z", "a", "c">>}
SearchInputs ==
    [ready : {"ready"}, file : {{"a", "b", "c", "d"}}, cached : Caches, stored : {{"a", "b", "c"}, {"a", "c"}},
     config : Methods, passes : {{"a", "b"}}, up : BOOLEAN,
     query : {Wording("q", "q", <<>>), Wording("q", "r", <<"q">>), Wording("q", "r", <<"", "s">>)}, k : {0, 1},
     near : {n @@ ("s" :> <<"b", "c", "a">>) : n \in [{"q", "r"} -> Nears]},
     words : {w @@ ("s" :> <<>>) : w \in [{"q", "r"} -> Matched]}, hash : {<<"c", "d", "a", "b">>}]
    \cup [ready : {"ready", "noconfig"}, file : {{}}, cached : Caches, stored : {{"a", "b"}},
          config : {Method("hybrid", FALSE, FALSE)}, passes : {{}}, up : BOOLEAN, query : {Wording("", "", <<>>)},
          k : {3}, near : [{""} -> Nears], words : [{""} -> Matched], hash : {<<"a">>}]

\* Four chunks around one whose texts are built, narrow or wide, on both sides
\* of each limit, the last of them linked to one that is not there.
Chained(sizes, wide, where, body) ==
    [i \in DOMAIN sizes |-> [len |-> sizes[i], wide |-> i \in wide, body |-> body \/ i # where, prev |-> i - 1,
                            next |-> IF i = 3 THEN 9 ELSE i + 1]]
Chains == UNION {[chunks : {Chained(z, w, n, b) : z \in [1..4 -> {0, 700, 1800}],
                                                   w \in {{}, {1, 2}, {2, 3}, {1, 2, 3, 4}}, b \in BOOLEAN},
                  at : {n}, short : {512}, long : {1024, 2048}, window : {1, 2}, slack : {0, 190}, slip : {0, 190}]
                 : n \in {2, 4}}

\* Two versions of a paper: a text changes and a chunk goes.
Versions == {("a" :> "x") @@ ("b" :> "y") @@ ("c" :> "z"), ("a" :> "x") @@ ("b" :> "w")}

\* Turns of every entry and kind, with every text, plans of two steps that ended
\* in every way or not at all, and what a thread's next turn may be.
Says == {"good", "bad", "blocked", "empty", "fails"}
Of(e, g, k, sure, drift, p, r, o, d, draft, exps, v, q, j, x, texts, own, saved, end, far, safe, n) ==
    [entry : e, gate : g, kind : k, sure : sure, drift : drift, steps : p, results : r, ops : o, domain : d, doc : draft,
     exps : exps, verdict : v, verbatim : q, json : j, exceeded : x, texts : texts, own : own, saved : saved, end : end,
     far : far, safe : safe, tokens : n]
Simple(e, g, k, sure, drift, j, texts, own, saved, end, safe) ==
    Of(e, g, k, sure, drift, {<<>>}, {<<>>}, {<<>>}, {"paper"}, {"none"}, {"none"}, {"none"}, {FALSE}, j, {FALSE}, texts, own, saved,
       end, {FALSE}, safe, {0})
Planning(e, p, r, o, d, draft, exps, v, q, x, texts, end, far, safe) ==
    Of(e, {"ok"}, {"plan"}, {100}, {FALSE}, p, r, o, d, draft, exps, v, q, {FALSE}, x, texts, {"none"}, {FALSE}, end, far, safe, {11})
No == {FALSE}
Yes == {TRUE}
Pairs(A, B) == {<<a, b>> : a \in A, b \in B}
Gates == Simple({"run", "chat"}, {"input", "unsafe", "handoff"}, {"chat"}, {100}, No, No, {<<"good", "good">>}, {"none"}, No, {"ok"}, Yes)
Talks == Simple({"run", "chat"}, {"ok"}, {"chat", "task"}, {0, 60, 100}, No, BOOLEAN, Pairs(Says, Says), {"none"}, No, {"ok", "timeout", "raises"}, Yes)
Loops == Simple({"run", "chat", "resume"}, {"ok"}, {"react"}, {100}, BOOLEAN, BOOLEAN, Pairs(Says, {"good"}), Says \cup {"none"}, BOOLEAN,
                {"ok", "approval", "timeout", "raises"}, BOOLEAN)
AStep(id, wide) == [id |-> id, wide |-> wide]
AResult(id, outcome, out) == [id |-> id, outcome |-> outcome, out |-> out]
AnOp(id, own, size) == [id |-> id, shown |-> own, size |-> size]
Steps == {<<AStep("a", w), AStep("b", TRUE)>> : w \in BOOLEAN}
Got(id) == {AResult(id, o, x) : o \in {"succeeded", "partial", "failed", "skipped"}, x \in {"", "x"}} \cup {AResult(id, "succeeded", "y")}
Ended == {<<>>} \cup {<<r>> : r \in Got("a")} \cup {<<r, s>> : r \in Got("a"), s \in Got("b")}
PlansIn(entry, domain) ==
    Planning({entry}, Steps, Ended, {<<>>}, {domain}, {"none"}, {"none"}, {"none", "satisfied", "failed"}, BOOLEAN, No,
             {<<w, "bad">> : w \in Says} \cup {<<"bad", "empty">>}, {"ok"}, No, Yes)
Plans == PlansIn("run", "paper") \cup PlansIn("chat", "other")
Two == <<AStep("a", FALSE), AStep("b", TRUE)>>
Ops == {<<>>, <<AnOp("m", FALSE, 3), AnOp("n", TRUE, 3), AnOp("p", FALSE, 7), AnOp("q", FALSE, 3), AnOp("s", FALSE, 1)>>}
OtherTurns(r, x) == Planning({"run", "chat"}, {Two}, r, Ops, {"paper", "creation", "coding"}, {"none", "unread", "half", "done"}, {"none", "half", "done"},
                 {"none", "no_evidence"}, No, x, Pairs({"good", "empty"}, {"good"}), {"ok", "timeout"}, BOOLEAN, BOOLEAN)
Mixed == {<<AResult("a", "succeeded", "x"), AResult("b", o, "")>> : o \in {"failed", "succeeded"}}
TurnInputs == Gates \cup Talks \cup Loops \cup Plans \cup OtherTurns({<<>>}, BOOLEAN) \cup OtherTurns(Mixed, No)
Looping(entries, own, end) ==
    Simple(entries, {"ok"}, {"react"}, {100}, No, No, {<<"good", "good">>}, own, No, end, Yes)
LaterInputs ==
    Looping({"run", "resume"}, {"good", "bad"}, {"ok"}) \cup Looping({"resume"}, {"good"}, {"approval", "timeout"})
    \cup Simple({"chat"}, {"ok"}, {"chat"}, {100}, No, No, {<<"bad", "empty">>}, {"none"}, No, {"ok"}, Yes)
    \cup Planning({"chat"}, {Two}, Mixed, {<<>>}, {"paper"}, {"none"}, {"none"}, {"none"}, No, No, {<<"good", "good">>}, {"ok"}, No, Yes)

\* Messages that meet every check at the door; that name papers by their names,
\* by parts of them and by two names at once; and that the model labels in every
\* way, twice, with continuations of each.
Named(text, key) == [text |-> text, key |-> key]
NameA == Named("A", <<1, 2>>)
NameB == Named("B", <<2, 1, 2, 3>>)
NameC == Named("c", <<1, 2, 3>>)
Vague == Named("v", <<2>>)
Spelt == Named("a", <<1, 2>>)
Full  == Named("f", <<3, 2, 1, 2, 3>>)
Libs == {<<>>, <<NameA, NameB>>, <<NameB, NameC>>, <<NameC, NameB, NameA>>}
Lab(i, d, n, s, e, f) == [got : {"label"}, intent : i, domain : d, needs : n, sure : s, entities : e, focus : f]
NoLabel == {[got |-> "raises"], [got |-> "none"]}
Msg(c, g, b, r, o, k, w, v, x, mode, t, s, l) ==
  [chars : c, guard : g, breaks : b, remote : r, open : o, kind : k, words : w, verbs : v, wants : x, mode : mode, tries : t, sections : s, library : l]
GoodLabel == CHOOSE r \in Lab({"literature_search"}, {"paper"}, {FALSE}, {90}, {<<>>}, {<<NameA>>}) : TRUE
Doors == Msg({0, 1, 5}, BOOLEAN, SUBSET {"injection", "harm", "handoff"}, {"off", "clean", "nothing", "flagged", "list", "odd", "down", "torn"}, BOOLEAN,
   {"plain"}, {{}}, {{}}, {{}}, {"auto"}, {<<GoodLabel, GoodLabel>>}, {<<>>}, {<<NameA, NameB>>})
Through(k, w, v, x, mode, t, s, l) == Msg({1}, {TRUE}, {{}}, {"off"}, {FALSE}, k, w, v, x, mode, t, s, l)
Namings == {<<>>, <<Spelt>>, <<Vague, Spelt>>, <<Full, Vague>>, <<NameC, Spelt>>, <<Full, Full>>}
Asking == Through({"plain"}, {{}}, {{}}, {{}}, {"auto"}, {<<r, GoodLabel>> : r \in Lab({"literature_search"}, {"paper"}, BOOLEAN, {90}, Namings, Namings)}, {<<2, 1>>}, Libs)
OddLabel == Lab({""}, {"coding"}, {TRUE}, {40, 90}, {<<Vague>>}, {<<>>})
Labellings == Through({"plain", "goes on"}, {{}, {"coding"}, {"coding", "creation"}}, {{}, {"mutate"}}, {{"fast", "quality"}}, {"unset", "react"},
   {<<r, q>> : r \in NoLabel \cup OddLabel, q \in NoLabel \cup OddLabel}
   \cup {<<r, GoodLabel>> : r \in Lab({"general_chat", "needs_clarify", "task_query", "literature_search"}, {"coding", "odd"}, BOOLEAN, {40, 90}, {<<>>}, {<<Spelt>>})}, {<<>>}, {<<NameA, NameB>>})
Heard == Doors \cup Asking \cup Labellings
HeardNext == Through({"goes on"}, {{}}, {{"mutate"}}, {{"cost"}}, {"unset", "plan"}, {<<GoodLabel, GoodLabel>>}, {<<>>}, {<<NameC, NameB, NameA>>})
   \cup Through({"points back"}, {{"coding"}}, {{}}, {{}}, {"unset"}, {<<GoodLabel, GoodLabel>>}, {<<>>}, {<<NameA, NameB>>})
   \cup Through({"plain"}, {{}}, {{}}, {{}}, {"auto"}, {<<GoodLabel, GoodLabel>>}, {<<>>}, {<<NameA, NameB>>})
   \cup Msg({1}, {TRUE}, {{}}, {"down"}, {FALSE}, {"plain"}, {{}}, {{}}, {{}}, {"auto"}, {<<GoodLabel, GoodLabel>>}, {<<>>}, {<<>>})

\* Grids of up to four strategies that find one of two rankings for each of two
\* queries, with thresholds that few, many and all meet.
AFilter(key, value) == [key |-> key, value |-> value]
Plain == AFilter("none", 0)
Grids(methods, tops, modes, weights, filters) ==
    [methods |-> methods, tops |-> tops, rewrites |-> <<"none">>, modes |-> modes, weights |-> weights, filters |-> filters]
Rankings == {<<"a", "c", "b">>, <<"c", "b", "a">>}
Best(a, b, c, d) == [recall5 |-> a, recall10 |-> b, mrr |-> c, ndcg10 |-> d]
StudiesOf(g, n, depths, wants) ==
    [grid : {g}, found : [1..n -> [1..2 -> Rankings]], truth : {<<{"a"}, {"a", "b"}>>, <<{"b"}, {"c"}>>, <<{"a"}, {}>>},
     ks : depths, want : wants,
     best : {Best(0, 0, 0, 0), Best(60, 60, 60, 60)}]
Least == [recall10 |-> 50, mrr |-> 40]
Much  == [recall10 |-> 80, mrr |-> 55]
StudyInputs ==
    StudiesOf(Grids(<<"dense", "sparse">>, <<1, 3>>, <<"rrf">>, <<7>>, <<Plain>>), 4, {{2, 3}}, {Least, Much})
    \cup StudiesOf(Grids(<<"hybrid">>, <<2>>, <<"rrf", "weighted">>, <<5, 7>>, <<Plain>>), 4, {{2, 3}}, {Least})
    \cup StudiesOf(Grids(<<"dense">>, <<3>>, <<>>, <<>>, <<Plain, AFilter("type", 1), AFilter("type", 2)>>), 3, {{2, 3}, {3}}, {Much})

Rag     == INSTANCE RagChunks WITH Docs <- Articles, Chunk <- 4, Overlap <- 1, Small <- 2, Hard <- 6
Enrich  == INSTANCE Enrichment WITH Papers <- Figures, BatchMax <- 2, Workers <- 2
Read    == INSTANCE VerbatimRead WITH Papers <- Verbatims, Page <- 3, MaxPage <- 4, ArtPage <- 2,
             Spill <- 3, Limit <- 6, Over <- 1, Budget <- 2, MaxCalls <- 2, MaxPasses <- 4, MaxFaults <- 1
Client  == INSTANCE LibraryClient WITH Name <- Names, Hits <- {"a", "b", "c"}, Getters <- {1, 2},
             Loaders <- {1}, StemOf <- [d \in {1} |-> "a"], DownTtl <- 2, CacheTtl <- 2, Timeout <- 1,
             Cap <- 2, MaxClock <- 4, MaxChanges <- 1
Parts   == INSTANCE PaperSections WITH Papers <- TwoParts, Target <- 8, Scrap <- 1, Windows <- {1},
             paper <- article, answer <- reply
Prompt  == INSTANCE ContextPack WITH Found <- FoundInputs, Threads <- Buffers,
             Projects <- [e |-> "a", f |-> "none"], Dots <- 1, Mark <- 4, Recent <- 2, made <- result
Score   == INSTANCE TraceScore WITH Keep <- 2, Drop <- 5, None <- 101, made <- result
Loop    == INSTANCE SubagentLoop WITH MaxSteps <- 2, MaxReviews <- 1, at <- pc
Hybrid  == INSTANCE HybridSearch WITH Searches <- SearchInputs, Depth <- 2, Usual <- 3, search <- given,
             hits <- result
Big     == INSTANCE SmallToBig WITH Bundles <- Chains, bundle <- given, texts <- result
Indexed == INSTANCE IndexBuild WITH Mine <- {"a", "b", "c"}, Others <- {"o"}, Contents <- Versions,
             Models <- {1, 2}, Default <- 9, Batch <- 2, Tries <- 2, MaxRuns <- 2, MaxFaults <- 3
Report  == INSTANCE TurnReport WITH Turns <- TurnInputs, Later <- LaterInputs, MaxTurns <- 2, OpCap <- 6,
             Cap <- 8, reply <- toldBack
Entered == INSTANCE Intake WITH Messages <- Heard, Later <- HeardNext, MaxTurns <- 3, Limit <- 4, Mid <- 2,
             Long <- 4
Choice  == INSTANCE RetrievalEval WITH Studies <- StudyInputs, Gate <- 2, Deep <- 3, study <- given,
             outcome <- result

ASSUME Instances ==
    /\ Rag!RagAssumption /\ Enrich!EnrichAssumption
    /\ Read!ReadAssumption /\ Client!ClientAssumption /\ Parts!SectionsAssumption
    /\ Prompt!PackAssumption /\ Score!ScoreAssumption /\ Loop!LoopAssumption
    /\ Hybrid!SearchAssumption /\ Indexed!BuildAssumption
    /\ Report!ReportAssumption /\ Entered!IntakeAssumption /\ Choice!EvalAssumption

HostVars == <<cfg, bad, lock, built, cur, prev, made, index, sess, up, breaks, opened, agent, at,
    wrote, takes, holds, via, tries, ends>>
RagVars == <<paper, passages>>
EnrichVars == <<source, stage, from, solo, work, left, desc, enhanced, places>>
ThreadVars == <<order, active, shown, streaming, disk, loads, open, abort, dead, clicks, home, said,
    missed, whole, wiped>>
TreeVars == <<sent, steps>>
ReadVars == <<doc, refs, calls, phase, rounds, asked, down, faults, todo, moved, passes, answer>>
ClientVars == <<clock, shutTill, ver, since, cache, getter, told, row, dir, pdf, loader>>
PartVars == <<article, packed, outline, query, reply, around>>
PureVars == <<job, given, result>> \* of those that only compute
LoopVars == <<pc, msgs, iter, failures, strikes, verdict>>
BuildVars == <<ix, units, known, col, book>>
ReportVars == <<conv, turn, stale, toldBack>>
IntakeVars == <<talk, heard, way, origin, before>>

Chosen(name) == which = name
Rests(name, v) == Chosen(name) \/ UNCHANGED v

NoRows == [n \in {"a", "b", "c"} |-> "none"]

\* A component that does not run rests in an initial state.
Init ==
    /\ which \in {"host", "passages", "enrichment", "threads", "steps", "verbatim", "lists", "files",
                  "sections", "prompts", "scores", "subagent", "calls", "search", "assembly", "index",
                  "report", "intake", "choice"}
    /\ Talk!ThreadsInit /\ Talk!TreeInit
    /\ Host!HostInit /\ (Chosen("host") \/ takes = [k \in HostUser |-> "read"])
    /\ IF Chosen("passages") THEN Rag!RagInit ELSE paper = <<>> /\ passages = <<>>
    /\ IF Chosen("enrichment") THEN Enrich!EnrichInit
       ELSE /\ source = <<>> /\ stage = "ready" /\ from = 1 /\ solo = {} /\ work = {} /\ left = {}
            /\ desc = <<>> /\ enhanced = 0 /\ places = <<>>
    /\ Indexed!Init /\ (Chosen("index") \/ (col.kind = "qdrant" /\ ix.local))
    /\ Report!Init /\ Entered!Init /\ Loop!LoopInit /\ Read!ReadInit /\ (Chosen("verbatim") \/ refs = {1})
    /\ Client!NetInit
    /\ IF Chosen("files") THEN Client!DiskInit
       ELSE /\ loader = [d \in {1} |-> "idle"] /\ row = NoRows /\ dir = NoRows /\ pdf = NoRows
    /\ IF Chosen("sections")
       THEN Parts!SectionsInit /\ (article = <<Small>> \/ outline = CHOOSE o \in Outlines : TRUE)
       ELSE /\ article = <<>> /\ packed = <<>> /\ outline = <<>> /\ query = <<>> /\ reply = {} /\ around = {}
    /\ CASE Chosen("prompts") -> Prompt!PackInit
         [] Chosen("scores") -> Score!ScoreInit
         [] Chosen("calls") -> Called!VerdictInit
         [] Chosen("search") -> Hybrid!Init /\ job = "none"
         [] Chosen("assembly") -> Big!Init /\ job = "none"
         [] Chosen("choice") -> Choice!Init /\ job = "none"
         [] OTHER -> job = "none" /\ given = <<>> /\ result = <<>>

Next ==
    /\ UNCHANGED which
    /\ Rests("host", HostVars) /\ Rests("passages", RagVars) /\ Rests("enrichment", EnrichVars)
    /\ Rests("threads", ThreadVars) /\ Rests("steps", TreeVars)
    /\ Rests("verbatim", ReadVars) /\ Rests("sections", PartVars) /\ Rests("subagent", LoopVars)
    /\ (Chosen("lists") \/ Rests("files", ClientVars)) /\ Rests("index", BuildVars)
    /\ Rests("report", ReportVars) /\ Rests("intake", IntakeVars)
    /\ (which \in {"prompts", "calls", "search", "assembly", "choice"} \/ Rests("scores", PureVars))
    /\ \/ Chosen("host") /\ Host!HostNext
       \/ Chosen("passages") /\ Rag!Chunks
       \/ Chosen("enrichment") /\ Enrich!EnrichNext
       \/ Chosen("threads") /\ Talk!ThreadsNext
       \/ Chosen("steps") /\ Talk!TreeNext
       \/ Chosen("verbatim") /\ Read!ReadNext
       \/ Chosen("lists") /\ Client!NetNext
       \/ Chosen("files") /\ Client!DiskNext
       \/ Chosen("sections") /\ Parts!SectionsNext
       \/ Chosen("prompts") /\ Prompt!Build
       \/ Chosen("scores") /\ Score!Judge
       \/ Chosen("subagent") /\ Loop!LoopNext
       \/ Chosen("calls") /\ Called!Answer
       \/ Chosen("search") /\ Hybrid!Next /\ UNCHANGED job
       \/ Chosen("assembly") /\ Big!Next /\ UNCHANGED job
       \/ Chosen("choice") /\ Choice!Next /\ UNCHANGED job
       \/ Chosen("index") /\ Indexed!Next
       \/ Chosen("report") /\ Report!Next
       \/ Chosen("intake") /\ Entered!Next

vars == <<which, HostVars, RagVars, EnrichVars, ThreadVars, TreeVars, ReadVars,
          ClientVars, PartVars, PureVars, LoopVars, BuildVars, ReportVars, IntakeVars>>
Spec == Init /\ [][Next]_vars

-----------------------------------------------------------------------------
\* What becomes of a paper's text.  The passages hold each item of the body once
\* and in order, and what the last reference section says from its first number
\* on; a summary follows the chunk with its block, the links are mutual
\* (pdf_pipeline/rag_chunker.py, rag_chunk_markdown).  If no formula was decoded, a
\* description stands where its element stood (enhancer.py, enricher.py).  A
\* paragraph is in one chunk of its section, but for a scrap before the first
\* heading (pdf_pipeline/chunker.py); the reader finds a section whole, if names
\* and numbers are apart and no chunk joins two (web/api/routers/reader.py).  The
\* vector store holds each chunk with the vector of its own text or with zeros,
\* run after run, and leaves other papers alone unless the length of the vectors
\* changed (indexer/embedder.py, vector_store.py, dedup_manager.py).
PaperKept ==
    /\ Chosen("passages") => /\ Rag!TextKept /\ Rag!SummaryNear /\ Rag!LinksMutual
                             /\ Rag!FormulaSummed
    /\ Chosen("enrichment") => Enrich!RightPlace /\ Enrich!CountsAgree
    /\ Chosen("sections") => Parts!ParagraphsKept /\ Parts!SectionWhole
    /\ Chosen("index") => Indexed!BuildSound

=============================================================================
