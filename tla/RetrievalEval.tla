--------------------------- MODULE RetrievalEval ---------------------------
(***************************************************************************)
(* The choice of a search configuration (retrieval_orchestrator/): a grid  *)
(* of strategies answers the same queries, each writes what it found to a   *)
(* file named for it, the files are scored, and one strategy is chosen or   *)
(* none is.  Measures are kept as sums over the queries, in sixtieths, in   *)
(* place of means rounded to four places.  A pure function.                 *)
(***************************************************************************)
EXTENDS Integers, Sequences, FiniteSets, SequencesExt, FiniteSetsExt

CONSTANTS Studies,   \* inputs: [grid, found, truth, ks, want, best]
          Gate, Deep \* the code's 5 and 10: where the gate and the ranking look

VARIABLES study, outcome
evalVars == <<study, outcome>>

One == 60
EvalAssumption == Gate \in Nat \ {0} /\ Deep \in Nat \ {0} /\ Gate <= Deep

Strategy(method, top, rewrite, mode, weight, filter) ==
    [method |-> method, top |-> top, rewrite |-> rewrite, mode |-> mode, weight |-> weight, filter |-> filter]
\* Modes and weights are only of the hybrid method; a filter is [key, value].
Fusions(g, method) ==
    IF method = "hybrid"
    THEN FlattenSeq([i \in DOMAIN g.modes |-> [j \in DOMAIN g.weights |-> <<g.modes[i], g.weights[j]>>]])
    ELSE << <<"none", 0>> >>
Grid(g) ==
    LET filtered(m, k, w, f) == [j \in DOMAIN g.filters |-> Strategy(m, k, w, f[1], f[2], g.filters[j])]
        fused(m, k, w) == FlattenSeq([i \in DOMAIN Fusions(g, m) |-> filtered(m, k, w, Fusions(g, m)[i])])
    IN  FlattenSeq([a \in DOMAIN g.methods |-> FlattenSeq([b \in DOMAIN g.tops |->
            FlattenSeq([c \in DOMAIN g.rewrites |-> fused(g.methods[a], g.tops[b], g.rewrites[c])])])])

\* Mutant: the weight of a fusion is not in the name.
StrategyIdShort(s) == <<s.method, s.top, s.rewrite, s.mode, s.filter.key>>
\* The name of a strategy has the key of its filter and not the value.
StrategyId(s) == <<s.method, s.top, s.rewrite, s.mode, s.weight, s.filter.key>>

Top(s, rankings) == [q \in DOMAIN rankings |-> SubSeq(rankings[q], 1, s.top)]
\* A report is of the file, and the last strategy of its name wrote the file.
ReadBack(x, all) ==
    LET writer(i) == Max({j \in DOMAIN all : StrategyId(all[j]) = StrategyId(all[i])})
    IN  [i \in DOMAIN all |-> Top(all[writer(i)], x.found[writer(i)])]

UniqueHits(hits) == FoldLeft(LAMBDA kept, h : IF Contains(kept, h) THEN kept ELSE Append(kept, h), <<>>, hits)
\* The ranks among the first k at which there is a true passage.
Ranks(hits, truth, k) == {i \in DOMAIN UniqueHits(hits) : i <= k /\ UniqueHits(hits)[i] \in truth}
Gain(i)  == CASE i = 1 -> 60 [] i = 2 -> 38 [] i = 3 -> 30 [] OTHER -> 26 \* One / log2(i + 1)
DCG(ranks) == MapThenSumSet(Gain, ranks)

\* Mutant: the share of the first k passages in place of the true ones.
RecallOfShown(hits, truth, k) ==
    IF truth = {} THEN 0 ELSE (One * Cardinality(Ranks(hits, truth, k))) \div k
Recall(hits, truth, k) ==
    IF truth = {} THEN 0 ELSE (One * Cardinality(Ranks(hits, truth, k))) \div Cardinality(truth)
HitRate(hits, truth, k) == IF Ranks(hits, truth, k) = {} THEN 0 ELSE One
MRR(hits, truth) ==
    LET ranks == Ranks(hits, truth, Len(hits)) IN IF ranks = {} THEN 0 ELSE One \div Min(ranks)
NDCG(hits, truth, k) ==
    IF truth = {} THEN 0
    ELSE (One * DCG(Ranks(hits, truth, k))) \div DCG(1..Min({Cardinality(truth), k}))

\* The measures of one file; a measure at a depth nobody asked for is not there
\* and reads as 0.
Evaluate(x, files) ==
    LET at(k, m(_, _, _)) == IF k \notin x.ks THEN 0
                             ELSE MapThenSumSet(LAMBDA q : m(files[q], x.truth[q], k), DOMAIN x.truth)
    IN  [recall5 |-> at(Gate, Recall), recall10 |-> at(Deep, Recall), ndcg10 |-> at(Deep, NDCG),
         hit5 |-> at(Gate, HitRate), hit10 |-> at(Deep, HitRate),
         mrr |-> MapThenSumSet(LAMBDA q : MRR(files[q], x.truth[q]), DOMAIN x.truth)]

Metrics == {"recall5", "recall10", "mrr", "ndcg10"}
Queries(x) == Cardinality(DOMAIN x.truth)
\* Thresholds are in percent.
Meets(x, r)   == \A m \in DOMAIN x.want : 100 * r[m] >= x.want[m] * One * Queries(x)
GateMet(x, r) == 100 * r.recall5 >= 60 * One * Queries(x)
Regressed(x, r) == {m \in Metrics : x.best[m] > 0 /\ 100 * r[m] < 95 * x.best[m] * Queries(x)}

\* Mutant: of the strategies of one size, the worst ranking first.
RanksFirstWorst(s, r, t, u) == s.top < t.top \/ (s.top = t.top /\ (r.mrr < u.mrr \/ (r.mrr = u.mrr /\ r.recall10 >= u.recall10)))
\* Smaller lists first, then better ranks, then more found.
RanksFirst(s, r, t, u) ==
    \/ s.top < t.top
    \/ s.top = t.top /\ (r.mrr > u.mrr \/ (r.mrr = u.mrr /\ r.recall10 >= u.recall10))

\* Only the first of those that meet the thresholds is held to the gate.
SelectOptimal(x, all, reports) ==
    LET able == {i \in DOMAIN all : Meets(x, reports[i])}
        first == Min({i \in able : \A j \in able : RanksFirst(all[i], reports[i], all[j], reports[j])})
    IN  CASE able = {} -> [verdict |-> "none", chosen |-> 0, warned |-> {}]
          [] able # {} /\ ~GateMet(x, reports[first]) -> [verdict |-> "gate", chosen |-> 0, warned |-> {}]
          [] OTHER -> [verdict |-> "chosen", chosen |-> first, warned |-> Regressed(x, reports[first])]

Phase == [at |-> "grid", all |-> <<>>, files |-> <<>>, reports |-> <<>>, verdict |-> "open", chosen |-> 0, warned |-> {}]
Init == study \in Studies /\ outcome = Phase

RunExperiments ==
    /\ outcome.at = "grid"
    /\ outcome' = [outcome EXCEPT !.at = "found", !.all = Grid(study.grid), !.files = ReadBack(study, Grid(study.grid))]
    /\ UNCHANGED study

EvaluateAll ==
    /\ outcome.at = "found"
    /\ outcome' = [outcome EXCEPT !.at = "scored", !.reports = [i \in DOMAIN outcome.all |-> Evaluate(study, outcome.files[i])]]
    /\ UNCHANGED study

SelectBest ==
    /\ outcome.at = "scored"
    /\ outcome' = SelectOptimal(study, outcome.all, outcome.reports) @@ [outcome EXCEPT !.at = "done"]
    /\ UNCHANGED study

Next == RunExperiments \/ EvaluateAll \/ SelectBest
Spec == Init /\ [][Next]_evalVars

-----------------------------------------------------------------------------
Done == outcome.at = "done"

\* Every report is of what its own strategy found, unless two strategies differ
\* in no more than the value of a filter: the file of one is read for the other
\* (retrieval_engine.py:195, :266; cli.py:125).
OwnResults ==
    LET all == outcome.all
        butValue(s) == [s EXCEPT !.filter = s.filter.key]
    IN  Done /\ (\A i, j \in DOMAIN all : butValue(all[i]) = butValue(all[j]) => i = j)
        => \A i \in DOMAIN all : outcome.reports[i] = Evaluate(study, Top(all[i], study.found[i]))

\* The measures agree with each other: looking deeper loses nothing, a query
\* with anything found counts as a hit, a hit among the first k has a rank of at
\* most k, and the best order is credited only to those that found all there is
\* or filled the list (evaluator.py, the measures that all read the same hits).
MeasuresAgree ==
    Done => \A i \in DOMAIN outcome.reports :
        LET r == outcome.reports[i]
            n == Queries(study)
        IN  /\ {Gate, Deep} \subseteq study.ks => r.recall5 <= r.recall10 /\ r.hit5 <= r.hit10
            /\ r.recall5 <= r.hit5 /\ r.recall10 <= r.hit10
            /\ Gate * r.mrr >= r.hit5 /\ Deep * r.mrr >= r.hit10
            /\ r.ndcg10 = One * n =>
                   \A q \in DOMAIN study.truth :
                       Cardinality(study.truth[q]) <= Deep => r.recall10 = One * n

\* What is chosen meets every threshold and the gate, and no smaller list, and
\* no better rank in a list of its size, would have met the thresholds; none is
\* chosen although some meet them only when the first of them fails the gate; and
\* it is never chosen in silence when it is clearly worse than the best so far
\* (config_selector.py select_optimal, cli.py cmd_evaluate).
ChoiceJustified ==
    LET all == outcome.all
        able == {i \in DOMAIN all : Meets(study, outcome.reports[i])}
        c == outcome.chosen
    IN  Done =>
        /\ c # 0 => /\ c \in able /\ GateMet(study, outcome.reports[c])
                    /\ \A i \in able : /\ all[c].top <= all[i].top
                                       /\ all[i].top = all[c].top => outcome.reports[i].mrr <= outcome.reports[c].mrr
                    /\ \A m \in Metrics \ outcome.warned :
                           20 * outcome.reports[c][m] >= 19 * study.best[m] * Queries(study)
        /\ c = 0 => \/ able = {}
                    \/ \E i \in able : ~GateMet(study, outcome.reports[i])

EvalSound == OwnResults /\ MeasuresAgree /\ ChoiceJustified
=============================================================================
