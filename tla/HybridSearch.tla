---------------------------- MODULE HybridSearch ----------------------------
(***************************************************************************)
(* One search over the indexed papers: the service that the first request   *)
(* builds (web/api/routers/retrieval.py, retrieval/service.py from_config,  *)
(* the fitted sparse index and its cache in retrieval/sparse.py), the       *)
(* variants of the query (query_rewrite.py), the two retrievers and the     *)
(* fusion of their lists (service.py _search_once, fusion.py), the fusion   *)
(* of the variants' lists and the text put to what has none.  A pure        *)
(* function: the order of a retriever's answers, what a chunk's text        *)
(* matches and the order in which a set gives its elements are inputs.      *)
(***************************************************************************)
EXTENDS Integers, Sequences, FiniteSets, SequencesExt, FiniteSetsExt

CONSTANTS
    Searches, \* inputs: [ready, config, file, cached, stored, passes, up, query, k, near, words, hash]
    Depth,    \* results asked of a retriever for a fusion, at least
    Usual     \* results of a request that names no number

SearchAssumption == Depth \in Nat \ {0} /\ Usual \in Nat \ {0}

VARIABLES search, hits
searchVars == <<search, hits>>

Take(s, n) == SubSeq(s, 1, IF n < Len(s) THEN n ELSE Len(s))
AtLeast(n, least) == IF n < least THEN least ELSE n
Ids(list)  == {list[i].id : i \in DOMAIN list}
RankOf(list, id) == CHOOSE i \in DOMAIN list : list[i].id = id

-----------------------------------------------------------------------------
(* The sparse index: the cache when it is whole and of the same chunk file,     *)
(* else the chunks of the file; without the file there is none.                 *)
\* Mutant: a cache is used whatever file it was made of.
LoadsAny(c) == c.there /\ c.version
Loads(c)    == c.there /\ c.version /\ c.digest
Index(j) ==
    IF j.file = {} THEN {} ELSE IF Loads(j.cached) THEN j.cached.ids ELSE j.file

\* The variants of a query, each once; a query of nothing is searched as it is.
Variants(q) ==
    LET all == SelectSeq(<<q.text, q.canonical>> \o q.alternates, LAMBDA v : v # "")
        new == {i \in DOMAIN all : \A n \in 1..(i - 1) : all[n] # all[i]}
    IN  IF q.text = "" THEN <<"">> ELSE [n \in 1..Cardinality(new) |-> all[SetToSortSeq(new, <)[n]]]

\* Scores of a retriever fall with the rank; the text comes with a stored chunk.
Score(n) == 100 - 10 * n
Hits(ids, doc) == [n \in DOMAIN ids |-> [id |-> ids[n], doc |-> doc, score |-> Score(n)]]
Dense(j, v, n) ==
    LET found == SelectSeq(j.near[v], LAMBDA id : id \in j.stored /\ (j.config.filter => id \in j.passes))
    IN  IF j.up THEN Hits(Take(found, n), "stored") ELSE <<>>
Sparse(j, v, n) == Hits(Take(SelectSeq(j.words[v], LAMBDA id : id \in Index(j)), n), "")

-----------------------------------------------------------------------------
(* Fusion.  A chunk at rank n of a list (from 1) gets 1/(60 + n) of it.         *)
Share(n) == 100000000 \div (60 + n)

\* The chunks of some lists in the order in which the lists name them first.
Named(lists) ==
    LET all == FlattenSeq(lists)
        new == {i \in DOMAIN all : \A n \in 1..(i - 1) : all[n].id # all[i].id}
    IN  [n \in 1..Cardinality(new) |-> all[SetToSortSeq(new, <)[n]]]

\* Mutant: the last list that names a chunk is the one that counts.
SharesLast(lists, id) ==
    LET of == {l \in DOMAIN lists : id \in Ids(lists[l])} IN Share(RankOf(lists[Max(of)], id))
Shares(lists, id) ==
    MapThenSumSet(LAMBDA l : Share(RankOf(lists[l], id)), {l \in DOMAIN lists : id \in Ids(lists[l])})

\* A stable sort by falling weight.
Ranked(found, weight) ==
    LET ahead(a, b) == weight[a] > weight[b] \/ (weight[a] = weight[b] /\ a < b)
        place == [i \in DOMAIN found |-> Cardinality({o \in DOMAIN found : ahead(o, i)}) + 1]
    IN  [n \in DOMAIN found |-> found[CHOOSE i \in DOMAIN found : place[i] = n]]

ByRank(lists, k) ==
    LET found == Named(lists)
        mine  == [i \in DOMAIN found |-> Shares(lists, found[i].id)]
        whole == [i \in DOMAIN found |-> [found[i] EXCEPT !.score = mine[i]]]
    IN  Take(Ranked(whole, mine), k)

\* Scores between 0 and 1 in hundredths, and all the same in the middle.
Normal(list, id) ==
    IF id \notin Ids(list) THEN 0
    ELSE LET low == list[Len(list)].score
             top == list[1].score
         IN  IF low = top THEN 50 ELSE (100 * (list[RankOf(list, id)].score - low)) \div (top - low)

\* Weights 0.7 and 0.3; the ids come out of a set, and the score of the chunk's
\* own record hides the sum.
ByWeight(dense, sparse, order, k) ==
    LET found == Named(<<dense, sparse>>)
        both  == SelectSeq(order, LAMBDA id : id \in Ids(found))
        recs  == [n \in DOMAIN both |-> found[RankOf(found, both[n])]]
    IN  Take(Ranked(recs, [n \in DOMAIN recs |-> 7 * Normal(dense, recs[n].id) + 3 * Normal(sparse, recs[n].id)]), k)

\* Mutant: each retriever is asked for no more than the answer holds.
SearchOnceShallow(j, v, k) ==
    CASE j.config.method = "dense"  -> Dense(j, v, k)
      [] j.config.method = "sparse" -> Sparse(j, v, k)
      [] j.config.method = "hybrid" -> ByRank(<<Dense(j, v, k), Sparse(j, v, k)>>, k)
SearchOnce(j, v, k) ==
    LET n == AtLeast(k, Depth) IN
    CASE j.config.method = "dense"  -> Dense(j, v, k)
      [] j.config.method = "sparse" -> Sparse(j, v, k)
      [] j.config.method = "hybrid" ->
            IF j.config.weighted THEN ByWeight(Dense(j, v, n), Sparse(j, v, n), j.hash, k)
            ELSE ByRank(<<Dense(j, v, n), Sparse(j, v, n)>>, k)

Wanted(j) == IF j.k = 0 THEN Usual ELSE j.k
FuseVariants(lists, k) == IF Len(lists) = 1 THEN Take(lists[1], k) ELSE ByRank(lists, k)
Lists(j) ==
    LET vs == Variants(j.query)
        n  == IF Len(vs) > 1 THEN AtLeast(Wanted(j), Depth) ELSE Wanted(j)
    IN  [i \in DOMAIN vs |-> SearchOnce(j, vs[i], n)]

\* A hit without a text gets that of the chunk file.
\* Mutant: only a search without the vector store looks for texts.
AugmentSparse(j, h) ==
    IF h.doc = "" /\ h.id \in j.file /\ j.config.method = "sparse" THEN [h EXCEPT !.doc = "file"] ELSE h
Augment(j, h) == IF h.doc = "" /\ h.id \in j.file THEN [h EXCEPT !.doc = "file"] ELSE h

NoAnswer == [status |-> 0, list |-> <<>>]
Search(j) ==
    IF j.ready # "ready" THEN [status |-> 503, list |-> <<>>]
    ELSE LET fused == FuseVariants(Lists(j), Wanted(j))
         IN  [status |-> 200, list |-> [n \in DOMAIN fused |-> Augment(j, fused[n])]]

Init == search \in Searches /\ hits = NoAnswer
Next == hits = NoAnswer /\ hits' = Search(search) /\ UNCHANGED search

-----------------------------------------------------------------------------
TypeOK == search \in Searches /\ hits.status \in {0, 200, 503}

Shown == hits.list
\* The lists that the retrievers gave, before any fusion.
Base ==
    LET vs == Variants(search.query)
        n  == AtLeast(Wanted(search), Depth)
        m  == IF search.config.method = "hybrid" \/ Len(vs) > 1 THEN n ELSE Wanted(search)
    IN  {Dense(search, vs[i], m) : i \in IF search.config.method = "sparse" THEN {} ELSE DOMAIN vs}
        \cup {Sparse(search, vs[i], m) : i \in IF search.config.method = "dense" THEN {} ELSE DOMAIN vs}
Before(list, a, b) == a \in Ids(list) /\ (b \in Ids(list) => RankOf(list, a) < RankOf(list, b))

\* Two levels of fusion, cuts and ties never turn an order around on which all
\* lists agree: a chunk that stands before another one in every list that names
\* the other is shown whenever the other is, and before it (fusion.py 12-77,
\* query_rewrite.py 211-254, service.py 70-120).
AgreementKept ==
    \A b \in Ids(Shown) : \A a \in (UNION {Ids(l) : l \in Base}) \ {b} :
        (\A l \in {l \in Base : b \in Ids(l)} : Before(l, a, b)) => Before(Shown, a, b)

\* What both retrievers find, however deep in the lists they give, stands before
\* what one of them finds (the constant 60 against 50 results: fusion.py 12-40,
\* service.py 52, 102-117).
BothBeatOne ==
    LET vs   == Variants(search.query)
        n    == AtLeast(Wanted(search), Depth)
        near == Ids(Dense(search, vs[1], n))
        said == Ids(Sparse(search, vs[1], n))
    IN  (search.config.method = "hybrid" /\ ~search.config.weighted /\ Len(vs) = 1) =>
            \A b \in Ids(Shown) : (b \in near <=> b \notin said) => \A a \in near \cap said : Before(Shown, a, b)

\* An answer names no chunk twice, has no more than was asked for, and falls
\* short only when the retrievers together found no more.
AnswerFull ==
    hits.status = 200 =>
        /\ Cardinality(Ids(Shown)) = Len(Shown)
        /\ Len(Shown) = Min({Wanted(search), Cardinality(UNION {Ids(l) : l \in Base})})

\* What is shown comes with its text, also where only the words matched and an
\* old cache of the index lies about (service.py 88-97, sparse.py 84-110).
TextShown == \A n \in DOMAIN Shown : Shown[n].doc # ""

\* Without the embedder a hybrid search is the search by words, in its order
\* (service.py 31-35, fusion.py 23-40).
Degrades ==
    LET vs == Variants(search.query) IN
    (hits.status = 200 /\ search.config.method = "hybrid" /\ ~search.up /\ Len(vs) = 1) =>
        [n \in DOMAIN Shown |-> Shown[n].id] =
        [n \in DOMAIN Shown |-> Sparse(search, vs[1], AtLeast(Wanted(search), Depth))[n].id]

FoundSound == TypeOK /\ AgreementKept /\ BothBeatOne /\ AnswerFull /\ TextShown /\ Degrades
=============================================================================
