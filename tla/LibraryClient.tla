---------------------------- MODULE LibraryClient ---------------------------
(***************************************************************************)
(* The agent's view of the paper library: the HTTP client with its breaker  *)
(* (agent/library_api.py), the cached list of papers (agent/resolution.py   *)
(* fetch_papers), downloads from arXiv (agent/providers/builtin_provider.py)*)
(* and the local snapshot that check_paper decides on                      *)
(* (web/api/routers/reader.py list_local_papers, resolution.py              *)
(* match_local_state).  Time is counted in ticks.                           *)
(***************************************************************************)
EXTENDS Integers, Sequences, FiniteSets, SequencesExt

CONSTANTS
    Name,       \* names of papers and stems of files, in the order of a listing
    Hits,       \* the names that match the user's term
    Getters,    \* calls of fetch_papers
    Loaders,    \* calls of download_paper
    StemOf,     \* the stem each of them resolves to
    DownTtl, CacheTtl, Timeout,  \* of the breaker, of the cache, of a request
    Cap,        \* matches shown to the model
    MaxClock, MaxChanges

ClientAssumption ==
    /\ {DownTtl, CacheTtl, Timeout, Cap, MaxClock, MaxChanges} \subseteq Nat /\ Cap > 0
    /\ Hits \subseteq Range(Name) /\ StemOf \in [Loaders -> Range(Name)]

VARIABLES
    clock, shutTill,  \* the breaker refuses before this time
    ver, since,       \* the papers of the catalog: a version, and when each began
    cache,            \* the cached list: a version and its time; 0 if none
    getter,           \* what each call of fetch_papers is doing
    told,             \* the last answer of fetch_papers, and whether a fallback
    row,              \* rows of the catalog: "none", "known" or "indexed"
    dir,              \* directories of parsed papers: "none", "empty" or "full"
    pdf,              \* PDF files: "none" or the paper in it
    loader            \* what each call of download_paper is doing

netVars  == <<clock, shutTill, ver, since, cache, getter, told>>
diskVars == <<row, dir, pdf, loader>>

Paper  == Range(Name)
IsShut == shutTill > clock
Idle   == [pc |-> "idle", start |-> 0, val |-> 0]

NetInit ==
    /\ clock = 0 /\ shutTill = 0 /\ ver = 1 /\ since = <<0>>
    /\ cache = [val |-> 0, at |-> 0] /\ getter = [g \in Getters |-> Idle]
    /\ told = [val |-> 0, at |-> 0, fallback |-> FALSE]
DiskInit ==
    /\ loader = [d \in Loaders |-> "idle"]
    /\ row \in [Paper -> {"none", "known", "indexed"}] /\ dir \in [Paper -> {"none", "empty", "full"}]
    /\ pdf \in [Paper -> {"none", "own"}]

\* Time passes; a request ends before its timeout.
Tick == /\ clock < MaxClock /\ \A g \in Getters : getter[g].pc = "idle" \/ clock < getter[g].start + Timeout
        /\ clock' = clock + 1
        /\ UNCHANGED <<shutTill, ver, since, cache, getter, told, diskVars>>
Change == /\ ver <= MaxChanges /\ ver' = ver + 1 /\ since' = Append(since, clock)
          /\ UNCHANGED <<clock, shutTill, cache, getter, told, diskVars>>

MarkDown == shutTill' = clock + DownTtl
Tells(val, fallback) == told' = [val |-> val, at |-> clock, fallback |-> fallback]

\* A call of fetch_papers: the cache, the breaker, then the catalog.
Get(g) ==
    /\ getter[g].pc = "idle"
    /\ IF cache.val > 0 /\ clock - cache.at < CacheTtl THEN Tells(cache.val, FALSE) /\ UNCHANGED getter
       ELSE IF IsShut THEN Tells(cache.val, TRUE) /\ UNCHANGED getter
       ELSE getter' = [getter EXCEPT ![g] = [pc |-> "sent", start |-> clock, val |-> 0]] /\ UNCHANGED told
    /\ UNCHANGED <<clock, shutTill, ver, since, cache, diskVars>>
Serve(g) ==
    /\ getter[g].pc = "sent" /\ getter' = [getter EXCEPT ![g].pc = "read", ![g].val = ver]
    /\ UNCHANGED <<clock, shutTill, ver, since, cache, told, diskVars>>
\* Mutant: the entry is dated when the answer is there.
CachedLate(g) == cache' = [val |-> getter[g].val, at |-> clock]
Cached(g) == cache' = [val |-> getter[g].val, at |-> getter[g].start]
Got(g) ==
    /\ getter[g].pc = "read" /\ Cached(g) /\ Tells(getter[g].val, FALSE)
    /\ getter' = [getter EXCEPT ![g] = Idle]
    /\ UNCHANGED <<clock, shutTill, ver, since, diskVars>>
GetFails(g) ==
    /\ getter[g].pc # "idle" /\ MarkDown /\ Tells(cache.val, TRUE)
    /\ getter' = [getter EXCEPT ![g] = Idle]
    /\ UNCHANGED <<clock, ver, since, cache, diskVars>>
\* Any other call of the library: refused, answered, or not reachable.  The list
\* of papers or sections that goes with an error shuts the breaker on any error.
LibraryCall ==
    /\ ~IsShut /\ MarkDown
    /\ UNCHANGED <<clock, ver, since, cache, getter, told, diskVars>>

Loading(d, from, to) == loader[d] = from /\ loader' = [loader EXCEPT ![d] = to]
\* The title is asked for first; without one nothing is downloaded.
Verify(d)   == (Loading(d, "idle", "verified") \/ Loading(d, "idle", "over")) /\ UNCHANGED <<netVars, row, dir, pdf>>
\* A file of that name is taken for the paper's.
Find(d)     == /\ Loading(d, "verified", IF pdf[StemOf[d]] = "none" THEN "get" ELSE "over")
               /\ UNCHANGED <<netVars, row, dir, pdf>>
Download(d) == /\ \/ Loading(d, "get", "over") /\ UNCHANGED pdf
                  \/ Loading(d, "get", "over") /\ pdf' = [pdf EXCEPT ![StemOf[d]] = "own"]
               /\ UNCHANGED <<netVars, row, dir>>

-----------------------------------------------------------------------------
\* The local snapshot: rows of the catalog, then directories, then files, each
\* name once.
Diagnosis(n) == CASE row[n] = "indexed" -> "indexed"
                  [] dir[n] = "full"    -> "parsed"
                  [] pdf[n] # "none"    -> "raw"
                  [] OTHER              -> "none"
Entry(n, state, detail) == [name |-> n, state |-> state, detail |-> detail, pdf |-> pdf[n] # "none"]
Snapshot ==
    LET rows  == SelectSeq(Name, LAMBDA n : row[n] # "none")
        dirs  == SelectSeq(Name, LAMBDA n : row[n] = "none" /\ dir[n] # "none")
        files == SelectSeq(Name, LAMBDA n : row[n] = "none" /\ dir[n] = "none" /\ pdf[n] # "none")
    IN  [i \in DOMAIN rows |-> Entry(rows[i], IF row[rows[i]] = "indexed" THEN "indexed" ELSE "not_indexed",
                                     Diagnosis(rows[i]))]
        \o [i \in DOMAIN dirs |-> Entry(dirs[i], "not_indexed", "parsed")]
        \o [i \in DOMAIN files |-> Entry(files[i], "not_indexed", "raw")]

LocalRank(p) == CASE p.state = "indexed" -> 3 [] p.detail = "parsed" -> 2 [] p.detail = "raw" -> 1 [] OTHER -> 0
\* Mutant: the first matches are shown, the best of them first.
MatchesUnsorted == LET all == SelectSeq(Snapshot, LAMBDA p : p.name \in Hits)
                   IN  SubSeq(all, 1, IF Len(all) < Cap THEN Len(all) ELSE Cap)
Matches ==
    LET all == SelectSeq(Snapshot, LAMBDA p : p.name \in Hits)
        better(i, j) == LocalRank(all[i]) > LocalRank(all[j]) \/ (LocalRank(all[i]) = LocalRank(all[j]) /\ i < j)
        place(i) == Cardinality({j \in DOMAIN all : better(j, i)}) + 1
    IN  [k \in 1..(IF Len(all) < Cap THEN Len(all) ELSE Cap) |-> all[CHOOSE i \in DOMAIN all : place(i) = k]]
CheckPaper ==
    LET found == Matches
    IN  IF \E i \in DOMAIN found : found[i].state = "indexed" THEN "indexed"
        ELSE IF \E i \in DOMAIN found : found[i].detail \in {"parsed", "raw"} \/ found[i].pdf
             THEN "downloaded_not_indexed" ELSE "absent"

NetNext  == Tick \/ Change \/ LibraryCall \/ \E g \in Getters : Get(g) \/ Serve(g) \/ Got(g) \/ GetFails(g)
DiskNext == \E d \in Loaders : Verify(d) \/ Find(d) \/ Download(d)
ClientSpec == NetInit /\ DiskInit /\ [][NetNext \/ DiskNext]_<<netVars, diskVars>>

-----------------------------------------------------------------------------
\* A list of papers that is given out as current was the catalog's less than a
\* cache's life ago, however long its request took and whichever of two requests
\* stored its answer last (resolution.py, fetch_papers).
ListFresh == told.val > 0 /\ ~told.fallback =>
    told.val = Len(since) \/ since[told.val + 1] + CacheTtl > told.at

\* What check_paper says is decided by all local papers the term matches and not
\* by those that are shown: indexed if one of them is, absent only if none has a
\* file or a directory that the catalog does not know better
\* (resolution.py, match_local_state; reader.py, list_local_papers).
HasArtifact(n) == pdf[n] # "none" \/ dir[n] = "full" \/ (dir[n] = "empty" /\ row[n] = "none")
CheckSound ==
    CheckPaper = IF \E n \in Hits : row[n] = "indexed" THEN "indexed"
                 ELSE IF \E n \in Hits : HasArtifact(n) THEN "downloaded_not_indexed" ELSE "absent"
=============================================================================
