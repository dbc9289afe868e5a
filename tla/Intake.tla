------------------------------- MODULE Intake -------------------------------
(***************************************************************************)
(* How a message becomes a turn: the checks at the door (input_policy.py,   *)
(* content_safety.py, capability_policy.py), what the turn is taken to ask  *)
(* for, anew or as the continuation of the one before (understand_node),    *)
(* the papers and sections it names (resolve_node, match_paper), the domain *)
(* and the way it goes (route_intent, route_domain, decide_mode).  The      *)
(* state of a thread outlives its turns.  A name is its text and its        *)
(* normalised letters; the library is the list that fetch_papers brought,   *)
(* empty when it brought none.                                              *)
(***************************************************************************)
EXTENDS Integers, Sequences, FiniteSets, SequencesExt, FiniteSetsExt

CONSTANTS
    Messages, \* inputs: [chars, guard, breaks, remote, open, kind, words, verbs, wants, mode, tries, sections, library]
    Later,    \* those after the first one
    MaxTurns,
    Limit,    \* characters of a message (AGENT_INPUT_MAX_CHARS)
    Mid, Long \* letters of a name that make a substring count (4 and 8 in the code)

IntakeAssumption == {MaxTurns, Limit, Mid, Long} \subseteq Nat \ {0} /\ Mid < Long

VARIABLES
    talk,   \* the thread: [intent, domain, needs, sure, entities, focus, goal, profile, forced, resolved, turns]
    heard,  \* the last message
    way,    \* where it went: a refusal, or "failed", "clarify", "chat", "task", "search", "plan"
    origin, \* history: what the thread was last understood to ask, and the words and continuations since
    before  \* history: the message, the way and the mode of the turn before

intakeVars == <<talk, heard, way, origin, before>>

-----------------------------------------------------------------------------
(* At the door.                                                                  *)
\* Mutant: who is not reached has nothing to say.
ModeratedIfUp(m) ==
    CASE m.remote \in {"off", "clean", "nothing", "down"} -> "ok"
      [] m.remote \in {"flagged", "list", "odd"}          -> "INPUT_BLOCKED"
      [] m.remote = "torn"                                -> "failed"
\* A moderation service that cannot be understood refuses, one that says nothing
\* passes, and one that cannot be reached does as it is set to.
Moderated(m) ==
    CASE m.remote \in {"off", "clean", "nothing"}      -> "ok"
      [] m.remote \in {"flagged", "list", "odd"}       -> "INPUT_BLOCKED"
      [] m.remote = "down"                             -> IF m.open THEN "ok" ELSE "INPUT_BLOCKED"
      [] m.remote = "torn"                             -> "failed"
Breaks(m) == (m.guard /\ "injection" \in m.breaks) \/ "harm" \in m.breaks
Entry(m) ==
    IF m.chars = 0 THEN "INPUT_EMPTY"
    ELSE IF m.chars > Limit THEN "INPUT_TOO_LARGE"
    ELSE IF Breaks(m) THEN "INPUT_BLOCKED"
    ELSE IF Moderated(m) # "ok" THEN Moderated(m)
    ELSE IF "handoff" \in m.breaks THEN "HANDOFF_REQUIRED" ELSE "ok"

-----------------------------------------------------------------------------
(* What it asks for.                                                             *)
Goal(m, domain, entities) ==
    [domain |-> domain, entities |-> entities,
     acts |-> {"read"} \cup m.verbs \cup (IF domain = "coding" THEN {"execute"} ELSE {})]
Profile(m) ==
    IF "quality" \in m.wants THEN "quality" ELSE IF "fast" \in m.wants THEN "fast"
    ELSE IF "cost" \in m.wants THEN "cost_saver" ELSE "balanced"

\* The model is asked twice; what it said first stands when the second call fails.
Labelled(r) == r.got = "label" /\ r.intent # ""
Label(m) == IF Labelled(m.tries[1]) \/ m.tries[2].got = "raises" THEN m.tries[1] ELSE m.tries[2]
Unlabelled == [got |-> "label", intent |-> "literature_search", domain |-> "paper", needs |-> FALSE, sure |-> 100,
               entities |-> <<>>, focus |-> <<>>]
Asks(m) == IF Label(m).got = "label" THEN Label(m) ELSE Unlabelled
FollowUp(m) == talk.turns > 0 /\ talk.intent # "" /\ m.kind \in {"goes on", "points back"}

Anew(m) ==
    LET r == Asks(m) IN
    [talk EXCEPT !.intent = r.intent, !.domain = r.domain, !.needs = r.needs, !.sure = r.sure, !.entities = r.entities,
                 !.focus = r.focus, !.goal = Goal(m, r.domain, r.entities), !.profile = Profile(m)]
\* Mutant: the goal is made of the words of the continuation.
ContinueWithNewGoal(m) == [talk EXCEPT !.sure = 92, !.goal = Goal(m, talk.domain, <<>>)]
Continue(m) == [talk EXCEPT !.sure = 92]
Understand(m) ==
    [IF FollowUp(m) THEN Continue(m) ELSE Anew(m) EXCEPT
        !.turns = talk.turns + 1, !.forced = IF m.mode = "unset" THEN talk.forced ELSE m.mode]

RouteIntent(s) ==
    IF s.sure < 50 \/ s.intent = "needs_clarify" THEN "clarify"
    ELSE IF s.intent = "general_chat" THEN "chat" ELSE IF s.intent = "task_query" THEN "task" ELSE "resolve"

-----------------------------------------------------------------------------
(* The papers it names.                                                          *)
Within(a, b) == \E i \in 0..(Len(b) - Len(a)) : SubSeq(b, i + 1, i + Len(a)) = a
Hint(c, name, level) == [said |-> c, match |-> name, level |-> level]
NoHint(c) == Hint(c, c, "NONE")

\* Of several papers, one that holds the name, and then the one closest in length;
\* the list decides between equals.
Closer(c, p, q) ==
    IF Within(c.key, p.key) # Within(c.key, q.key) THEN Within(c.key, p.key)
    ELSE IF Within(c.key, p.key) THEN Len(p.key) < Len(q.key) ELSE Len(p.key) > Len(q.key)
MatchPaper(c, list) ==
    LET exact == {i \in DOMAIN list : list[i].key = c.key}
        near  == {i \in DOMAIN list : Within(c.key, list[i].key) \/ Within(list[i].key, c.key)}
        best  == CHOOSE i \in near : \A j \in near \ {i} :
                    Closer(c, list[i], list[j]) \/ (i < j /\ ~Closer(c, list[j], list[i]))
    IN  IF exact # {} THEN Hint(c, list[Min(exact)], "EXACT")
        ELSE IF near = {} THEN NoHint(c)
        ELSE Hint(c, list[best], IF Len(c.key) >= Long THEN "HIGH" ELSE IF Len(c.key) >= Mid THEN "MEDIUM" ELSE "LOW")

Candidates(s) ==
    LET all == s.focus \o s.entities
        new == {n \in DOMAIN all : \A k \in 1..(n - 1) : all[k] # all[n]}
    IN  [n \in 1..Cardinality(new) |-> all[SetToSortSeq(new, <)[n]]]
\* Mutant: two names of one paper are two papers.
HintsOfAll(s, list) == SelectSeq([n \in DOMAIN Candidates(s) |-> MatchPaper(Candidates(s)[n], list)], LAMBDA h : h.level # "NONE")
Hints(s, list) ==
    LET all == [n \in DOMAIN Candidates(s) |-> MatchPaper(Candidates(s)[n], list)]
        new == {n \in DOMAIN all : all[n].level # "NONE" /\ \A k \in 1..(n - 1) : all[k].level = "NONE" \/ all[k].match # all[n].match}
    IN  [n \in 1..Cardinality(new) |-> all[SetToSortSeq(new, <)[n]]]
Resolve(s, m) ==
    [s EXCEPT !.resolved = [papers |-> Hints(s, IF Candidates(s) = <<>> THEN <<>> ELSE m.library), sections |-> m.sections]]

\* What the agent is told: a section is of the first paper that is sure.
Sure(h) == h.level \in {"EXACT", "HIGH"}
SectionsOf(s) ==
    LET sure == SelectSeq(s.resolved.papers, Sure)
    IN  [n \in DOMAIN s.resolved.sections |->
            [ordinal |-> s.resolved.sections[n], paper |-> IF sure = <<>> THEN <<>> ELSE <<sure[1].match>>]]

-----------------------------------------------------------------------------
(* The way it goes.                                                              *)
DomainLabel(s) == IF s.domain \in {"paper", "creation", "coding"} THEN s.domain ELSE "paper"
RouteDomain(s, m) == IF Cardinality(m.words) = 1 THEN CHOOSE d \in m.words : TRUE ELSE DomainLabel(s)
Confirmed(s) == {s.resolved.papers[n].match : n \in {k \in DOMAIN s.resolved.papers : s.resolved.papers[k].level # "LOW"}}
DecideMode(s) ==
    IF s.forced # "auto" THEN s.forced ELSE IF s.needs \/ Cardinality(Confirmed(s)) >= 2 THEN "plan" ELSE "react"
WayOf(s, m) ==
    IF RouteIntent(s) # "resolve" THEN RouteIntent(s)
    ELSE IF DecideMode(s) = "plan" THEN "plan" ELSE "search"

NoTalk == [intent |-> "", domain |-> "", needs |-> FALSE, sure |-> 100, entities |-> <<>>, focus |-> <<>>,
           goal |-> [domain |-> "", entities |-> <<>>, acts |-> {}], profile |-> "balanced", forced |-> "auto",
           resolved |-> [papers |-> <<>>, sections |-> <<>>], turns |-> 0]
Init ==
    /\ talk = NoTalk /\ heard = <<>> /\ way = "none"
    /\ origin = [state |-> NoTalk, words |-> {}, on |-> 0] /\ before = [heard |-> <<>>, way |-> "none", forced |-> "auto"]

Refuse(m) ==
    /\ Entry(m) # "ok"
    /\ way' = Entry(m) /\ heard' = <<m>>
    /\ before' = [heard |-> heard, way |-> way, forced |-> talk.forced]
    /\ UNCHANGED <<talk, origin>>
Take(m) ==
    /\ Entry(m) = "ok" /\ talk.turns < MaxTurns
    /\ LET s == Understand(m)
           r == Resolve(s, m)
           w == IF RouteIntent(s) = "resolve" THEN [r EXCEPT !.domain = RouteDomain(r, m)] ELSE s
       IN  /\ talk' = w
           /\ way' = WayOf(w, m)
           /\ origin' = [state |-> IF FollowUp(m) THEN origin.state ELSE s,
                         words |-> (IF FollowUp(m) THEN origin.words ELSE {}) \cup m.words,
                         on |-> IF FollowUp(m) THEN origin.on + 1 ELSE 0]
    /\ heard' = <<m>>
    /\ before' = [heard |-> heard, way |-> way, forced |-> talk.forced]
Next == \E m \in IF way = "none" THEN Messages ELSE Later : Refuse(m) \/ Take(m)

-----------------------------------------------------------------------------
Refusals == {"INPUT_EMPTY", "INPUT_TOO_LARGE", "INPUT_BLOCKED", "HANDOFF_REQUIRED", "failed"}
Taken    == way \notin Refusals \cup {"none"}
M        == heard[1]

\* Nothing is taken that a local rule forbids, guard or no guard, nor anything
\* that an active moderation did not pass, unless the settings say that an outage
\* lets it through (content_safety.py 155-237, input_policy.py 104-171).
Admitted ==
    Taken => /\ "harm" \notin M.breaks
             /\ M.remote \in {"flagged", "list", "odd", "torn"} => FALSE
             /\ M.remote = "down" => M.open

\* All that a thread goes by comes from one understanding: a chain of
\* continuations keeps its intent, its names, its goal and its need of a plan, and
\* only strong words of the chain move the domain (nodes.py 1102-1160, 1312-1336).
OneOrigin ==
    talk.turns > 0 =>
        /\ talk.intent = origin.state.intent /\ talk.needs = origin.state.needs
        /\ talk.focus = origin.state.focus /\ talk.entities = origin.state.entities
        /\ talk.goal = origin.state.goal /\ talk.profile = origin.state.profile
        /\ talk.domain \in {origin.state.domain, DomainLabel(origin.state)} \cup origin.words

\* The hints are of this turn's list, one for a paper; who names a paper by its
\* name is led to a paper of that name, and a section only to one that is sure
\* (resolution.py 168-214, 310-388, nodes.py 888-973).
HintsThere ==
    way \in {"search", "plan"} =>
        LET hints == talk.resolved.papers IN
        /\ \A n \in DOMAIN hints : \E k \in DOMAIN M.library : M.library[k] = hints[n].match
        /\ \A n, k \in DOMAIN hints : n # k => hints[n].match # hints[k].match
        /\ \A n \in DOMAIN Candidates(talk) :
              LET c == Candidates(talk)[n]
                  named == {k \in DOMAIN M.library : M.library[k].key = c.key}
              IN  named # {} => \E k \in DOMAIN hints : hints[k].match = M.library[Min(named)]
        /\ \A n \in DOMAIN SectionsOf(talk) : \A k \in DOMAIN SectionsOf(talk)[n].paper :
              \E h \in DOMAIN hints : hints[h].match = SectionsOf(talk)[n].paper[k] /\ hints[h].level \in {"EXACT", "HIGH"}

\* A continuation goes the way of the turn before, when the library and the mode
\* are the same; only a question for clarification is not asked again, unless it
\* was the intent (nodes.py 1102-1160, 2230-2251, plan.py 119-175).
SameWayOn ==
    (Taken /\ origin.on > 0 /\ before.way \notin Refusals) =>
        \/ way = before.way
        \/ before.way = "clarify" /\ origin.state.sure < 50
        \/ before.heard[1].library # M.library \/ before.forced # talk.forced

IntakeSound == Admitted /\ OneOrigin /\ HintsThere /\ SameWayOn
=============================================================================
