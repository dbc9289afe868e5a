---------------------------- MODULE MemoryStore -----------------------------
(***************************************************************************)
(* The long-term memories (agent/core/memory_store.py): one JSON file of   *)
(* records that the conversation, the interface and the postmortems of     *)
(* failed turns write, and the selection of those that reach a prompt      *)
(* (core/memory_policy.py, core/context_pack.py).  A record is named by    *)
(* its content; every operation reads, changes and replaces the file under *)
(* one lock, so that each is a step.                                       *)
(***************************************************************************)
EXTENDS Integers, FiniteSets

CONSTANTS Fact, Lesson,  \* contents: what a user may say, what a postmortem says
          Key,           \* the semantic keys of contents of the form "field: value"
          KeyOf,         \* the key of a content, its type included, or NoKey: the
                         \* text of every postmortem has the same one
          NoKey,
          Conf,          \* confidences the interface may give, in twentieths
          MaxWrites      \* bound: operations

Content == Fact \cup Lesson
MemoryAssumption ==
    /\ NoKey \notin Key /\ Fact \cap Lesson = {} /\ KeyOf \in [Content -> Key \cup {NoKey}]
    /\ Conf \subseteq 0..20 /\ MaxWrites \in Nat

VARIABLES
    rec,       \* the file: a record for each content, or None
    disabled,  \* the policy's disabled_ids
    noLessons, \* the policy disables the type of postmortems
    agreed,    \* contents the user agreed to since they were last deleted
    ops        \* operations so far
mvars == <<rec, disabled, noLessons, agreed, ops>>

None   == [st |-> "none", rank |-> 0, conf |-> 0, consent |-> FALSE]
Record == [st : {"active", "candidate", "conflict", "superseded"},
           rank : 0..2, conf : 0..20, consent : BOOLEAN]
Kept   == {c \in Content : rec[c].st # "none"}

Init == /\ rec = [c \in Content |-> None] /\ disabled = {} /\ noLessons = FALSE
        /\ agreed = {} /\ ops = 0

-----------------------------------------------------------------------------
(* upsert_record *)

Related(c)  == {d \in Kept : d # c /\ KeyOf[d] = KeyOf[c]
                             /\ rec[d].st \in {"active", "conflict"}}
AtLeast(r, s) == r.rank > s.rank \/ (r.rank = s.rank /\ r.conf >= s.conf)
Beats(r, s)   == r.rank > s.rank \/ (r.rank = s.rank /\ r.conf >= s.conf + 2)

\* The strongest of the others; the time of writing decides between equals.
Strongest(c) == {d \in Related(c) : \A e \in Related(c) : AtLeast(rec[d], rec[e])}

\* A content that is there already: its consent stays, and a write that asks
\* for an active record makes it one whatever it was.
Rewritten(c, new) ==
    [rec EXCEPT ![c] = [new EXCEPT !.consent = rec[c].consent,
                                   !.st = IF new.st = "active" THEN "active" ELSE rec[c].st]]

\* A new value of a key against the strongest of the old ones.
Against(c, new, d) ==
    CASE Beats(new, rec[d]) -> [rec EXCEPT ![c] = [new EXCEPT !.st = "active"],
                                           ![d].st = "superseded"]
      [] Beats(rec[d], new) -> [rec EXCEPT ![c] = [new EXCEPT !.st = "superseded"],
                                           ![d].st = "active"]
      [] OTHER -> [e \in Content |->
                      IF e = c THEN [new EXCEPT !.st = "conflict"]
                      ELSE IF e \in Related(c) THEN [rec[e] EXCEPT !.st = "conflict"]
                      ELSE rec[e]]

Upsert(c, new) ==
    IF c \in Kept THEN rec' = Rewritten(c, new)
    ELSE IF KeyOf[c] = NoKey \/ Related(c) = {} THEN rec' = [rec EXCEPT ![c] = new]
    ELSE \E d \in Strongest(c) : rec' = Against(c, new, d)

Step == ops < MaxWrites /\ ops' = ops + 1

\* memory_node: "remember ...", from the conversation.
Capture(c) ==
    /\ Step /\ c \in Fact
    /\ Upsert(c, [st |-> "active", rank |-> 1, conf |-> 19, consent |-> TRUE])
    /\ agreed' = agreed \cup {c} /\ UNCHANGED <<disabled, noLessons>>

\* POST /api/memory, with any type, source and confidence.
Create(c, rank, conf, consent) ==
    /\ Step /\ Upsert(c, [st |-> "active", rank |-> rank, conf |-> conf, consent |-> consent])
    /\ agreed' = IF consent THEN agreed \cup {c} ELSE agreed
    /\ UNCHANGED <<disabled, noLessons>>

\* record_turn_postmortem: a candidate nobody agreed to.  Its source is the
\* trace; an id that contains "thread" ranks as a conversation.
Postmortem(c, rank) ==
    /\ Step /\ c \in Lesson
    /\ Upsert(c, [st |-> "candidate", rank |-> rank, conf |-> 12, consent |-> FALSE])
    /\ UNCHANGED <<disabled, noLessons, agreed>>

Approve(c) ==
    /\ Step /\ c \in Kept
    /\ rec' = [rec EXCEPT ![c].st = "active", ![c].consent = TRUE,
                          ![c].conf = IF @ < 14 THEN 14 ELSE @]
    /\ agreed' = agreed \cup {c} /\ UNCHANGED <<disabled, noLessons>>

Delete(c) ==
    /\ Step /\ c \in Kept
    /\ rec' = [rec EXCEPT ![c] = None] /\ disabled' = disabled \ {c}
    /\ agreed' = agreed \ {c} /\ UNCHANGED noLessons

UpdatePolicy(ids, lessons) ==
    /\ Step /\ disabled' = ids /\ noLessons' = lessons /\ UNCHANGED <<rec, agreed>>

Next ==
    \/ \E c \in Content : Capture(c) \/ Approve(c) \/ Delete(c)
    \/ \E c \in Content, rank \in {0, 2}, conf \in Conf, consent \in BOOLEAN :
          Create(c, rank, conf, consent)
    \/ \E c \in Content, rank \in {0, 1} : Postmortem(c, rank)
    \/ \E ids \in SUBSET Content, lessons \in BOOLEAN : UpdatePolicy(ids, lessons)

Spec == Init /\ [][Next]_mvars

-----------------------------------------------------------------------------
(* The memory zone of a prompt. *)

\* _resolve_memory_conflicts: of the active values of a key the clear winner
\* stays, or none.
Rivals(c) == {d \in Kept : d # c /\ rec[d].st = "active" /\ KeyOf[d] = KeyOf[c]}
Outranks(r, s) == r.rank > s.rank \/ r.conf >= s.conf + 2
\* Mutant: rival values are not resolved.
ResolvedAll == Kept
Resolved == {c \in Kept : \/ rec[c].st # "active" \/ KeyOf[c] = NoKey
                          \/ \A d \in Rivals(c) : AtLeast(rec[c], rec[d]) /\ Outranks(rec[c], rec[d])}

\* MemoryPolicy.evaluate, but for age.
Usable(c) == /\ c \notin disabled /\ rec[c].st = "active"
             /\ ~(noLessons /\ c \in Lesson) /\ rec[c].consent /\ rec[c].conf >= 6
Injected == {c \in Resolved : Usable(c)}

-----------------------------------------------------------------------------
TypeOK ==
    /\ rec \in [Content -> Record \cup {None}] /\ disabled \subseteq Content
    /\ noLessons \in BOOLEAN /\ agreed \subseteq Content /\ ops \in 0..MaxWrites

\* Nothing reaches a prompt that the user never agreed to: a lesson drawn from
\* a failed turn waits for its approval, whatever beats it or is beaten by it.
InjectedAgreed == Injected \subseteq agreed

\* A prompt never holds two values of one key, although a value that is
\* written again or approved becomes active next to the one that replaced it.
OneValue == \A c, d \in Injected : c # d => KeyOf[c] = NoKey \/ KeyOf[c] # KeyOf[d]

\* In the file itself one value of a key is active (it is not: see OneValue).
OneActive == \A c, d \in Kept : (c # d /\ KeyOf[c] # NoKey /\ d \in Rivals(c)) => rec[c].st # "active"

\* A usable memory with no usable rival reaches the prompt (it may not: a
\* rival that is disabled still wins the key before the policy removes it).
NotShadowed == \A c \in Kept : (Usable(c) /\ \A d \in Rivals(c) : ~Usable(d)) => c \in Injected
=============================================================================
