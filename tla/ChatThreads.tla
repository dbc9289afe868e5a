----------------------------- MODULE ChatThreads -----------------------------
(***************************************************************************)
(* The conversations of the client (web/frontend/src/renderer/src:         *)
(* App.tsx, state.ts, components/ChatView.tsx, api.ts streamChat).  There  *)
(* is one list of messages on the page, that of the active thread; an      *)
(* effect writes it to localStorage, under the id of the thread that is    *)
(* active, whenever either of them changes.  A click on a thread makes it  *)
(* active at once and puts its messages on the page by a timer.  Streams   *)
(* go on while the user looks at another thread; their events look for     *)
(* their message on the page.  A question and its answer are one message   *)
(* here; its text is the number of pieces that have arrived.               *)
(*                                                                         *)
(* Beside its text an answer has its steps (state.ts, insertStep and       *)
(* patchStep): a card for every subagent and for every tool of the         *)
(* conversation, with the tools of a subagent as its children.  Starts and *)
(* ends come as events with an id; those of one id come in order, an       *)
(* executor that retries sends them again, and a child may come before its *)
(* parent.  The two share no state.                                        *)
(***************************************************************************)
EXTENDS Integers, Sequences, SequencesExt, FiniteSets

CONSTANTS Threads,   \* conversations
          MaxMsgs,   \* messages
          MaxText,   \* pieces of one answer
          MaxClicks, \* clicks on threads, and reloads
          Outrun,    \* the user may go on before the timer of a click has run
          Step,      \* steps of an answer, by their ids
          ParentOf,  \* ParentOf[s]: the subagent s is a tool of, NoParent if it is none
          NoParent,
          Tries      \* times a step is started

ThreadsAssumption == {Threads, MaxMsgs, MaxText, MaxClicks} \subseteq Nat /\ Outrun \in BOOLEAN
TreeAssumption == /\ Tries \in Nat \ {0} /\ NoParent \notin Step
                  /\ ParentOf \in [Step -> Step \cup {NoParent}]
                  /\ \A s \in Step : ParentOf[s] # NoParent => ParentOf[ParentOf[s]] = NoParent

VARIABLES
    order,      \* threadOrder
    active,     \* activeThreadId
    shown,      \* messages
    streaming,  \* isStreaming
    disk,       \* disk[t]: the messages of t in localStorage
    loads,      \* what the timers of handleSwitchThread will put on the page
    open,       \* requests under way: <<message, "chat" or "resume">>
    abort,      \* abortRef of the view: a message, 0 if none
    dead,       \* threads deleted
    clicks,     \* clicks and reloads so far
    \* what happened:
    home,       \* home[i]: the thread message i was sent in
    said,       \* said[i]: pieces of i the server has sent
    missed,     \* messages a piece of which came while they were not on the page
    whole,      \* messages that ended on the page
    wiped,      \* threads that came up when the active one was deleted
    \* the steps of an answer:
    sent,       \* sent[s]: events of s so far; a start, an end, and so on
    steps       \* the cards: [id, ended, kids], ended 0 while it runs, kids the same

threadVars == <<order, active, shown, streaming, disk, loads, open, abort, dead, clicks, home, said,
                missed, whole, wiped>>

Id       == 1..MaxMsgs
Thread   == 1..Threads
NoThread == 0

ThreadsInit ==
    /\ order = <<>> /\ active = NoThread /\ shown = <<>> /\ streaming = FALSE
    /\ disk = [t \in Thread |-> <<>>] /\ loads = <<>> /\ open = {} /\ abort = 0 /\ dead = {}
    /\ clicks = 0
    /\ home = <<>> /\ said = <<>> /\ missed = {} /\ whole = {} /\ wiped = {}

Past == <<home, said, missed, whole, wiped>>
Message(i) == [id |-> i, text |-> 0, status |-> "streaming", approval |-> FALSE]

\* The effect that saves the messages.
Save(t, msgs) == disk' = IF t = NoThread THEN disk ELSE [disk EXCEPT ![t] = msgs]
Show(msgs)    == shown' = msgs /\ Save(active, msgs)
OnPage(i)     == \E n \in DOMAIN shown : shown[n].id = i
\* What an event makes of a message.
Edit(m, how) ==
    CASE how = "same"    -> m
      [] how = "ended"   -> [m EXCEPT !.status = "complete"]
      [] how = "failed"  -> [m EXCEPT !.status = "aborted"]
      [] how = "broken"  -> [m EXCEPT !.status = "aborted", !.approval = FALSE]
      [] how = "asked"   -> [m EXCEPT !.approval = TRUE]
      [] how = "pending" -> [m EXCEPT !.status = "complete", !.approval = TRUE]
      [] how = "decided" -> [m EXCEPT !.approval = FALSE]
Edited(i, how) == [n \in DOMAIN shown |-> IF shown[n].id = i THEN Edit(shown[n], how) ELSE shown[n]]
\* What the user does, in the page or between its threads.
User  == loads = <<>> \/ (Outrun /\ Len(loads) = 1)
Click == User /\ clicks < MaxClicks /\ clicks' = clicks + 1
\* The view is mounted anew for another thread.
View(t) == abort' = IF t = active THEN abort ELSE 0

Create(t) ==
    /\ t = Len(order) + Cardinality(dead) + 1 /\ t \in Thread
    /\ order' = <<t>> \o order /\ active' = t /\ shown' = <<>> /\ Save(t, <<>>) /\ View(t) /\ Click
    /\ UNCHANGED <<streaming, loads, open, dead, Past>>

\* Mutant: the messages are read after the effect has saved.
SwitchLate(t) ==
    /\ t \in Range(order)
    /\ loads' = Append(loads, shown)
    /\ active' = t /\ IF t = active THEN UNCHANGED disk ELSE Save(t, shown)
    /\ View(t) /\ Click
    /\ UNCHANGED <<order, shown, streaming, open, dead, Past>>
Switch(t) ==
    /\ t \in Range(order)
    /\ loads' = Append(loads, disk[t])
    /\ active' = t /\ IF t = active THEN UNCHANGED disk ELSE Save(t, shown)
    /\ View(t) /\ Click
    /\ UNCHANGED <<order, shown, streaming, open, dead, Past>>
Timer ==
    /\ loads # <<>> /\ loads' = Tail(loads) /\ Show(Head(loads))
    /\ UNCHANGED <<order, active, streaming, open, abort, dead, clicks, Past>>

\* The next thread comes up with no messages, and those are saved.
Delete(t) ==
    LET rest == RemoveAt(order, CHOOSE n \in DOMAIN order : order[n] = t)
        next == IF rest = <<>> THEN NoThread ELSE rest[1]
    IN  /\ t \in Range(order) /\ order' = rest /\ dead' = dead \cup {t}
        /\ IF t # active
           THEN disk' = [disk EXCEPT ![t] = <<>>] /\ UNCHANGED <<active, shown, abort, wiped>>
           ELSE /\ active' = next /\ shown' = <<>> /\ abort' = 0
                /\ disk' = [u \in Thread |-> IF u \in {t, next} THEN <<>> ELSE disk[u]]
                /\ wiped' = wiped \cup ({next} \ {NoThread})
        /\ Click
        /\ UNCHANGED <<streaming, loads, open, home, said, missed, whole>>

\* The input is off while something streams; the suggestions of an empty page
\* are not.
Send ==
    LET i == Len(home) + 1
    IN  /\ active # NoThread /\ (~streaming \/ shown = <<>>) /\ i \in Id
        /\ home' = Append(home, active) /\ said' = Append(said, 0)
        /\ Show(Append(shown, Message(i))) /\ streaming' = TRUE
        /\ open' = open \cup {<<i, "chat">>} /\ abort' = i /\ User
        /\ UNCHANGED <<order, active, loads, dead, clicks, missed, whole, wiped>>

\* A piece of text, or nothing, and what becomes of the message.
Arrives(i, n, how) ==
    /\ said' = [said EXCEPT ![i] = @ + n]
    /\ missed' = IF n > 0 /\ (loads # <<>> \/ ~OnPage(i)) THEN missed \cup {i} ELSE missed
    /\ Show([k \in DOMAIN shown |-> IF shown[k].id = i THEN [Edit(shown[k], how) EXCEPT !.text = @ + n]
                                   ELSE shown[k]])
Over(i, kind) == /\ open' = open \ {<<i, kind>>} /\ streaming' = FALSE
                 /\ whole' = IF loads = <<>> /\ OnPage(i) THEN whole \cup {i} ELSE whole
Quiet == UNCHANGED <<order, active, loads, abort, dead, clicks, home, wiped>>

Token(i) == /\ <<i, "chat">> \in open /\ said[i] < MaxText /\ Arrives(i, 1, "same")
            /\ UNCHANGED <<streaming, open, whole>> /\ Quiet
\* A turn that asks for an approval says so right before its last event.
Done(i)  == /\ <<i, "chat">> \in open /\ (Arrives(i, 0, "ended") \/ Arrives(i, 0, "pending"))
            /\ Over(i, "chat") /\ Quiet
Error(i) == /\ <<i, "chat">> \in open /\ said[i] < MaxText
            /\ Arrives(i, 1, "failed") /\ Over(i, "chat") /\ Quiet
\* The connection ends without a last event.
Ceases(i) == /\ <<i, "chat">> \in open /\ open' = open \ {<<i, "chat">>}
             /\ UNCHANGED <<shown, streaming, disk, said, missed, whole>> /\ Quiet

Stop ==
    /\ streaming /\ streaming' = FALSE /\ active # NoThread
    /\ open' = open \ {<<abort, "chat">>}
    /\ LET running == {n \in DOMAIN shown : shown[n].status = "streaming"}
       IN  IF running = {} THEN UNCHANGED <<shown, disk>>
           ELSE LET n == CHOOSE k \in running : \A j \in running : j <= k
                IN  Show([shown EXCEPT ![n].status = "aborted"])
    /\ User
    /\ UNCHANGED <<order, active, loads, abort, dead, clicks, Past>>

\* The card of an approval; the answer of the resumed turn comes as a whole.
Decide(i) ==
    /\ \E n \in DOMAIN shown : shown[n].id = i /\ shown[n].approval
    /\ Show(Edited(i, "decided")) /\ streaming' = TRUE
    /\ open' = open \cup {<<i, "resume">>} /\ User
    /\ UNCHANGED <<order, active, loads, abort, dead, clicks, Past>>
Resumed(i) ==
    /\ <<i, "resume">> \in open /\ said[i] < MaxText
    /\ \/ Arrives(i, 1, "ended") \/ Arrives(i, 1, "broken") \/ Arrives(i, 0, "asked")
    /\ Over(i, "resume") /\ Quiet

Reload ==
    /\ order # <<>> /\ active' = order[1] /\ shown' = disk[order[1]]
    /\ streaming' = FALSE /\ loads' = <<>> /\ open' = {} /\ abort' = 0 /\ Click
    /\ UNCHANGED <<order, disk, dead, Past>>

ThreadsNext ==
    \/ \E t \in Thread : Create(t) \/ Switch(t) \/ Delete(t)
    \/ \E i \in DOMAIN home : \/ Token(i) \/ Done(i) \/ Error(i) \/ Ceases(i)
                              \/ Decide(i) \/ Resumed(i)
    \/ Timer \/ Send \/ Stop \/ Reload
ThreadsSpec == ThreadsInit /\ [][ThreadsNext]_threadVars

-----------------------------------------------------------------------------
treeVars == <<sent, steps>>

TreeInit == sent = [s \in Step |-> 0] /\ steps = <<>>

Card(s) == [id |-> s, ended |-> 0, kids |-> <<>>]
Found(s) == \E n \in DOMAIN steps : \/ steps[n].id = s
                                    \/ \E m \in DOMAIN steps[n].kids : steps[n].kids[m].id = s

\* The cards of some steps, in their order.
Among(cards, S) ==
    LET first[n \in 0..Len(cards)] ==
          IF n = 0 THEN <<>>
          ELSE IF cards[n].id \in S THEN Append(first[n - 1], cards[n]) ELSE first[n - 1]
    IN  first[Len(cards)]

\* A step that is there is left alone; a child goes to its parent, or waits on
\* top for it; a parent takes the children that wait.
Insert(s) ==
    LET parents == {n \in DOMAIN steps : steps[n].id = ParentOf[s]}
        mine    == {c \in Step : ParentOf[c] = s}
    IN  IF Found(s) THEN steps
        ELSE IF parents # {}
             THEN [steps EXCEPT ![CHOOSE n \in parents : TRUE].kids = Append(@, Card(s))]
             ELSE Append(Among(steps, Step \ mine), [Card(s) EXCEPT !.kids = Among(steps, mine)])

Patched(cards, s, end) ==
    [n \in DOMAIN cards |-> IF cards[n].id = s THEN [cards[n] EXCEPT !.ended = end] ELSE cards[n]]
Patch(s, end) ==
    [n \in DOMAIN steps |->
       IF steps[n].id = s THEN [steps[n] EXCEPT !.ended = end]
       ELSE [steps[n] EXCEPT !.kids = Patched(@, s, end)]]

Event(s) ==
    /\ sent[s] < 2 * Tries /\ sent' = [sent EXCEPT ![s] = @ + 1]
    /\ steps' = IF sent[s] % 2 = 0 THEN Insert(s) ELSE Patch(s, sent'[s] \div 2)

TreeNext == \E s \in Step : Event(s)
TreeSpec == TreeInit /\ [][TreeNext]_treeVars

-----------------------------------------------------------------------------
\* Unless a click is under way, or outrun by the next, a thread holds its own messages only, in
\* their order, on the page and in localStorage, whatever streams (handleSwitchThread
\* and the effect that saves).
NoCrosstalk == loads = <<>> =>
    /\ \A t \in Range(order) : \A n \in DOMAIN disk[t] :
         home[disk[t][n].id] = t /\ \A m \in 1..n - 1 : disk[t][m].id < disk[t][n].id
    /\ active # NoThread => shown = disk[active]

\* A message that ended on the page, and whose pieces all came while it was on
\* the page, stays in localStorage as the server sent it, through switches,
\* deletions of other threads and reloads; but not in a thread that came up when
\* the active one was deleted (see DeletionHarmless).
MessagesKept == loads = <<>> => \A i \in whole \ missed :
    home[i] \in Range(order) \ wiped =>
        \E n \in DOMAIN disk[home[i]] : disk[home[i]][n].id = i /\ disk[home[i]][n].text = said[i]

\* Whatever came first, and however often: every step that came has a card, with the
\* status of its last end, under its parent as soon as the parent has one (state.ts,
\* insertStep and patchStep); no step has two cards.
Places == {<<n, 0>> : n \in DOMAIN steps}
          \cup UNION {{<<n, m>> : m \in DOMAIN steps[n].kids} : n \in DOMAIN steps}
At(p)    == IF p[2] = 0 THEN steps[p[1]] ELSE steps[p[1]].kids[p[2]]
Under(p) == IF p[2] = 0 THEN NoParent ELSE steps[p[1]].id
Came(s)  == s # NoParent /\ sent[s] > 0
StepsInPlace ==
    /\ \A s \in Step : Came(s) => \E p \in Places :
         /\ At(p).id = s /\ At(p).ended = sent[s] \div 2
         /\ Under(p) = IF Came(ParentOf[s]) THEN ParentOf[s] ELSE NoParent
    /\ \A p, q \in Places : Came(At(p).id) /\ (At(p).id = At(q).id => p = q)

\* Observations, not checked by a run: the thread that comes up when the active
\* one is deleted loses its messages; what arrives for another thread than the
\* active one is lost; a switch that is outrun mixes threads up; the input may
\* stay off with nothing under way.
DeletionHarmless == [][\A t \in Thread : Delete(t) => \A u \in Range(order) \ {t} : disk'[u] = disk[u]]_threadVars
NothingMissed == missed = {}
NeverMixed == loads = <<>> => \A t \in Range(order) : \A n \in DOMAIN disk[t] : home[disk[t][n].id] = t
InputFree == streaming => open # {}
=============================================================================
