----------------------------- MODULE ContextFit -----------------------------
(***************************************************************************)
(* The last cut before a model is called (core/token_budget.py): the       *)
(* messages are made to fit the window.  The system text comes first; then *)
(* whole units of the conversation, the newest first, where a call of      *)
(* tools and the results that follow it are one unit.  Tokens are counted  *)
(* in coarse units.                                                        *)
(***************************************************************************)
EXTENDS Integers, Sequences, FiniteSets, SequencesExt

CONSTANTS Text,      \* sizes of a text
          Args,      \* sizes of the arguments of a message's calls
          Budget,    \* windows
          System,    \* sizes of the system text
          Floor,     \* a text is not cut below this
          MaxRounds  \* bound: units after the first question

FitAssumption ==
    /\ Floor \in Nat \ {0} /\ Budget \subseteq Nat /\ MaxRounds \in Nat
    /\ \A b \in Budget : b - (b * 65) \div 100 >= Floor
    /\ Text \cup Args \cup System \subseteq Nat \ {0}

VARIABLES conv,    \* the messages that are not system messages
          system,  \* the tokens of those that are
          budget,  \* the window
          fit      \* what fit_messages returns, or None
fvars == <<conv, system, budget, fit>>

None == [conv |-> <<>>, system |-> -1]
Human(n)      == [type |-> "human", text |-> n, args |-> 0, calls |-> {}, of |-> 0]
AI(n)         == [type |-> "ai", text |-> n, args |-> 0, calls |-> {}, of |-> 0]
Calls(n, ids) == [type |-> "ai", text |-> 0, args |-> n, calls |-> ids, of |-> 0]
Tool(n, id)   == [type |-> "tool", text |-> n, args |-> 0, calls |-> {}, of |-> id]

\* A question, an answer, or two calls and the results that came in.
Piece == {<<Human(n)>> : n \in Text} \cup {<<AI(n)>> : n \in Text}
         \cup {<<Calls(a, {1, 2})>> : a \in Args}
         \cup {<<Calls(a, {1}), Tool(n, 1)>> : a \in Args, n \in Text}
         \cup {<<Calls(a, {1, 2}), Tool(n, 1), Tool(m, 2)>> : a \in Args, n, m \in Text}

\* A first question and what came in r rounds after it.
Talks[r \in 0..MaxRounds] == IF r = 0 THEN {<<Human(n)>> : n \in Text}
                             ELSE {c \o p : c \in Talks[r - 1], p \in Piece}

Init ==
    /\ \E r \in 0..MaxRounds : conv \in Talks[r]
    /\ system \in System /\ budget \in Budget /\ fit = None

-----------------------------------------------------------------------------
Tokens(m)   == m.text + m.args
Total(unit) ==
    LET sum[k \in 0..Len(unit)] == IF k = 0 THEN 0 ELSE sum[k - 1] + Tokens(unit[k])
    IN  sum[Len(unit)]

\* _message_units: results right behind the message that called for them.
Joins(ms, j) == /\ ms[j].type = "tool"
                /\ \E i \in 1..(j - 1) : /\ ms[i].calls # {}
                                         /\ \A k \in (i + 1)..j : /\ ms[k].type = "tool"
                                                                  /\ ms[k].of \in ms[i].calls
Unit(ms, j) == SubSeq(ms, j, Max({e \in j..Len(ms) : \A k \in (j + 1)..e : Joins(ms, k)}))

\* _shrink_unit: the text of the largest message is cut, at most 12 times; a
\* text that cannot be cut any more ends it.
Largest(unit) == Min({i \in DOMAIN unit : \A j \in DOMAIN unit : Tokens(unit[j]) <= Tokens(unit[i])})
Cut(unit, limit) ==
    LET i    == Largest(unit)
        goal == Max({Floor, Tokens(unit[i]) - (Total(unit) - limit)})
    IN  [unit EXCEPT ![i].text = Min({@, goal})]
Shrink(unit, limit) ==
    LET cut[k \in 0..12] == IF k = 0 THEN unit
                            ELSE LET last == cut[k - 1]
                                 IN  IF Total(last) <= limit THEN last ELSE Cut(last, limit)
    IN  IF limit > 0 /\ Total(cut[12]) <= limit THEN cut[12] ELSE <<>>

\* One unit more, from the newest message back; only the first may be cut.
Take(taken, unit, limit) ==
    LET left  == limit - Total(taken)
        small == Shrink(unit, left)
    IN  IF Total(unit) <= left THEN unit \o taken
        ELSE IF taken = <<>> /\ small # <<>> THEN small
        ELSE taken
Select(ms, limit) ==
    LET taken[n \in 0..Len(ms)] ==
          LET j == Len(ms) + 1 - n
          IN  IF n = 0 THEN <<>>
              ELSE IF Joins(ms, j) THEN taken[n - 1]
              ELSE Take(taken[n - 1], Unit(ms, j), limit)
    IN  taken[Len(ms)]

\* fit_messages
SystemCut == IF system > (budget * 65) \div 100 THEN budget \div 2 ELSE system
Fitted ==
    LET limit == budget - SystemCut
        taken == Select(conv, limit)
        last  == conv[Len(conv)]
    IN  IF system + Total(conv) <= budget THEN [conv |-> conv, system |-> system]
        ELSE IF taken # <<>> THEN [conv |-> taken, system |-> SystemCut]
        ELSE [conv |-> <<[last EXCEPT !.text = Min({@, Max({1, limit})})]>>,
              system |-> SystemCut]

Fit  == fit = None /\ fit' = Fitted /\ UNCHANGED <<conv, system, budget>>
Next == Fit
Spec == Init /\ [][Next]_fvars

-----------------------------------------------------------------------------
\* What is sent fits, and no result is sent without the call that asked for it
\* nor a call without the results that it had.
Same(m, n) == m.type = n.type /\ m.calls = n.calls /\ m.of = n.of /\ m.args = n.args
Answered(ms, i) == {ms[j].of : j \in {k \in (i + 1)..Len(ms) :
                       \A l \in (i + 1)..k : ms[l].type = "tool" /\ ms[l].of \in ms[i].calls}}
FitsWhole ==
    fit # None =>
        /\ fit.system + Total(fit.conv) <= budget
        /\ \A j \in DOMAIN fit.conv : fit.conv[j].type = "tool" => Joins(fit.conv, j)
        /\ \A i \in DOMAIN fit.conv : fit.conv[i].calls # {} =>
              \E k \in DOMAIN conv : /\ Same(conv[k], fit.conv[i])
                                     /\ Answered(conv, k) = Answered(fit.conv, i)

\* The newest unit is among them, cut or whole (it may not be: one that cannot
\* be cut is left out, and the older ones are sent without it).
NewestKept ==
    fit # None => Same(fit.conv[Len(fit.conv)], conv[Len(conv)])
=============================================================================
