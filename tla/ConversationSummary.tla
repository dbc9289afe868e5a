------------------------ MODULE ConversationSummary -------------------------
(***************************************************************************)
(* What a model still knows of a long conversation (agent/memory.py and    *)
(* nodes.memory_node): the last messages stand in the prompt, the older    *)
(* ones in a summary that is made again when enough of them are not in it. *)
(* The summarizer is given the old summary and the older messages from the *)
(* first on, up to a number of characters.                                 *)
(***************************************************************************)
EXTENDS Integers, Sequences, SequencesExt

CONSTANTS Buffer,   \* BUFFER_SIZE: messages that stand in the prompt
          Refresh,  \* SUMMARY_REFRESH_MESSAGES
          MaxChars, \* max_chars of _format_for_summary
          Size,     \* sizes of a message, as the summarizer would see it
          MaxTurns  \* bound: turns; each adds a question and its answer

SummaryAssumption ==
    /\ Buffer \in Nat \ {0} /\ Refresh \in Nat \ {0} /\ MaxChars \in Nat \ {0}
    /\ Size \subseteq Nat \ {0} /\ MaxTurns \in Nat

VARIABLES
    messages, \* state.messages: their sizes
    cached,   \* summary_cache is not empty
    through,  \* summary_through_seq
    read,     \* how many of the oldest messages a summarizer has seen whole
    missed,   \* the last summary that was due was not made
    answered  \* the turn's question has been answered
svars == <<messages, cached, through, read, missed, answered>>

Init == messages = <<>> /\ cached = FALSE /\ through = 0 /\ read = 0
        /\ missed = FALSE /\ answered = TRUE

Older(m)    == SubSeq(m, 1, Len(m) - Buffer)
Chars(m, n) == LET sum[k \in 0..n] == IF k = 0 THEN 0 ELSE sum[k - 1] + m[k] IN sum[n]

\* needs_summary_update
Due(m) == Older(m) # <<>> /\ (~cached \/ Len(Older(m)) - Min({Len(Older(m)), through}) >= Refresh)

\* _format_for_summary: whole messages while they fit.
Shown(m) == Max({n \in 0..Len(m) : Chars(m, n) <= MaxChars})

\* memory_node: regenerate_summary may raise or return nothing.
Memory(size) ==
    /\ answered /\ Len(messages) < 2 * MaxTurns
    /\ messages' = Append(messages, size) /\ answered' = FALSE
    /\ \/ /\ ~Due(messages') /\ UNCHANGED <<cached, through, read, missed>>
       \/ /\ Due(messages') /\ missed' = TRUE /\ UNCHANGED <<cached, through, read>>
       \/ /\ Due(messages') /\ missed' = FALSE /\ cached' = TRUE
          /\ through' = Len(Older(messages'))
          /\ read' = Max({read, Shown(Older(messages'))})

Answer(size) ==
    /\ ~answered /\ messages' = Append(messages, size) /\ answered' = TRUE
    /\ UNCHANGED <<cached, through, read, missed>>

Next == \E size \in Size : Memory(size) \/ Answer(size)
Spec == Init /\ [][Next]_svars

-----------------------------------------------------------------------------
TypeOK ==
    /\ messages \in Seq(Size) /\ cached \in BOOLEAN /\ missed \in BOOLEAN
    /\ answered \in BOOLEAN /\ {through, read} \subseteq 0..Len(Older(messages))

\* While summaries are made and the older messages fit into one, a prompt
\* misses fewer messages than Refresh between the summary and the last ones.
GapBounded ==
    LET older == Older(messages)
    IN  (~answered /\ ~missed /\ Chars(older, Len(older)) <= MaxChars)
            => Len(older) - read < Refresh

\* What is marked as summarized was seen by a summarizer (it was not: the mark
\* is set to the end of the older messages whatever part of them was shown).
MarkedWasRead == through <= read
=============================================================================
