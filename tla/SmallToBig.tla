----------------------------- MODULE SmallToBig -----------------------------
(***************************************************************************)
(* The two texts of a chunk (indexer/context_assembler.py): the short one   *)
(* is embedded, the long one, with the end of the chunk before it and the   *)
(* start of the one after it, is what a search shows.  A text is its length *)
(* in characters, wide (Chinese) or not; where a sentence ends before a     *)
(* cut, and so how much less is kept, is an input.  A pure function.        *)
(***************************************************************************)
EXTENDS Integers, Sequences, FiniteSets, SequencesExt, Folds

CONSTANTS Bundles  \* inputs: [chunks, at, short, long, window, slack, slip]

VARIABLES bundle, texts
smallVars == <<bundle, texts>>

Beside  == 150   \* tokens of a neighbour
Nothing == 0     \* the chunk named by a missing link

\* A piece is [who, from, len, wide]; 0 is the text that joins two pieces.
Piece(who, from, len, wide) == [who |-> who, from |-> from, len |-> len, wide |-> wide]
Joint(len)    == Piece(Nothing, 0, len, FALSE)
Chars(pieces) == FoldSeq(LAMBDA p, n : p.len + n, 0, pieces)
\* A character of Chinese is 0.6 tokens, another one a quarter of a token.
Tokens(pieces) == FoldSeq(LAMBDA p, n : (IF p.wide THEN 60 ELSE 25) * p.len + n, 0, pieces) \div 100

\* 2.8 characters to a token, whatever they are, back to the end of a sentence.
Fits(pieces, max) == Tokens(pieces) <= max \/ (28 * max) \div 10 >= Chars(pieces)
Keep(pieces, max, slack) ==
    IF Fits(pieces, max) THEN Chars(pieces)
    ELSE IF (28 * max) \div 10 < slack THEN 0 ELSE (28 * max) \div 10 - slack
CutAt(pieces, n) ==
    LET upTo(i) == Chars(SubSeq(pieces, 1, i - 1))
        left(i) == IF n <= upTo(i) THEN 0
                   ELSE IF n - upTo(i) < pieces[i].len THEN n - upTo(i) ELSE pieces[i].len
    IN  SelectSeq([i \in DOMAIN pieces |-> [pieces[i] EXCEPT !.len = left(i)]], LAMBDA p : p.len > 0)

Whole(b, i) == Piece(i, 0, b.chunks[i].len, b.chunks[i].wide)
\* Mutant: the end of a neighbour is all of it.
TailAll(b, i) == Whole(b, i)
TailOf(b, i) ==
    LET n == b.chunks[i].len
    IN  IF Tokens(<<Whole(b, i)>>) <= Beside \/ n <= (35 * Beside) \div 10 THEN Whole(b, i)
        ELSE Piece(i, n - (35 * Beside) \div 10, (35 * Beside) \div 10, b.chunks[i].wide)
HeadOf(b, i) == Piece(i, 0, Keep(<<Whole(b, i)>>, Beside, b.slack), b.chunks[i].wide)

Links(b, side) == [i \in DOMAIN b.chunks |-> b.chunks[i][side]]
\* The chunks on one side, nearest first, until a link is missing.
Chain(b, link) ==
    LET walk[n \in 0..b.window] ==
            IF n = 0 THEN <<b.at>>
            ELSE LET far == link[Last(walk[n - 1])]
                 IN  IF Len(walk[n - 1]) < n \/ far \notin DOMAIN b.chunks THEN walk[n - 1]
                     ELSE Append(walk[n - 1], far)
    IN  SubSeq(walk[b.window], 2, Len(walk[b.window]))

Joined(pieces, len) ==
    [n \in 1..(IF pieces = <<>> THEN 0 ELSE 2 * Len(pieces) - 1) |->
        IF n % 2 = 1 THEN pieces[(n + 1) \div 2] ELSE Joint(len)]
Filled(pieces) == SelectSeq(pieces, LAMBDA p : p.len > 0)

\* Mutant: the ends of the chunks before stay nearest first.
AroundNearest(b) ==
    LET before == Chain(b, Links(b, "prev"))
        after  == Chain(b, Links(b, "next"))
    IN  <<Joined(Filled([n \in DOMAIN before |-> TailOf(b, before[n])]), 5), <<Whole(b, b.at)>>,
          Joined(Filled([n \in DOMAIN after |-> HeadOf(b, after[n])]), 5)>>
Around(b) ==
    LET before == Reverse(Chain(b, Links(b, "prev")))
        after  == Chain(b, Links(b, "next"))
    IN  <<Joined(Filled([n \in DOMAIN before |-> TailOf(b, before[n])]), 5), <<Whole(b, b.at)>>,
          Joined(Filled([n \in DOMAIN after |-> HeadOf(b, after[n])]), 5)>>

\* Only running text has neighbours.
Generation(b) ==
    IF ~b.chunks[b.at].body THEN <<Whole(b, b.at)>>
    ELSE LET parts == SelectSeq(Around(b), LAMBDA p : p # <<>>)
         IN  FlattenSeq([n \in 1..(2 * Len(parts) - 1) |-> IF n % 2 = 1 THEN parts[(n + 1) \div 2] ELSE <<Joint(2)>>])

Assemble(b) ==
    [embedded |-> Keep(<<Whole(b, b.at)>>, b.short, b.slack),
     shown    |-> CutAt(Generation(b), Keep(Generation(b), b.long, b.slip))]

Unassembled == [embedded |-> 0, shown |-> <<>>]
Init == bundle \in Bundles /\ texts = Unassembled
Next == texts = Unassembled /\ texts' = Assemble(bundle) /\ UNCHANGED bundle

-----------------------------------------------------------------------------
Own == SelectSeq(texts.shown, LAMBDA p : p.who = bundle.at)

\* What was embedded is shown: the ends of the chunks before it never push out
\* of the long text what the search matched (context_assembler.py 112-142).
EmbeddedShown ==
    texts.embedded > 0 =>
        \E n \in DOMAIN texts.shown : texts.shown[n].who = bundle.at /\ texts.shown[n].len >= texts.embedded

\* The pieces stand as they do in the paper, and what stands directly before and
\* after the chunk's own text adjoins it there (context_assembler.py 155-222).
InPaperOrder ==
    LET real == SelectSeq(texts.shown, LAMBDA p : p.who # Nothing)
    IN  /\ \A m, n \in DOMAIN real : m < n => real[m].who < real[n].who
        /\ \A n \in DOMAIN real : real[n].who < bundle.at =>
              real[n].from + real[n].len = bundle.chunks[real[n].who].len
        /\ \A n \in DOMAIN real : real[n].who >= bundle.at => real[n].from = 0

\* However wide its characters are, a long text costs at most 1.7 times its
\* limit in tokens (the cut counts characters: context_assembler.py 40-63).
TokensBounded == 10 * Tokens(texts.shown) <= 17 * bundle.long + 10

AssembledSound == EmbeddedShown /\ InPaperOrder /\ TokensBounded
=============================================================================
