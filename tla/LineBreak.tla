------------------------------ MODULE LineBreak ------------------------------
(* GreedyLineBreak (strings/text.cc), called until nothing is left.        *)
EXTENDS Integers, Sequences

CONSTANTS Texts, Widths     \* characters are " " or not

VARIABLES
    text,           \* what is left
    line_width,
    running,        \* in a call
    first_word_start, last_word_end, last_word_start,   \* of a call
    original,       \* history: the text
    lines           \* history: [from, to] of what was returned, in the original

vars == <<text, line_width, running, first_word_start, last_word_end, last_word_start,
          original, lines>>

Init ==
    /\ original \in Texts
    /\ text = original
    /\ line_width \in Widths
    /\ running = FALSE
    /\ first_word_start = 0 /\ last_word_end = 0 /\ last_word_start = 0
    /\ lines = <<>>

Least(S) == CHOOSE x \in S : \A y \in S : x <= y
Greatest(S) == CHOOSE x \in S : \A y \in S : y <= x

\* Offsets from 0; the end of the text is Len(text).
isspace(p) == text[p + 1] = " "
SkipSpace(p) == Least({q \in p .. Len(text) : q = Len(text) \/ ~isspace(q)})
SkipWord(p) == Least({q \in p .. Len(text) : q = Len(text) \/ isspace(q)})

\* A call returns [from, to), and leaves what is behind rest.
Return(from, to, rest) ==
    /\ lines' = LET at == Len(original) - Len(text)
                IN  Append(lines, [from |-> at + from, to |-> at + to])
    /\ text' = SubSeq(text, rest + 1, Len(text))
    /\ running' = FALSE
    /\ UNCHANGED <<line_width, first_word_start, last_word_end, last_word_start, original>>

\* There is no word.
OnlySpace ==
    /\ ~running /\ text # <<>> /\ SkipSpace(0) = Len(text)
    /\ Return(Len(text), Len(text), Len(text))

\* A call begins at the first word.
GreedyLineBreak ==
    /\ ~running /\ text # <<>> /\ SkipSpace(0) # Len(text)
    /\ running' = TRUE
    /\ first_word_start' = SkipSpace(0)
    /\ last_word_end' = SkipSpace(0) /\ last_word_start' = SkipSpace(0)
    /\ UNCHANGED <<text, line_width, original, lines>>

next_word_end == SkipWord(last_word_start)
next_word_start == SkipSpace(next_word_end)

\* Mutant of Fits: a line as long as the width is taken to be too long.
FitsWithin == next_word_end - first_word_start < line_width

Fits == next_word_end - first_word_start <= line_width

\* The next word is on the line.
NextWord ==
    /\ running /\ Fits /\ next_word_start # Len(text)
    /\ last_word_end' = next_word_end /\ last_word_start' = next_word_start
    /\ UNCHANGED <<text, line_width, running, first_word_start, original, lines>>

\* It is not: the line ends before it, unless it is the first.
Full ==
    /\ running /\ ~Fits
    /\ IF last_word_end = first_word_start
         THEN Return(first_word_start, next_word_end, next_word_start)
         ELSE Return(first_word_start, last_word_end, last_word_start)

\* The text ends with it.
End ==
    /\ running /\ Fits /\ next_word_start = Len(text)
    /\ Return(first_word_start, next_word_end, Len(text))

Next == OnlySpace \/ GreedyLineBreak \/ NextWord \/ Full \/ End
Spec == Init /\ [][Next]_vars

-----------------------------------------------------------------------------
Space(k) == original[k] = " "

\* Where words end, from 1, and where the text after offset `from` has its
\* first character that is no whitespace.
WordEnds == {k \in DOMAIN original : ~Space(k) /\ (k = Len(original) \/ Space(k + 1))}
Blank(from, to) == \A k \in from + 1 .. to : Space(k)

\* What text.h:10-26 says of every line: nothing but whitespace before it, it
\* starts and ends with a word, and is the longest that fits, or else one word.
LineExact(line, before) ==
    LET behind == {k \in WordEnds : k > line.from}
        fitting == {k \in behind : k - line.from <= line_width}
    IN  /\ Blank(before, line.from)
        /\ IF line.from = line.to
             THEN line.to = Len(original)
             ELSE /\ ~Space(line.from + 1)
                  /\ line.to = IF fitting # {} THEN Greatest(fitting) ELSE Least(behind)

\* Behind the last line only whitespace is gone.
LinesExact ==
    /\ \A n \in DOMAIN lines :
         LineExact(lines[n], IF n = 1 THEN 0 ELSE lines[n - 1].to)
    /\ lines # <<>> =>
         /\ Blank(lines[Len(lines)].to, Len(original) - Len(text))
         /\ text # <<>> => Head(text) # " "
=============================================================================
