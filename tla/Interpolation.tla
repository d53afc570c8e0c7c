--------------------------- MODULE Interpolation ---------------------------
(***************************************************************************)
(* interpolate<S>(w, values...) (format/interpolate.h): the placeholders   *)
(* of S are found once, from the right (format/internal/                   *)
(* parameter_range.h), those inside a placeholder too; then the values are *)
(* written in their places.  Offsets count from 0, as in the code.         *)
(***************************************************************************)
EXTENDS Integers, Sequences, SequencesExt

CONSTANT Strings    \* the interpolation strings: every '{' has its '}'

VARIABLES
    string,         \* S
    left,           \* characters that populate_tree has not seen
    ranges,         \* the placeholders found, from range_ptr on
    workspace,      \* offsets of the '}' whose '{' is still to come
    start,          \* what is written of S
    written         \* history: characters, and the values with their formats

vars == <<string, left, ranges, workspace, start, written>>

Init ==
    /\ string \in Strings
    /\ left = Len(string)
    /\ ranges = <<>> /\ workspace = <<>>
    /\ start = 0 /\ written = <<>>

\* s.substr(from, count) stops at the end of s.
Least(a, b) == IF a < b THEN a ELSE b
Substr(s, from, count) == SubSeq(s, from + 1, Least(Len(s), from + count))

\* end() of a range.
RangeEnd(range) == range.start + range.length

\* Mutant of RangeWidth: the placeholders inside are not passed over.
RangeWidthAlone(range) == 1

\* How far the next placeholder that is not inside `range` lies behind it.
RangeWidth(range) ==
    LET outside == {p \in DOMAIN ranges : RangeEnd(ranges[p]) >= RangeEnd(range)}
    IN  1 + (IF outside = {} THEN Len(ranges)
             ELSE (CHOOSE p \in outside : \A q \in outside : p <= q) - 1)

\* One character of populate_tree, the last it has not seen.
Populate ==
    /\ left > 0
    /\ left' = left - 1
    /\ CASE string[left] = "}" ->
              workspace' = Append(workspace, left - 1) /\ UNCHANGED ranges
         [] string[left] = "{" ->
              LET range == [start |-> left, length |-> Last(workspace) - left]
              IN  /\ workspace' = Front(workspace)
                  /\ ranges' = <<[start |-> left, length |-> range.length,
                                  width |-> RangeWidth(range)]>> \o ranges
         [] OTHER -> UNCHANGED <<workspace, ranges>>
    /\ UNCHANGED <<string, start, written>>

\* How many values there must be: braces that open outside of all others.
placeholders(s) ==
    LET Counted(sum, c) ==
          CASE c = "{" -> [sum EXCEPT !.nesting = @ + 1,
                                      !.i = @ + (IF sum.nesting = 0 THEN 1 ELSE 0)]
            [] c = "}" -> [sum EXCEPT !.nesting = @ - 1]
            [] OTHER -> sum
    IN  FoldLeft(Counted, [i |-> 0, nesting |-> 0], s).i

\* placeholder_range<N>()
placeholder_range(n) ==
    LET p[k \in 0 .. n] == IF k = 0 THEN 1 ELSE p[k - 1] + ranges[p[k - 1]].width
    IN  ranges[p[n]]

Text(s) == [k \in DOMAIN s |-> [value |-> -1, text |-> <<s[k]>>]]
Formatted(n, spec) == <<[value |-> n, text |-> spec]>>

\* How many values are written.
ValueCount == Len(SelectSeq(written, LAMBDA piece : piece.value >= 0))

\* The next value: what of S stands before its placeholder, and the value, in
\* the format that the placeholder holds.
WriteValue ==
    /\ left = 0 /\ start <= Len(string) /\ ValueCount < placeholders(string)
    /\ LET r == placeholder_range(ValueCount)
       IN  /\ written' = written \o Text(Substr(string, start, r.start - 1 - start))
                         \o Formatted(ValueCount, Substr(string, r.start, r.length))
           /\ start' = r.start + r.length + 1
    /\ UNCHANGED <<string, left, ranges, workspace>>

\* The rest of S.
WriteRest ==
    /\ left = 0 /\ start <= Len(string) /\ ValueCount = placeholders(string)
    /\ written' = written \o Text(Substr(string, start, Len(string)))
    /\ start' = Len(string) + 1
    /\ UNCHANGED <<string, left, ranges, workspace>>

Next == Populate \/ WriteValue \/ WriteRest
Spec == Init /\ [][Next]_vars

-----------------------------------------------------------------------------
\* What the documentation says (interpolate.h:197-203), from the left: the
\* topmost pairs of matching braces are replaced by the values, in order.
Replaced ==
    LET Read(sum, c) ==
          LET inside == [sum EXCEPT !.format = Append(@, c)]
              nested == [inside EXCEPT !.nesting = @ + (IF c = "{" THEN 1
                                                        ELSE IF c = "}" THEN -1 ELSE 0)]
          IN  CASE sum.nesting = 0 /\ c = "{" -> [sum EXCEPT !.nesting = 1, !.format = <<>>]
                [] sum.nesting = 0 /\ c # "{" -> [sum EXCEPT !.out = @ \o Text(<<c>>)]
                [] sum.nesting = 1 /\ c = "}" ->
                     [sum EXCEPT !.nesting = 0, !.n = @ + 1,
                                 !.out = @ \o Formatted(sum.n, sum.format)]
                [] OTHER -> nested
    IN  FoldLeft(Read, [out |-> <<>>, n |-> 0, nesting |-> 0,
                                          format |-> <<>>], string).out

\* What is written is S with its topmost placeholders replaced, at every moment
\* as far as it is written, and all of it in the end; no value is left over.
InterpolationExact ==
    /\ IsPrefix(written, Replaced)
    /\ start > Len(string) => written = Replaced
=============================================================================
