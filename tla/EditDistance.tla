---------------------------- MODULE EditDistance ----------------------------
(* LevenshteinDistance (strings/edit_distance.cc): one row of the table of *)
(* distances, rewritten for each character of the longer string.           *)
EXTENDS Integers, Sequences, FiniteSets

CONSTANT Inputs     \* pairs of strings

VARIABLES
    small, big,     \* the strings, the shorter one first
    buffer,         \* the row, from index 0
    previous,       \* what the row had where it was last written
    i, j            \* the loops

vars == <<small, big, buffer, previous, i, j>>

\* The strings are swapped; the row of the empty prefix of big.
Init ==
    \E input \in Inputs :
      /\ small = IF Len(input[1]) > Len(input[2]) THEN input[2] ELSE input[1]
      /\ big = IF Len(input[1]) > Len(input[2]) THEN input[1] ELSE input[2]
      /\ buffer = [k \in 0 .. Len(small) |-> k]
      /\ previous = 0 /\ i = 0 /\ j = Len(small)

\* The next row: big[i].
NextRow ==
    /\ j = Len(small) /\ i < Len(big) /\ small # <<>>
    /\ i' = i + 1 /\ j' = 0
    /\ previous' = buffer[0]
    /\ buffer' = [buffer EXCEPT ![0] = i + 1]
    /\ UNCHANGED <<small, big>>

Least(S) == CHOOSE x \in S : \A y \in S : x <= y

\* Mutant of Cheapest: the entry on the left is taken for the one above it.
CheapestTwice == Least({buffer[j] + 1,
                      previous + (IF small[j + 1] # big[i] THEN 1 ELSE 0)})

Cheapest == Least({buffer[j] + 1, buffer[j + 1] + 1,
                 previous + (IF small[j + 1] # big[i] THEN 1 ELSE 0)})

\* The next entry of the row.
NextEntry ==
    /\ i > 0 /\ j < Len(small)
    /\ j' = j + 1
    /\ previous' = buffer[j + 1]
    /\ buffer' = [buffer EXCEPT ![j + 1] = Cheapest]
    /\ UNCHANGED <<small, big, i>>

Next == NextRow \/ NextEntry
Spec == Init /\ [][Next]_vars

\* An empty string is as far away as the other is long.
Distance == IF small = <<>> THEN Len(big) ELSE buffer[Len(small)]
Returned == small = <<>> \/ (i = Len(big) /\ j = Len(small))

-----------------------------------------------------------------------------
\* The fewest insertions, deletions and replacements (edit_distance.h): over
\* all ways to keep or to replace characters in order, those that are not kept.
Aligned(m) == \A p, q \in m : (p[1] < q[1]) = (p[2] < q[2])
Fewest(s, t) ==
    LET Edits(m) == Len(s) + Len(t) - 2 * Cardinality(m)
                      + Cardinality({p \in m : s[p[1]] # t[p[2]]})
    IN  Least({Edits(m) : m \in {m \in SUBSET ((DOMAIN s) \X (DOMAIN t)) : Aligned(m)}})

\* While the row is rewritten, the entry last written is the distance of the
\* prefixes it stands for, and what is returned that of the strings.
DistanceExact ==
    /\ i > 0 => buffer[j] = Fewest(SubSeq(small, 1, j), SubSeq(big, 1, i))
    /\ Returned => Distance = Fewest(small, big)
=============================================================================
