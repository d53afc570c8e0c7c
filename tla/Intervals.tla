----------------------------- MODULE Intervals -----------------------------
(***************************************************************************)
(* nth::interval (container/interval.h): the keys from a lower bound up to *)
(* but not including an upper bound.  Keys are numbers.                    *)
(***************************************************************************)
EXTENDS Naturals

\* interval(l, u), which requires l <= u.
Interval(keys) == {i \in [lower : keys, upper : keys] : i.lower <= i.upper}
Between(l, u) == [lower |-> l, upper |-> u]

Empty(i) == i.lower = i.upper
Keys(i) == i.lower .. (i.upper - 1)

\* i.covers(j)
IntervalCovers(i, j) == i.lower <= j.lower /\ j.upper <= i.upper

\* The order in which a set or a map keeps its intervals.
Below(i, j) == i.lower < j.lower \/ (i.lower = j.lower /\ i.upper < j.upper)
=============================================================================
