---------------------------- MODULE IntervalSet ----------------------------
(***************************************************************************)
(* nth::interval_set (container/interval_set.h): a vector of intervals in  *)
(* increasing order.  An interval that is inserted swallows every interval *)
(* it overlaps or touches.  `+=` inserts the intervals of another set one  *)
(* after the other and starts each search where the last insertion left    *)
(* off; the other set may be the set itself.                               *)
(***************************************************************************)
EXTENDS Intervals, Sequences, FiniteSetsExt

CONSTANTS
    Sets,       \* the interval_set objects
    MaxKey,     \* bound: the largest bound of an interval
    None        \* no set

Bound == 0 .. MaxKey

VARIABLES
    intervals,  \* intervals_ of every set
    dest,       \* the set a call of += is adding to
    source,     \* its argument rhs
    iter,       \* the place in rhs it has come to
    start,      \* start_iter: where the next search starts
    members     \* history: the keys that were added to every set

adding == <<dest, source, iter, start>>
vars == <<intervals, adding, members>>

Init ==
    /\ intervals = [s \in Sets |-> <<>>]
    /\ dest = None /\ source = None
    /\ iter = 0 /\ start = 0
    /\ members = [s \in Sets |-> {}]

Idle == dest = None

\* std::partition_point: the first place from `from` on where Holds fails.
\* Every set is sorted, so that Holds never comes back after it failed.
PartitionPoint(s, from, Holds(_)) ==
    from + Cardinality({p \in from .. Len(s) : \A q \in from .. p : Holds(s[q])})

\* Mutant of LowerIter: an interval that only touches i stays by itself.
LowerIterTouching(s, from, i) == PartitionPoint(s, from, LAMBDA j : j.upper <= i.lower)

\* insert_hint: the intervals from `low` to before `high` touch i and become
\* one with it.
LowerIter(s, from, i) == PartitionPoint(s, from, LAMBDA j : j.upper < i.lower)
UpperIter(s, low, i) == PartitionPoint(s, low, LAMBDA j : j.lower <= i.upper)

\* Mutant of Hull: the upper bound of the last interval is forgotten.
HullOfFirst(s, low, high, i) ==
    Between(IF s[low].lower < i.lower THEN s[low].lower ELSE i.lower,
            IF s[low].upper > i.upper THEN s[low].upper ELSE i.upper)

\* The interval that takes the place of those from low to before high.
Hull(s, low, high, i) ==
    Between(IF s[low].lower < i.lower THEN s[low].lower ELSE i.lower,
            IF s[high - 1].upper > i.upper THEN s[high - 1].upper ELSE i.upper)

\* The vector after insert_hint, and the place that it returns.
Inserted(s, from, i) ==
    LET low == LowerIter(s, from, i)
        high == UpperIter(s, low, i)
    IN  SubSeq(s, 1, low - 1)
        \o <<IF low = high THEN i ELSE Hull(s, low, high, i)>>
        \o SubSeq(s, high, Len(s))

InsertedAt(s, from, i) == LowerIter(s, from, i)

Insert(s, i) ==
    /\ Idle
    /\ intervals' = [intervals EXCEPT ![s] = Inserted(@, 1, i)]
    /\ members' = [members EXCEPT ![s] = @ \union Keys(i)]
    /\ UNCHANGED adding

\* explicit interval_set(i)
Construct(s, i) ==
    /\ Idle
    /\ intervals' = [intervals EXCEPT ![s] = <<i>>]
    /\ members' = [members EXCEPT ![s] = Keys(i)]
    /\ UNCHANGED adding

-----------------------------------------------------------------------------
(* Unions.                                                                 *)

\* d += s begins.
Begin(d, s) ==
    /\ Idle
    /\ dest' = d /\ source' = s
    /\ iter' = 1 /\ start' = 1

AddAssign(d, s) == Begin(d, s) /\ UNCHANGED <<intervals, members>>

\* d = a + s: a copy of a is added to.
AddCopy(d, a, s) ==
    /\ d \notin {a, s} /\ Begin(d, s)
    /\ intervals' = [intervals EXCEPT ![d] = intervals[a]]
    /\ members' = [members EXCEPT ![d] = members[a]]

\* d = std::move(a) + s is a += s and then this: the vector of a becomes that
\* of d, and a is left empty.
Take(d, a) ==
    /\ Idle /\ d # a
    /\ intervals' = [intervals EXCEPT ![d] = intervals[a], ![a] = <<>>]
    /\ members' = [members EXCEPT ![d] = members[a], ![a] = {}]
    /\ UNCHANGED adding

\* Mutant of AddNext: the search for the next interval starts behind this one.
AddNextBehind ==
    /\ ~ Idle /\ iter <= Len(intervals[source])
    /\ LET i == intervals[source][iter]
       IN  /\ intervals' = [intervals EXCEPT ![dest] = Inserted(@, start, i)]
           /\ start' = InsertedAt(intervals[dest], start, i) + 1
           /\ members' = [members EXCEPT ![dest] = @ \union Keys(i)]
    /\ iter' = iter + 1
    /\ UNCHANGED <<dest, source>>

\* One turn of the loop of operator+=.
AddNext ==
    /\ ~ Idle /\ iter <= Len(intervals[source])
    /\ LET i == intervals[source][iter]
       IN  /\ intervals' = [intervals EXCEPT ![dest] = Inserted(@, start, i)]
           /\ start' = InsertedAt(intervals[dest], start, i)
           /\ members' = [members EXCEPT ![dest] = @ \union Keys(i)]
    /\ iter' = iter + 1
    /\ UNCHANGED <<dest, source>>

Added ==
    /\ ~ Idle /\ iter > Len(intervals[source])
    /\ dest' = None /\ source' = None
    /\ iter' = 0 /\ start' = 0
    /\ UNCHANGED <<intervals, members>>

Next ==
    \/ \E s \in Sets, i \in Interval(Bound) : Insert(s, i) \/ Construct(s, i)
    \/ \E d, s \in Sets : AddAssign(d, s) \/ Take(d, s)
    \/ \E d, a, s \in Sets : AddCopy(d, a, s)
    \/ AddNext
    \/ Added

Spec == Init /\ [][Next]_vars

-----------------------------------------------------------------------------
(* What a set answers.                                                     *)

Contains(s, k) ==
    LET p == PartitionPoint(s, 1, LAMBDA j : j.lower <= k)
    IN  p > 1 /\ k < s[p - 1].upper

\* Mutant of Covers: the last key of the interval may be missing.
CoversAllButLast(s, i) ==
    LET p == PartitionPoint(s, 1, LAMBDA j : j.lower <= i.lower)
    IN  p > 1 /\ i.upper <= s[p - 1].upper + 1

Covers(s, i) ==
    LET p == PartitionPoint(s, 1, LAMBDA j : j.lower <= i.lower)
    IN  p > 1 /\ i.upper <= s[p - 1].upper

Length(s) == MapThenSumSet(LAMBDA p : s[p].upper - s[p].lower, DOMAIN s)

-----------------------------------------------------------------------------
\* The intervals of a set stay sorted and neither touch nor overlap, in the
\* middle of a `+=` as well: contains, covers and the searches of insert_hint
\* are binary searches that rely on it.
Canonical ==
    \A s \in Sets :
       /\ intervals[s] \in Seq(Interval(Bound))
       /\ \A p, q \in DOMAIN intervals[s] :
             p < q => intervals[s][p].upper < intervals[s][q].lower

\* A set contains exactly the keys that were added to it, covers exactly the
\* intervals of such keys, and is as long as there are any (interval_set.h:36-58).
MembersExact ==
    \A s \in Sets :
       /\ \A k \in Bound : Contains(intervals[s], k) <=> k \in members[s]
       /\ \A i \in Interval(Bound) :
             ~ Empty(i) => (Covers(intervals[s], i) <=> Keys(i) \subseteq members[s])
       /\ Length(intervals[s]) = Cardinality(members[s])

\* Starting a search where the last insertion left off never misses anything,
\* and adding a set to itself changes nothing it still has to read: `+=` comes
\* to the union of the two sets.
UnionExact ==
    ~ Idle =>
       IF iter > Len(intervals[source])
       THEN members[source] \subseteq members[dest]
       ELSE LET i == intervals[source][iter]
                next == Inserted(intervals[dest], start, i)
            IN  /\ next = Inserted(intervals[dest], 1, i)
                /\ dest = source => next = intervals[dest]
=============================================================================
