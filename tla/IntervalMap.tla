---------------------------- MODULE IntervalMap ----------------------------
(***************************************************************************)
(* nth::interval_map (container/interval_map.h): an ordered map from       *)
(* intervals of keys to values.  insert_or_assign changes the entries the  *)
(* new interval meets: it erases, narrows and widens them.                 *)
(***************************************************************************)
EXTENDS Intervals, FiniteSets

CONSTANTS
    Values,     \* the mapped values
    MaxKey,     \* bound: the largest bound of an interval
    End         \* end(), and a null pointer

Bound == 0 .. MaxKey
Proper == {i \in Interval(Bound) : ~ Empty(i)}

VARIABLE
    entries     \* intervals_: a function from the intervals to their values
vars == entries

Init == entries = [i \in {} |-> End]

\* The first and the last of some intervals in the order of the map.
First(S) == IF S = {} THEN End ELSE CHOOSE i \in S : \A j \in S : j = i \/ Below(i, j)
Latest(S) == IF S = {} THEN End ELSE CHOOSE i \in S : \A j \in S : j = i \/ Below(j, i)

FirstStartingAfter(m, k) == First({i \in DOMAIN m : i.lower > k})

\* emplace, emplace_hint, insert: an interval that is there keeps its value.
Put(m, i, v) == [j \in DOMAIN m \union {i} |-> IF j \in DOMAIN m THEN m[j] ELSE v]
Erase(m, S) == [j \in DOMAIN m \ S |-> m[j]]

\* Mutant of Resize: an entry of which nothing is left is inserted again.
ResizeEmpty(m, j, to) == Put(Erase(m, {j}), to, m[j])

\* extract, a new bound, and insert again; or not, if nothing is left of it.
Resize(m, j, to) ==
    IF Empty(to) THEN Erase(m, {j}) ELSE Put(Erase(m, {j}), to, m[j])

\* The first half of insert_or_assign: the entries behind the beginning of i.
\* `at` is where it leaves inserted_iter.
Inserting(m, i, v) ==
    LET start == FirstStartingAfter(m, i.lower)
        Emplaced(n) == [map |-> Put(n, i, v), at |-> i]
        Widened(n, j) == LET to == Between(i.lower, j.upper)
                         IN  [map |-> Resize(n, j, to), at |-> to]
        swallowed == {j \in DOMAIN m : ~ Below(j, start) /\ j.lower < i.upper}
        rest == Erase(m, swallowed)
        next == First({j \in DOMAIN rest : Below(start, j)})
    IN  CASE start = End \/ start.lower > i.upper -> Emplaced(m)
          [] start # End /\ start.lower <= i.upper /\ start.upper > i.upper ->
                IF m[start] = v THEN Widened(m, start)
                ELSE IF start.lower = i.upper THEN Emplaced(m)
                ELSE Emplaced(Resize(m, start, Between(i.upper, start.upper)))
          [] OTHER ->
                IF next # End /\ rest[next] = v THEN Widened(rest, next)
                ELSE Emplaced(rest)

\* Mutant of Joined: the two values are not compared.
JoinedUnequal(m, at, i) ==
    LET prev == Latest({j \in DOMAIN m : Below(j, at)})
    IN  IF prev = End \/ prev.upper < at.lower THEN m
        ELSE Resize(Erase(m, {at}), prev, Between(prev.lower, at.upper))

\* The second half: the entry before it.
Joined(m, at, i) ==
    LET prev == Latest({j \in DOMAIN m : Below(j, at)})
    IN  IF prev = End \/ prev.upper < at.lower THEN m
        ELSE IF m[prev] = m[at]
        THEN Resize(Erase(m, {at}), prev, Between(prev.lower, at.upper))
        ELSE Resize(m, prev, Between(prev.lower, i.lower))

Assigned(m, i, v) ==
    LET r == Inserting(m, i, v) IN Joined(r.map, r.at, i)

InsertOrAssign(i, v) == entries' = Assigned(entries, i, v)

Next == \E i \in Proper, v \in Values : InsertOrAssign(i, v)

Spec == Init /\ [][Next]_vars

-----------------------------------------------------------------------------
(* What a map answers.                                                     *)

\* RangeContaining, key_range and mapped_range: the first entry that does not
\* end below k, if it contains k.
RangeContaining(m, k) ==
    LET iter == First({i \in DOMAIN m : ~ i.upper < k})
    IN  IF iter # End /\ iter.lower <= k /\ k < iter.upper THEN iter ELSE End

Contains(m, k) == RangeContaining(m, k) # End

\* What the entries say, looked at one by one.
Mapped(m, k) == {m[i] : i \in {j \in DOMAIN m : k \in Keys(j)}}

-----------------------------------------------------------------------------
\* Whatever is inserted, in whatever state, the bounds that are moved stay in
\* order, as interval's NTH_REQUIREs ask (interval.h:68, :76), and nothing is
\* left of an entry that is used up.
BoundsInOrder == \A i \in DOMAIN entries : i \in Proper

\* An interval that meets no key of the map is added with its value, whatever
\* it touches, and every other key keeps what it was mapped to.
FreeInsertExact ==
    [][\A i \in Proper, v \in Values :
          /\ \A k \in Keys(i) : Mapped(entries, k) = {}
          /\ InsertOrAssign(i, v)
          => \A k \in Bound :
                Mapped(entries', k) = IF k \in Keys(i) THEN {v} ELSE Mapped(entries, k)]_vars

\* "Their associated values will be v if the key is contained in i and the
\* value it was previously otherwise" (interval_map.h:56-59).
AssignExact ==
    [][\A i \in Proper, v \in Values : InsertOrAssign(i, v) =>
          \A k \in Bound :
             Mapped(entries', k) = IF k \in Keys(i) THEN {v} ELSE Mapped(entries, k)]_vars

\* "Returns true if and only if the element v is contained in at one of the
\* intervals in the set" (interval_map.h:41-42).
ContainsExact == \A k \in Bound : Contains(entries, k) <=> Mapped(entries, k) # {}
=============================================================================
