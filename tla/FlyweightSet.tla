---------------------------- MODULE FlyweightSet ----------------------------
(***************************************************************************)
(* nth::flyweight_set (container/flyweight_set.h): a deque of distinct      *)
(* values in the order they were inserted, and a hash set of their indices *)
(* which hashes and compares an index as the value it stands for.  The     *)
(* hash set is external: a set that finds an index by that value.          *)
(* Places in the deque are counted from 1.                                 *)
(***************************************************************************)
EXTENDS Naturals, Sequences

CONSTANTS
    Sets,         \* the objects
    Values,       \* the values of elements
    Addresses,    \* where an element may lie
    MaxRange,     \* bound: elements given to a constructor
    Nothing       \* no value, no set and no index

ASSUME FlyweightAssumption ==
    Nothing \notin Values \union Sets \union Nat /\ MaxRange \in Nat

VARIABLES
    state,      \* "alive" or "gone"; "moved" until it is assigned or cleared
    values,     \* values_: where its elements lie
    index,      \* set_
    memory,     \* the elements
    filling,    \* the set that a range is inserted in
    rest,       \* what is left of the range
    pointers    \* history: to elements, as insert returned them

vars == <<state, values, index, memory, filling, rest, pointers>>

Free == {a \in Addresses : memory[a] = Nothing}
At(s, i) == memory[values[s][i]]
Elements(s) == {values[s][i] : i \in DOMAIN values[s]}

\* Only assignments, clear and the destructor may follow a move.
Usable(s) == filling = Nothing /\ state[s] = "alive"
Exists(s) == filling = Nothing /\ state[s] # "gone"

\* set_.find(v)
Found(s, v) == {i \in index[s] : At(s, i) = v}

Init ==
    /\ state = [s \in Sets |-> "gone"]
    /\ values = [s \in Sets |-> <<>>]
    /\ index = [s \in Sets |-> {}]
    /\ memory = [a \in Addresses |-> Nothing]
    /\ filling = Nothing /\ rest = <<>>
    /\ pointers = {}

\* What an object refers to ends with values_.clear() and ~flyweight_set().
Without(s) == [a \in Addresses |-> IF a \in Elements(s) THEN Nothing ELSE memory[a]]
PointersWithout(s) == {p \in pointers : p.set # s}

\* The constructors and the assignment that insert a range, in steps: a list,
\* and the elements of another set.
Fill(s, range) ==
    /\ state' = [state EXCEPT ![s] = "alive"]
    /\ values' = [values EXCEPT ![s] = <<>>]
    /\ index' = [index EXCEPT ![s] = {}]
    /\ memory' = Without(s)
    /\ pointers' = PointersWithout(s)
    /\ filling' = s /\ rest' = range

ValuesOf(s) == [i \in DOMAIN values[s] |-> At(s, i)]

Construct(s, range) == filling = Nothing /\ state[s] = "gone" /\ Fill(s, range)
CopyConstruct(s, other) == Usable(other) /\ Construct(s, ValuesOf(other))
\* Of a set to itself it would clear the set first.
CopyAssign(s, other) ==
    s # other /\ Exists(s) /\ Usable(other) /\ Fill(s, ValuesOf(other))

\* Mutant of InsertIn: the value is not looked up.
InsertInAnyway(s, v) ==
    \E a \in Free :
       /\ values' = [values EXCEPT ![s] = Append(@, a)]
       /\ memory' = [memory EXCEPT ![a] = v]
       /\ index' = [index EXCEPT ![s] = @ \union {Len(values[s]) + 1}]
       /\ pointers' = pointers \union
             {[set |-> s, at |-> a, value |-> v, index |-> Len(values[s]) + 1]}

\* insert: of a value that is there, nothing.
InsertIn(s, v) ==
    IF Found(s, v) # {} THEN UNCHANGED <<values, index, memory, pointers>>
    ELSE \E a \in Free :
            /\ values' = [values EXCEPT ![s] = Append(@, a)]
            /\ memory' = [memory EXCEPT ![a] = v]
            /\ index' = [index EXCEPT ![s] = @ \union {Len(values[s]) + 1}]
            /\ pointers' = pointers \union
                  {[set |-> s, at |-> a, value |-> v, index |-> Len(values[s]) + 1]}

Insert(s, v) == Usable(s) /\ InsertIn(s, v) /\ UNCHANGED <<state, filling, rest>>

FillNext ==
    /\ filling # Nothing /\ rest # <<>>
    /\ InsertIn(filling, Head(rest))
    /\ rest' = Tail(rest) /\ UNCHANGED <<state, filling>>
FillEnd ==
    /\ filling # Nothing /\ rest = <<>>
    /\ filling' = Nothing
    /\ UNCHANGED <<state, values, index, memory, rest, pointers>>

\* The elements go with the deque; the indices are inserted again, and stay
\* behind as well.
Take(s, other) ==
    /\ state' = [state EXCEPT ![s] = "alive", ![other] = "moved"]
    /\ values' = [values EXCEPT ![s] = values[other], ![other] = <<>>]
    /\ index' = [index EXCEPT ![s] = index[other]]
    /\ memory' = Without(s)
    /\ pointers' = {IF p.set = other THEN [p EXCEPT !.set = s] ELSE p :
                       p \in PointersWithout(s)}
    /\ UNCHANGED <<filling, rest>>

MoveConstruct(s, other) == s # other /\ Usable(other) /\ state[s] = "gone" /\ Take(s, other)
MoveAssign(s, other) == s # other /\ Usable(other) /\ Exists(s) /\ Take(s, other)

Reset(s, to) ==
    /\ Exists(s)
    /\ state' = [state EXCEPT ![s] = to]
    /\ values' = [values EXCEPT ![s] = <<>>]
    /\ index' = [index EXCEPT ![s] = {}]
    /\ memory' = Without(s)
    /\ pointers' = PointersWithout(s)
    /\ UNCHANGED <<filling, rest>>
Clear(s) == Reset(s, "alive")
Destroy(s) == Reset(s, "gone")

Ranges == UNION {[1 .. n -> Values] : n \in 0 .. MaxRange}

Next ==
    \/ \E s \in Sets :
          \/ \E range \in Ranges : Construct(s, range)
          \/ \E v \in Values : Insert(s, v)
          \/ Clear(s) \/ Destroy(s)
          \/ \E other \in Sets : \/ CopyConstruct(s, other) \/ CopyAssign(s, other)
                                 \/ MoveConstruct(s, other) \/ MoveAssign(s, other)
    \/ FillNext \/ FillEnd

Spec == Init /\ [][Next]_vars

-----------------------------------------------------------------------------
\* index(v), from_index, front and back; an iterator is where an element lies.
IndexOf(s, v) ==
    IF Found(s, v) = {} THEN Nothing ELSE CHOOSE i \in Found(s, v) : TRUE
Position(s, a) == CHOOSE i \in DOMAIN values[s] : values[s][i] = a

TypeOK ==
    /\ state \in [Sets -> {"alive", "gone", "moved"}]
    /\ values \in [Sets -> Seq(Addresses)]
    /\ index \in [Sets -> SUBSET (Nat \ {0})]
    /\ memory \in [Addresses -> Values \union {Nothing}]
    /\ filling \in Sets \union {Nothing}
    /\ rest \in Seq(Values)
    /\ pointers \subseteq [set : Sets, at : Addresses, value : Values, index : Nat \ {0}]

\* Two elements, of one set or of two, do not lie in one place, and where an
\* element lies there is a value.
OnePlace ==
    \A s, t \in Sets : \A i \in DOMAIN values[s], j \in DOMAIN values[t] :
       /\ At(s, i) \in Values
       /\ values[s][i] = values[t][j] => s = t /\ i = j

\* Whenever a set may be used, its hash set has just the indices of its deque.
IndexComplete == \A s \in Sets : state[s] # "moved" => index[s] = DOMAIN values[s]

\* "the keys are guaranteed to be distinct" (flyweight_set.h:14-15), in ranges
\* that repeat a value too.
Distinct ==
    \A s \in Sets : \A i, j \in DOMAIN values[s] : At(s, i) = At(s, j) => i = j

\* "Pointers to elements in the container are never invalidated other than by
\* assignment or calls to clear.  Iteration occurs in the order the elements
\* are inserted" (flyweight_set.h:15-17): a pointer refers to the value that was
\* inserted, at the index it had then, across insertions and moves of the set.
PointersStable ==
    \A p \in pointers :
       /\ p.index \in DOMAIN values[p.set]
       /\ values[p.set][p.index] = p.at
       /\ memory[p.at] = p.value

\* The members agree: find and index answer for just the values there are,
\* with an index under which from_index finds the value, and index the index.
AnswersExact ==
    \A s \in Sets, v \in Values : state[s] # "moved" =>
       LET i == IndexOf(s, v)
       IN  IF i = Nothing THEN v \notin {At(s, j) : j \in DOMAIN values[s]}
           ELSE At(s, i) = v /\ Position(s, values[s][i]) = i

FillingAlive == filling # Nothing => state[filling] = "alive"

IInv == TypeOK /\ FillingAlive /\ OnePlace /\ IndexComplete /\ Distinct /\ PointersStable
=============================================================================
