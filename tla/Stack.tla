------------------------------- MODULE Stack -------------------------------
(***************************************************************************)
(* The stack (container/stack.h).                                          *)
(*                                                                         *)
(* A stack keeps two words: a pointer to where the next element goes, and  *)
(* the number of elements that still fit.  How many there are it finds by  *)
(* way of a third word, the capacity, which it wrote at the end of its     *)
(* buffer: at the first aligned address behind the room for elements.  All *)
(* of that must agree for every size and alignment of the elements.        *)
(*                                                                         *)
(* A buffer is a record of its size in bytes, the elements that are alive  *)
(* in it, and the capacity with the address it was written to.             *)
(***************************************************************************)
EXTENDS Integers, Sequences, SequencesExt, FiniteSetsExt

CONSTANTS
    Stacks,        \* the objects
    Values,        \* the elements
    Layouts,       \* <<sizeof(T), alignof(T)>> of the types of elements
    Word,          \* sizeof(size_type), which is also its alignment
    MaxElements,   \* bound: elements of a stack
    MaxReserve,    \* bound: what reserve is asked for
    MaxBuffers,    \* bound: buffers that somebody can still reach
    None           \* no buffer, and what is not a capacity

Buffers == 1 .. MaxBuffers

VARIABLES
    layout,     \* of value_type
    buffers,    \* what the program has allocated
    object,     \* whether an object is alive
    next,       \* next_ of a stack: a buffer and a place in it, or nullptr
    left,       \* left_ of a stack
    loose,      \* what release returned: next_ and left_, and `pushed`
    pushed      \* history: the elements a stack should have

vars == <<layout, buffers, object, next, left, loose, pushed>>

-----------------------------------------------------------------------------
(* Sizes.                                                                  *)

Size == layout[1]
Alignment == layout[2]

RoundDown(n, unit) == (n \div unit) * unit
RoundUp(n, unit) == RoundDown(n + unit - 1, unit)
\* n | (unit - 1), for a power of two.
OrBelow(n, unit) == RoundDown(n, unit) + unit - 1

CapacityOffset(bytes) == RoundDown(bytes, Word) - Word

\* Mutant of BufferSize: no room for the capacity.
BufferSizeOfElements(cap) == OrBelow(OrBelow(cap * Size - 1, Word), Alignment) + 1

BufferSize(cap) == OrBelow(OrBelow(cap * Size - 1, Word) + Word, Alignment) + 1

\* Where a stack looks for its capacity: behind the room for `n` elements.
CapacityAddress(n) == RoundUp(n * Size, Word)

NullPointer == [buffer |-> None, at |-> 0]
Start(b) == [buffer |-> b, at |-> 0]
BufferOf(s) == buffers[next[s].buffer]

\* *capacity_address(): what lies elsewhere is no capacity.
Capacity(s) ==
    IF BufferOf(s).word = CapacityAddress(next[s].at + left[s])
        THEN BufferOf(s).capacity
        ELSE None
SizeOf(s) == Capacity(s) - left[s]

\* The elements [next_ - size(), next_).
Elements(s) ==
    SubSeq(BufferOf(s).values, next[s].at - SizeOf(s) + 1, next[s].at)

Buffer(bytes, values, cap, spare) ==
    [bytes |-> bytes, values |-> values, capacity |-> cap,
     word |-> CapacityAddress(Len(values) + spare)]

\* The buffers when that of `s` is gone, and one that operator new may return
\* then.  A buffer nobody can reach is out of the model.
Without(s) == [b \in Buffers |-> IF b = next[s].buffer THEN None ELSE buffers[b]]
Unused(s) == {b \in Buffers : Without(s)[b] = None}
Fresh(s) == Min(Unused(s))

Usable(s) == object[s] /\ next[s] # NullPointer

-----------------------------------------------------------------------------
Nothing == [next |-> NullPointer, left |-> 0, pushed |-> <<>>]

Init ==
    /\ layout \in Layouts
    /\ buffers = [b \in Buffers |-> None]
    /\ object = [s \in Stacks |-> FALSE]
    /\ next = [s \in Stacks |-> NullPointer]
    /\ left = [s \in Stacks |-> 0]
    /\ loose = Nothing
    /\ pushed = [s \in Stacks |-> <<>>]

\* stack()
Construct(s) ==
    LET cap == CapacityOffset(BufferSize(1)) \div Size
    IN  /\ ~ object[s] /\ Unused(s) # {}
        /\ object' = [object EXCEPT ![s] = TRUE]
        /\ buffers' = [buffers EXCEPT ![Fresh(s)] = Buffer(BufferSize(1), <<>>, cap, cap)]
        /\ next' = [next EXCEPT ![s] = Start(Fresh(s))]
        /\ left' = [left EXCEPT ![s] = cap]
        /\ UNCHANGED <<layout, loose, pushed>>

\* A buffer of its own for a copy of `source`, with as much room.  A stack
\* that is assigned forgets the buffer it had, which is lost with its elements.
CopyTo(s, source) ==
    LET cap == Capacity(source)
    IN  /\ Unused(s) # {}
        /\ object' = [object EXCEPT ![s] = TRUE]
        /\ buffers' = [Without(s) EXCEPT ![Fresh(s)] =
                          Buffer(BufferSize(cap), Elements(source), cap, left[source])]
        /\ next' = [next EXCEPT ![s] =
                       [buffer |-> Fresh(s), at |-> Len(Elements(source))]]
        /\ left' = [left EXCEPT ![s] = left[source]]
        /\ pushed' = [pushed EXCEPT ![s] = pushed[source]]
        /\ UNCHANGED <<layout, loose>>

\* A stack assigned to itself would read the buffer it has just allocated;
\* moved to itself it stays what it is.
CopyConstruct(s, source) == ~ object[s] /\ Usable(source) /\ CopyTo(s, source)
CopyAssign(s, source) == s # source /\ object[s] /\ Usable(source) /\ CopyTo(s, source)

\* Mutant of MoveTo: the source keeps its buffer.
MoveToShared(s, source) ==
    /\ object' = [object EXCEPT ![s] = TRUE]
    /\ buffers' = Without(s)
    /\ next' = [next EXCEPT ![s] = next[source]]
    /\ left' = [left EXCEPT ![s] = left[source]]
    /\ pushed' = [pushed EXCEPT ![s] = pushed[source]]
    /\ UNCHANGED <<layout, loose>>

\* std::exchange of both words; what a stack had that is assigned is lost.
MoveTo(s, source) ==
    /\ object' = [object EXCEPT ![s] = TRUE]
    /\ buffers' = Without(s)
    /\ next' = [next EXCEPT ![s] = next[source], ![source] = NullPointer]
    /\ left' = [left EXCEPT ![s] = left[source], ![source] = 0]
    /\ pushed' = [pushed EXCEPT ![s] = pushed[source], ![source] = <<>>]
    /\ UNCHANGED <<layout, loose>>

MoveConstruct(s, source) == ~ object[s] /\ object[source] /\ MoveTo(s, source)
MoveAssign(s, source) == s # source /\ object[s] /\ object[source] /\ MoveTo(s, source)

\* ~stack()
Destroy(s) ==
    /\ object[s]
    /\ object' = [object EXCEPT ![s] = FALSE]
    /\ buffers' = Without(s)
    /\ next' = [next EXCEPT ![s] = NullPointer]
    /\ left' = [left EXCEPT ![s] = 0]
    /\ pushed' = [pushed EXCEPT ![s] = <<>>]
    /\ UNCHANGED <<layout, loose>>

Swap(s, other) ==
    /\ object[s] /\ object[other]
    /\ next' = [next EXCEPT ![s] = next[other], ![other] = next[s]]
    /\ left' = [left EXCEPT ![s] = left[other], ![other] = left[s]]
    /\ pushed' = [pushed EXCEPT ![s] = pushed[other], ![other] = pushed[s]]
    /\ UNCHANGED <<layout, buffers, object, loose>>

\* release(), whose caller answers for the buffer and the elements; left_ stays.
Release(s) ==
    /\ Usable(s) /\ loose = Nothing
    /\ loose' = [next |-> next[s], left |-> left[s], pushed |-> pushed[s]]
    /\ next' = [next EXCEPT ![s] = NullPointer]
    /\ pushed' = [pushed EXCEPT ![s] = <<>>]
    /\ UNCHANGED <<layout, buffers, object, left>>

\* A stack initialized with reconstitute_from.
Reconstitute(s) ==
    /\ ~ object[s] /\ loose # Nothing
    /\ object' = [object EXCEPT ![s] = TRUE]
    /\ next' = [next EXCEPT ![s] = loose.next]
    /\ left' = [left EXCEPT ![s] = loose.left]
    /\ pushed' = [pushed EXCEPT ![s] = loose.pushed]
    /\ loose' = Nothing
    /\ UNCHANGED <<layout, buffers>>

-----------------------------------------------------------------------------
(* Elements.                                                               *)

\* The bytes reserve allocates, and the capacity it finds in them.
Capacities(cap, n) ==
    LET new == IF n > 2 * cap THEN n ELSE 2 * cap
        bytes == new * Size + (BufferSize(cap) - cap * Size)
    IN  [bytes |-> bytes, capacity |-> CapacityOffset(bytes) \div Size]

\* Mutant of Grown: the loop moves the first element every time.
GrownFromFirst(s, n) ==
    LET new == Capacities(Capacity(s), n)
        spare == new.capacity - SizeOf(s)
        moved == [i \in DOMAIN Elements(s) |-> Elements(s)[1]]
    IN  IF n < Capacity(s)
          THEN [buffer |-> BufferOf(s), left |-> left[s]]
          ELSE [buffer |-> Buffer(new.bytes, moved, new.capacity, spare), left |-> spare]

\* reserve: the elements move to the new buffer, and the old one is deleted.
Grown(s, n) ==
    LET new == Capacities(Capacity(s), n)
        spare == new.capacity - SizeOf(s)
    IN  IF n < Capacity(s)
          THEN [buffer |-> BufferOf(s), left |-> left[s]]
          ELSE [buffer |-> Buffer(new.bytes, Elements(s), new.capacity, spare),
                left |-> spare]

Reserve(s, n) ==
    /\ Usable(s)
    /\ buffers' = [buffers EXCEPT ![next[s].buffer] = Grown(s, n).buffer]
    /\ next' = [next EXCEPT ![s].at = SizeOf(s)]
    /\ left' = [left EXCEPT ![s] = Grown(s, n).left]
    /\ UNCHANGED <<layout, object, loose, pushed>>

\* reallocate()
Reallocated(s) == Grown(s, BufferSize(Capacity(s)) \div Size + Capacity(s))

\* push and emplace.
Push(s, v) ==
    LET room == IF left[s] = 0 THEN Reallocated(s)
                ELSE [buffer |-> BufferOf(s), left |-> left[s]]
    IN  /\ Usable(s) /\ Len(pushed[s]) < MaxElements
        /\ buffers' = [buffers EXCEPT ![next[s].buffer] =
                          [room.buffer EXCEPT !.values = Append(@, v)]]
        /\ next' = [next EXCEPT ![s].at = @ + 1]
        /\ left' = [left EXCEPT ![s] = room.left - 1]
        /\ pushed' = [pushed EXCEPT ![s] = Append(@, v)]
        /\ UNCHANGED <<layout, object, loose>>

\* pop(n), of elements there are: anything else is required not to happen.
Pop(s, n) ==
    /\ Usable(s) /\ SizeOf(s) >= n
    /\ buffers' = [buffers EXCEPT ![next[s].buffer].values =
                      SubSeq(@, 1, next[s].at - n)]
    /\ next' = [next EXCEPT ![s].at = @ - n]
    /\ left' = [left EXCEPT ![s] = @ + n]
    /\ pushed' = [pushed EXCEPT ![s] = SubSeq(@, 1, Len(@) - n)]
    /\ UNCHANGED <<layout, object, loose>>

Next ==
    \E s \in Stacks :
       \/ Construct(s) \/ Destroy(s) \/ Release(s) \/ Reconstitute(s)
       \/ \E other \in Stacks :
             \/ CopyConstruct(s, other) \/ CopyAssign(s, other)
             \/ MoveConstruct(s, other) \/ MoveAssign(s, other) \/ Swap(s, other)
       \/ \E n \in 1 .. MaxReserve : Reserve(s, n) \/ Pop(s, n)
       \/ \E v \in Values : Push(s, v)

Spec == Init /\ [][Next]_vars

-----------------------------------------------------------------------------
\* The two words of a stack and the third in its buffer agree, whatever the
\* size and the alignment of the elements: the capacity is found where it was
\* written, inside the buffer and behind all the room for elements, and
\* size() is the number of elements in front of next_.
WordsAgree ==
    \A s \in Stacks : Usable(s) =>
       LET b == BufferOf(s)
       IN  /\ Capacity(s) # None
           /\ Capacity(s) * Size <= b.word /\ b.word + Word <= b.bytes
           /\ left[s] >= 0 /\ SizeOf(s) = next[s].at
           /\ Len(b.values) = next[s].at

\* A stack has the elements that were pushed and not popped, in order, through
\* every growth of its buffer, copy, move, swap and release.
ElementsKept ==
    \A s \in Stacks : IF Usable(s) THEN Elements(s) = pushed[s] ELSE pushed[s] = <<>>

\* No two objects refer to one buffer, nor does any refer to one that has been
\* deleted, so that the destructor of one stack never takes the elements of
\* another.
Owned(s) == IF next[s] = NullPointer THEN {} ELSE {next[s].buffer}
SoleOwner ==
    \A s \in Stacks :
       /\ \A b \in Owned(s) : object[s] /\ buffers[b] # None /\ b # loose.next.buffer
       /\ \A t \in Stacks \ {s} : Owned(s) \intersect Owned(t) = {}

=============================================================================
