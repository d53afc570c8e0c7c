-------------------------- MODULE StableContainer --------------------------
(***************************************************************************)
(* The stable container (container/stable_container.h): elements lie in    *)
(* blocks of 1, 2, 4, ... elements, which are never moved nor resized.     *)
(* The container keeps a stack of chunks, used here by what it promises (a *)
(* sequence): each says where its block begins, how far it is filled, and  *)
(* where it ends.  Neither the number of elements nor where the elements   *)
(* of an index lies is stored: the one is computed from the number of      *)
(* chunks and the room in the last, the other found by iteration.          *)
(***************************************************************************)
EXTENDS Integers, Sequences, SequencesExt, FiniteSetsExt

CONSTANTS
    Containers,    \* the objects
    Elements,      \* the values of elements
    MaxInserted,   \* bound: elements of a container
    NoBlock        \* where no block is

Blocks == 1 .. 2 * MaxInserted

VARIABLES
    blocks,     \* what the program has allocated: the elements in it
    exists,     \* whether a container is alive
    chunks,     \* chunks_ of a container
    handles     \* what insert returned: entries whose elements still exist

vars == <<blocks, exists, chunks, handles>>

-----------------------------------------------------------------------------
Top(c) == Last(chunks[c])
Remaining(c) == Top(c).cap - Top(c).end

\* A container that was moved from has no chunks: it can only be destroyed.
Intact(c) == exists[c] /\ chunks[c] # <<>>

\* 1 << n
Shifted[n \in Nat] == IF n = 0 THEN 1 ELSE 2 * Shifted[n - 1]

SizeOf(c) == Shifted[Len(chunks[c])] - Remaining(c) - 1
IsEmpty(c) == Len(chunks[c]) = 1 /\ Top(c).end # Top(c).cap

\* operator new, anywhere that is free.
Free == {b \in Blocks : blocks[b] = NoBlock}
Allocated == Min(Free)
Chunk(b, end, cap) == [block |-> b, end |-> end, cap |-> cap]

Init ==
    /\ blocks = [b \in Blocks |-> NoBlock]
    /\ exists = [c \in Containers |-> FALSE]
    /\ chunks = [c \in Containers |-> <<>>]
    /\ handles = {}

\* stable_container()
Construct(c) ==
    /\ ~ exists[c] /\ Free # {}
    /\ exists' = [exists EXCEPT ![c] = TRUE]
    /\ blocks' = [blocks EXCEPT ![Allocated] = <<>>]
    /\ chunks' = [chunks EXCEPT ![c] = <<Chunk(Allocated, 0, 1)>>]
    /\ UNCHANGED handles

\* Mutant of InsertionLocation: a block is no larger than the one before it.
InsertionLocationSmaller(c) ==
    IF Remaining(c) # 0
      THEN [chunks[c] EXCEPT ![Len(chunks[c])].end = @ + 1]
      ELSE Append(chunks[c], Chunk(Allocated, 1, Shifted[Len(chunks[c]) - 1]))

\* insertion_location(): the chunks when there is room for another element,
\* which is the last of the last chunk.
InsertionLocation(c) ==
    IF Remaining(c) # 0
      THEN [chunks[c] EXCEPT ![Len(chunks[c])].end = @ + 1]
      ELSE Append(chunks[c], Chunk(Allocated, 1, Shifted[Len(chunks[c])]))

\* insert and emplace.
Insert(c, v) ==
    LET b == Last(InsertionLocation(c)).block
        before == IF blocks[b] = NoBlock THEN <<>> ELSE blocks[b]
    IN  /\ Intact(c) /\ SizeOf(c) < MaxInserted
        /\ Remaining(c) = 0 => Free # {}
        /\ chunks' = [chunks EXCEPT ![c] = InsertionLocation(c)]
        /\ blocks' = [blocks EXCEPT ![b] = Append(before, v)]
        /\ handles' = handles \union
              {[owner |-> c, index |-> SizeOf(c), value |-> v,
                block |-> b, at |-> Last(InsertionLocation(c)).end - 1]}
        /\ UNCHANGED exists

Owning(h, c, owner) == IF h.owner = c THEN [h EXCEPT !.owner = owner] ELSE h

\* Mutant of MoveConstruct: the other container keeps its chunks.
MoveConstructShared(c, other) ==
    /\ ~ exists[c] /\ exists[other]
    /\ exists' = [exists EXCEPT ![c] = TRUE]
    /\ chunks' = [chunks EXCEPT ![c] = chunks[other]]
    /\ handles' = {Owning(h, other, c) : h \in handles}
    /\ UNCHANGED blocks

\* The move constructor leaves the other container with no chunk.
MoveConstruct(c, other) ==
    /\ ~ exists[c] /\ exists[other]
    /\ exists' = [exists EXCEPT ![c] = TRUE]
    /\ chunks' = [chunks EXCEPT ![c] = chunks[other], ![other] = <<>>]
    /\ handles' = {Owning(h, other, c) : h \in handles}
    /\ UNCHANGED blocks

\* ~stable_container(): every chunk is deleted.
Destroy(c) ==
    LET own == {chunks[c][i].block : i \in DOMAIN chunks[c]}
    IN  /\ exists[c]
        /\ exists' = [exists EXCEPT ![c] = FALSE]
        /\ blocks' = [b \in Blocks |-> IF b \in own THEN NoBlock ELSE blocks[b]]
        /\ chunks' = [chunks EXCEPT ![c] = <<>>]
        /\ handles' = {h \in handles : h.owner # c}

Next ==
    \E c \in Containers :
       \/ Construct(c) \/ Destroy(c)
       \/ \E v \in Elements : Insert(c, v)
       \/ \E other \in Containers : MoveConstruct(c, other)

Spec == Init /\ [][Next]_vars

-----------------------------------------------------------------------------
(* Iterators: a chunk, and a place in its block or just behind it.         *)

Begin(c) ==
    IF IsEmpty(c)
      THEN [chunk |-> Len(chunks[c]) + 1, block |-> Top(c).block, at |-> Top(c).end]
      ELSE [chunk |-> 1, block |-> chunks[c][1].block, at |-> 0]
End(c) == [chunk |-> Len(chunks[c]) + 1, block |-> Top(c).block, at |-> Top(c).end]

\* operator++
Advanced(c, i) ==
    LET chunk == chunks[c][i.chunk]
    IN  CASE i.at + 1 # chunk.end -> [i EXCEPT !.at = @ + 1]
          [] i.at + 1 = chunk.end /\ i.chunk = Len(chunks[c]) ->
                [chunk |-> i.chunk + 1, block |-> i.block, at |-> i.at + 1]
          [] OTHER -> [chunk |-> i.chunk + 1, block |-> chunks[c][i.chunk + 1].block, at |-> 0]

\* entry(index): `index` steps from the beginning.
Entry(c, index) ==
    LET step[i \in 0 .. index] == IF i = 0 THEN Begin(c) ELSE Advanced(c, step[i - 1])
    IN  step[index]

-----------------------------------------------------------------------------
\* "each object inserted is given a stable address in memory that will never
\* change for as long as that object resides in the container ... even if the
\* container is moved" (stable_container.h:11-14): what an entry refers to is
\* the element that was inserted.
AddressStable ==
    \A h \in handles : /\ blocks[h.block] # NoBlock
                       /\ h.at < Len(blocks[h.block])
                       /\ blocks[h.block][h.at + 1] = h.value

\* size() and empty(), which are computed from the chunks, count the elements;
\* the index insert returns is that under which entry finds the same element;
\* and just as many steps lead from begin() to end().
IterationExact ==
    \A c \in Containers : Intact(c) =>
       LET own == {h \in handles : h.owner = c}
       IN  /\ SizeOf(c) = Cardinality(own)
           /\ IsEmpty(c) <=> own = {}
           /\ \A h \in own : LET e == Entry(c, h.index)
                             IN  e.block = h.block /\ e.at = h.at
           /\ Entry(c, SizeOf(c)) = End(c)
=============================================================================
