---------------------------- MODULE FlyweightMap ----------------------------
(***************************************************************************)
(* nth::flyweight_map (container/flyweight_map.h): a flyweight_set whose   *)
(* elements are keys with a mapped value beside them.  The code of the set *)
(* is repeated there with keys for values; each of its operations is that  *)
(* operation here, and what it does with the mapped values.                *)
(***************************************************************************)
EXTENDS FlyweightSet

CONSTANTS
    Mapped,       \* the mapped values
    Default       \* that of a mapped_type constructed from nothing

VARIABLES
    mapped,       \* the mapped values of the elements in memory
    restMapped,   \* those of what is left of a range
    contents      \* history: what each map is to hold

mapVars == <<vars, mapped, restMapped, contents>>

Entries == Values \X Mapped
NoContents == [k \in {} |-> Default]

\* What a range comes to: of equal keys the first.
FirstOf(range) ==
    [k \in {range[i][1] : i \in DOMAIN range} |->
       range[CHOOSE i \in DOMAIN range :
                range[i][1] = k /\ \A j \in 1 .. i - 1 : range[j][1] # k][2]]

Keys(range) == [i \in DOMAIN range |-> range[i][1]]
MappedOf(range) == [i \in DOMAIN range |-> range[i][2]]
EntriesOf(s) == [i \in DOMAIN values[s] |-> <<At(s, i), mapped[values[s][i]]>>]

MapInit ==
    /\ Init
    /\ mapped = [a \in Addresses |-> Default]
    /\ restMapped = <<>>
    /\ contents = [s \in Sets |-> NoContents]

Holds(s, c) == contents' = [contents EXCEPT ![s] = c]

\* The constructors and the assignment that insert a range.
MapConstruct(s, range) ==
    /\ Construct(s, Keys(range)) /\ restMapped' = MappedOf(range)
    /\ Holds(s, FirstOf(range)) /\ UNCHANGED mapped
MapCopyConstruct(s, other) == Usable(other) /\ MapConstruct(s, EntriesOf(other))
MapCopyAssign(s, other) ==
    /\ CopyAssign(s, other) /\ restMapped' = MappedOf(EntriesOf(other))
    /\ Holds(s, contents[other]) /\ UNCHANGED mapped

\* Mutant of EmplaceIn: the mapped value of a key that is there is replaced.
EmplaceInAnyway(s, k, m) ==
    /\ InsertIn(s, k)
    /\ \E i \in DOMAIN values'[s] :
          /\ memory'[values'[s][i]] = k
          /\ mapped' = [mapped EXCEPT ![values'[s][i]] = m]

\* try_emplace: the key that is there keeps its mapped value.
EmplaceIn(s, k, m) ==
    /\ InsertIn(s, k)
    /\ mapped' = IF Found(s, k) # {} THEN mapped
                 ELSE [mapped EXCEPT ![values'[s][Len(values'[s])]] = m]

Ensured(s, k, m) ==
    IF k \in DOMAIN contents[s] THEN contents[s]
    ELSE [j \in DOMAIN contents[s] \union {k} |-> IF j = k THEN m ELSE contents[s][j]]

TryEmplace(s, k, m) ==
    /\ Usable(s) /\ EmplaceIn(s, k, m) /\ Holds(s, Ensured(s, k, m))
    /\ UNCHANGED <<state, filling, rest, restMapped>>

\* operator[]: the key and a default; what it returns is written to.
Subscript(s, k) == TryEmplace(s, k, Default)

\* A write through a pointer, an iterator or a reference.
Write(p, m) ==
    /\ filling = Nothing
    /\ mapped' = [mapped EXCEPT ![p.at] = m]
    /\ contents' = [contents EXCEPT ![p.set][p.value] = m]
    /\ UNCHANGED <<vars, restMapped>>

MapFillNext ==
    /\ filling # Nothing /\ rest # <<>>
    /\ EmplaceIn(filling, Head(rest), Head(restMapped))
    /\ rest' = Tail(rest) /\ restMapped' = Tail(restMapped)
    /\ UNCHANGED <<state, filling, contents>>
MapFillEnd == FillEnd /\ UNCHANGED <<mapped, restMapped, contents>>

MapMove(s, other) ==
    /\ MoveConstruct(s, other) \/ MoveAssign(s, other)
    /\ contents' = [contents EXCEPT ![s] = contents[other], ![other] = NoContents]
    /\ UNCHANGED <<mapped, restMapped>>

MapReset(s) ==
    /\ Clear(s) \/ Destroy(s)
    /\ Holds(s, NoContents) /\ UNCHANGED <<mapped, restMapped>>

MapNext ==
    \/ \E s \in Sets :
          \/ \E n \in 0 .. MaxRange : \E range \in [1 .. n -> Entries] : MapConstruct(s, range)
          \/ \E k \in Values : \/ \E m \in Mapped : TryEmplace(s, k, m)
                               \/ Subscript(s, k)
          \/ MapReset(s)
          \/ \E other \in Sets : \/ MapCopyConstruct(s, other) \/ MapCopyAssign(s, other)
                                 \/ MapMove(s, other)
    \/ \E p \in pointers, m \in Mapped : Write(p, m)
    \/ MapFillNext \/ MapFillEnd

MapSpec == MapInit /\ [][MapNext]_mapVars

\* A map holds just the keys that were inserted, each with the value it had
\* when it was first inserted, or the last that was written through a pointer
\* to it since, in copies and after moves too.
ContentsExact ==
    \A s \in Sets : (state[s] = "alive" /\ filling # s) =>
       /\ {At(s, i) : i \in DOMAIN values[s]} = DOMAIN contents[s]
       /\ \A i \in DOMAIN values[s] : mapped[values[s][i]] = contents[s][At(s, i)]
=============================================================================
