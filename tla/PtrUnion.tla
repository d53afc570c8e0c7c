------------------------------ MODULE PtrUnion ------------------------------
(***************************************************************************)
(* PtrUnion<Ts...> (utility/ptr_union.h): a pointer to an object of one of *)
(* some types, and which type that is in the bits its alignment leaves.    *)
(***************************************************************************)
EXTENDS Integers, Sequences, FiniteSetsExt

CONSTANTS
    Alignments,     \* the sequences of alignments that Ts may have
    MaxAddress      \* bound: addresses

VARIABLES
    alignments,     \* of the types of this union
    bits,           \* ptr_
    held            \* history: the type and the address it is made from

vars == <<alignments, bits, held>>

RequiredAlignment == Min({alignments[i] : i \in DOMAIN alignments})

\* The static_assert: it asks for 1 << (alignment - 1) where the mask has as
\* many values as the alignment; an int is not shifted by more than 31.
Admitted(a) ==
    LET alignment == Min({a[i] : i \in DOMAIN a})
    IN  alignment <= 32 /\ 2 ^ (alignment - 1) >= Len(a)

\* Types are counted from 0, as index() counts them.
Types == 0 .. Len(alignments) - 1
Pointees(type) == {x \in 0 .. MaxAddress : x % alignments[type + 1] = 0}

Init ==
    /\ alignments \in {a \in Alignments : Admitted(a)}
    /\ bits = 0 /\ held = [type |-> 0, address |-> 0]

\* x | y: the bits that both have are not added twice.
PowerOfTwo(p) == \A q \in 2 .. p : p % q = 0 => q % 2 = 0
Bits(n) == {p \in 1 .. n : PowerOfTwo(p) /\ (n \div p) % 2 = 1}
Or(x, y) == x + y - SumSet({p \in Bits(y) : (x \div p) % 2 = 1})

\* Mutant of Construct: the first type is not told from the second.
ConstructUntagged(type, ptr) ==
    /\ bits' = Or(ptr, IF type = 1 THEN 0 ELSE type)
    /\ held' = [type |-> type, address |-> ptr]
    /\ UNCHANGED alignments

\* ptr | index: an index past the mask meets the bits of the address.
Construct(type, ptr) ==
    /\ bits' = Or(ptr, type)
    /\ held' = [type |-> type, address |-> ptr]
    /\ UNCHANGED alignments

Next == \E type \in Types : \E ptr \in Pointees(type) : Construct(type, ptr)
Spec == Init /\ [][Next]_vars

\* ptr_ & Mask, and ptr_ & ~Mask; an alignment is a power of two.
Tag == bits % RequiredAlignment
Address == bits - Tag

\* The mask has a value for the index of the type.
Masked(type) == type < RequiredAlignment

\* A union is of one type, whose pointer it returns; get_if of the others
\* returns null, of those past the mask, too (ptr_union.h:42-71).  A pointer to
\* a type that is itself past the mask, which the static_assert of
\* ptr_union.h:27 admits, is not found again.
HeldExact ==
    Masked(held.type) =>
       \A type \in Types :
          /\ (Tag = type) <=> held.type = type
          /\ Tag = type => Address = held.address
=============================================================================
