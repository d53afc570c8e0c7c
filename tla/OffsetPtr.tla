----------------------------- MODULE OffsetPtr -----------------------------
(***************************************************************************)
(* offset_ptr (memory/offset_ptr.h): a pointer kept as its distance from   *)
(* what it points to, in arithmetic of the width of an address.  A null    *)
(* pointer keeps its own address.                                          *)
(***************************************************************************)
EXTENDS Integers

CONSTANTS
    Space,       \* the number of addresses, 2^64 in the code; 0 is null
    Places       \* bound: the addresses where pointers and objects lie

VARIABLES
    offset,      \* offset_ of the pointer that lies at each place
    target       \* history: what that pointer is to refer to

vars == <<offset, target>>

\* to_int(this) - to_int(ptr)
Distance(this, ptr) == (this - ptr) % Space
get(this) == Distance(this, offset[this])

\* Every pointer is constructed null; an assignment makes no difference between
\* what was there and nothing.
Init ==
    /\ offset = [p \in Places |-> p]
    /\ target = [p \in Places |-> 0]

Refers(p, o, t) ==
    /\ offset' = [offset EXCEPT ![p] = o]
    /\ target' = [target EXCEPT ![p] = t]

\* offset_ptr(pointer), and operator= of a pointer and of nullptr.
FromPointer(p, t) == Refers(p, Distance(p, t), t)
SetNull(p) == Refers(p, p, 0)

\* The copy constructor goes through get().
CopyConstruct(p, q) == FromPointer(p, get(q)) /\ target'[p] = target[q]

\* Mutant of CopyAssign: the offset is copied as it is.
CopyAssignBits(p, q) == Refers(p, offset[q], target[q])

\* operator=(offset_ptr const &)
CopyAssign(p, q) == Refers(p, (Distance(p, q) + offset[q]) % Space, target[q])

\* from_offset: the offset is given, or it is that of the parameter, a copy of
\* another pointer that lies at a.
FromOffset(p, o) == Refers(p, o, Distance(p, o))
FromOffsetOf(p, q, a) == FromOffset(p, Distance(a, get(q)))

\* The bytes of a pointer and those of its referent are copied somewhere else,
\* both as far: what offset_ptr is for.  A null pointer has no referent.
Relocate(p, q) ==
    /\ target[p] \in Places /\ (target[p] + q - p) % Space \in Places
    /\ Refers(q, offset[p], (target[p] + q - p) % Space)

Next ==
    \E p \in Places :
       \/ SetNull(p)
       \/ \E t \in Places : FromPointer(p, t)
       \/ \E o \in 0 .. Space - 1 : FromOffset(p, o)
       \/ \E q \in Places : \/ CopyConstruct(p, q) \/ CopyAssign(p, q)
                            \/ Relocate(p, q)
                            \/ \E a \in Places \ {p, q} : FromOffsetOf(p, q, a)

Spec == Init /\ [][Next]_vars

\* Wherever a pointer was copied to, forwards or backwards and across the end
\* of the addresses, it refers to what it is to refer to; and two pointers are
\* equal if they refer to the same, whatever their offsets.
PointersExact ==
    \A p \in Places :
       /\ offset[p] \in 0 .. Space - 1
       /\ get(p) = target[p]
       /\ \A q \in Places : get(p) = get(q) <=> target[p] = target[q]
=============================================================================
