--------------------------- MODULE ProjectedSpan ---------------------------
(***************************************************************************)
(* ProjectedSpan (utility/projected_span.h): a view of objects that lie    *)
(* side by side, each seen through a projection, with iterators that run   *)
(* forwards and, over a reverse_ptr, backwards.                            *)
(***************************************************************************)
EXTENDS Integers, Sequences

CONSTANTS
    Cells,          \* the places of the array, 1 .. n
    Projection(_)   \* what operator* makes of the object at a place

VARIABLES
    span,       \* ptr_ and size_
    iters,      \* two iterators of one kind over the span as it was
    viewed,     \* history: the places the span is to view
    walked      \* history: what the iterators came from, and how far each is

vars == <<span, iters, viewed, walked>>

Kinds == {"iterator", "reverse_iterator"}
Consecutive(ptr, size) == [i \in 1 .. size |-> ptr + i - 1]

size == span.size
empty == span.size = 0

Init ==
    /\ span = [ptr |-> 0, size |-> 0]
    /\ viewed = <<>>
    /\ iters = [kind |-> "iterator", ptr |-> <<0, 0>>]
    /\ walked = [over |-> <<>>, by |-> <<0, 0>>]

\* ProjectedSpan(b, e), and from a container.
Construct(b, e) ==
    /\ b \in Cells /\ e - 1 \in Cells /\ b <= e
    /\ span' = [ptr |-> b, size |-> e - b]
    /\ viewed' = Consecutive(b, e - b)
    /\ UNCHANGED <<iters, walked>>

\* Mutant of RemovePrefix: the size is not reduced.
RemovePrefixOnly(n) ==
    /\ n <= size
    /\ span' = [ptr |-> span.ptr + n, size |-> size]
    /\ viewed' = SubSeq(viewed, n + 1, Len(viewed))
    /\ UNCHANGED <<iters, walked>>

RemovePrefix(n) ==
    /\ n <= size
    /\ span' = [ptr |-> span.ptr + n, size |-> size - n]
    /\ viewed' = SubSeq(viewed, n + 1, Len(viewed))
    /\ UNCHANGED <<iters, walked>>

RemoveSuffix(n) ==
    /\ n <= size
    /\ span' = [span EXCEPT !.size = @ - n]
    /\ viewed' = SubSeq(viewed, 1, Len(viewed) - n)
    /\ UNCHANGED <<iters, walked>>

\* begin and end, rbegin and rend: a reverse iterator is at the element it
\* refers to, and ends before the first.
Begin(kind) == IF kind = "iterator" THEN span.ptr ELSE span.ptr + (size - 1)
End(kind) == IF kind = "iterator" THEN span.ptr + size ELSE span.ptr - 1

Iterate(kind) ==
    /\ span.ptr # 0
    /\ iters' = [kind |-> kind, ptr |-> <<Begin(kind), End(kind)>>]
    /\ walked' = [over |-> IF kind = "iterator" THEN viewed
                           ELSE [i \in 1 .. size |-> viewed[size + 1 - i]],
                  by |-> <<0, size>>]
    /\ UNCHANGED <<span, viewed>>

\* + and - of a pointer, and of a reverse_ptr, where they are the other.
Plus(kind, ptr, n) == IF kind = "iterator" THEN ptr + n ELSE ptr - n
Minus(kind, a, b) == IF kind = "iterator" THEN a - b ELSE b - a
Less(kind, a, b) == IF kind = "iterator" THEN a < b ELSE b < a

\* ++, --, + and - of one of the iterators, within the range (+= and -= return
\* what they cannot and do not compile).
Advance(i, n) ==
    /\ walked.by[i] + n \in 0 .. Len(walked.over)
    /\ iters' = [iters EXCEPT !.ptr[i] = Plus(iters.kind, @, n)]
    /\ walked' = [walked EXCEPT !.by[i] = @ + n]
    /\ UNCHANGED <<span, viewed>>

Next ==
    \/ \E b, e \in Cells : Construct(b, e)
    \/ \E n \in {0} \union Cells : RemovePrefix(n) \/ RemoveSuffix(n)
    \/ \E kind \in Kinds : Iterate(kind)
    \/ \E i \in {1, 2}, n \in Cells : Advance(i, n) \/ Advance(i, - n)

Spec == Init /\ [][Next]_vars

-----------------------------------------------------------------------------
\* operator* and operator[] of an iterator; front, back and operator[].
Deref(ptr) == Projection(ptr)
Subscript(i, n) == Deref(Plus(iters.kind, iters.ptr[i], n))
front == Deref(Begin("iterator"))
back == Deref(Begin("reverse_iterator"))
At(n) == Deref(span.ptr + n)

\* A span views what is left of what it was made of, from either end.
ViewExact ==
    /\ Consecutive(span.ptr, size) = viewed
    /\ ~ empty => /\ front = Projection(viewed[1])
                  /\ back = Projection(viewed[Len(viewed)])
                  /\ \A n \in 0 .. size - 1 : At(n) = Projection(viewed[n + 1])

\* However far an iterator was moved, forwards or backwards, it refers to the
\* element that many places from where it began, the distance and the order of
\* two are those of their places, and the range ends where end is.
IterationExact ==
    \A i, j \in {1, 2} :
       LET a == walked.by[i]
           b == walked.by[j]
       IN  /\ a < Len(walked.over) =>
                 /\ Deref(iters.ptr[i]) = Projection(walked.over[a + 1])
                 /\ Subscript(j, a - b) = Projection(walked.over[a + 1])
           /\ Minus(iters.kind, iters.ptr[i], iters.ptr[j]) = a - b
           /\ Less(iters.kind, iters.ptr[i], iters.ptr[j]) <=> a < b
           /\ iters.ptr[i] = iters.ptr[j] <=> a = b
=============================================================================
