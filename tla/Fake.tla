-------------------------------- MODULE Fake --------------------------------
(***************************************************************************)
(* Fakes for functions (test/fakeable_function.h): each thread has, for a  *)
(* function, an any_invocable (utility/any_invocable.h) that is called in  *)
(* its place, which `with` exchanges and the end of a scope puts back.  A  *)
(* callable is a function, or a closure, which lives on the heap.          *)
(***************************************************************************)
EXTENDS Naturals, Sequences

CONSTANTS
    Threads, Functions, Closures,
    Nothing,        \* a null pointer
    MaxScopes       \* bound: fakes of a thread that are installed

VARIABLES
    fake,           \* of each thread: its any_invocable, data_ and invoker_
    resetters,      \* of each thread: prev_ of its fake_resetters
    installed,      \* history: what each thread's open scopes installed
    called,         \* history: of each thread, what its last call came to
    heap            \* how many closures there are that no delete freed

vars == <<fake, resetters, installed, called, heap>>

\* any_invocable(): converted to bool it is false.
Empty == [data |-> Nothing, invoker |-> Nothing]
FromFunction(f) == [data |-> Nothing, invoker |-> f]
FromClosure(c) == [data |-> c, invoker |-> "Invoker"]

\* What a move leaves: data_ is taken, invoker_ stays.
MovedFrom(invocable) == [invocable EXCEPT !.data = Nothing]

\* operator(): a null data_ says that invoker_ is a function.
Invoked(invocable) == IF invocable.data = Nothing THEN invocable.invoker ELSE invocable.data

Init ==
    /\ fake = [t \in Threads |-> Empty]
    /\ resetters = [t \in Threads |-> <<>>]
    /\ installed = [t \in Threads |-> <<>>]
    /\ called = [t \in Threads |-> Nothing]
    /\ heap = 0

\* Mutant of Kept: the fake that was there is taken by reference, not moved
\* away before the new one is put in its place.
KeptNew(t, f) == f

\* What std::exchange(*ptr, f) gives to the resetter.
Kept(t, f) == fake[t]

\* fake<f>.with(...): the assignment does not free what a closure had.
With(t, f) ==
    /\ Len(resetters[t]) < MaxScopes
    /\ resetters' = [resetters EXCEPT ![t] = Append(@, Kept(t, f))]
    /\ fake' = [fake EXCEPT ![t] = f]
    /\ installed' = [installed EXCEPT ![t] = Append(@, Invoked(f))]
    /\ heap' = heap + (IF f.data = Nothing THEN 0 ELSE 1)
    /\ UNCHANGED called

\* The resetter of the innermost scope is destroyed.  What it puts back is
\* moved; neither destructor nor assignment of any_invocable calls destroy_.
EndScope(t) ==
    /\ resetters[t] # <<>>
    /\ fake' = [fake EXCEPT ![t] = resetters[t][Len(resetters[t])]]
    /\ resetters' = [resetters EXCEPT ![t] = SubSeq(@, 1, Len(@) - 1)]
    /\ installed' = [installed EXCEPT ![t] = SubSeq(@, 1, Len(@) - 1)]
    /\ UNCHANGED <<called, heap>>

\* NTH_FAKE_IMPLEMENTATION: without a fake the program is aborted.
CallFake(t) ==
    /\ called' = [called EXCEPT ![t] =
                    IF fake[t].invoker = Nothing THEN "aborted" ELSE Invoked(fake[t])]
    /\ UNCHANGED <<fake, resetters, installed, heap>>

Next ==
    \E t \in Threads :
      \/ \E f \in Functions : With(t, FromFunction(f))
      \/ \E c \in Closures : heap < 2 * MaxScopes /\ With(t, FromClosure(c))
      \/ EndScope(t) \/ CallFake(t)
Spec == Init /\ [][Next]_vars

-----------------------------------------------------------------------------
\* A call goes to what the innermost open scope of the calling thread installed,
\* whatever other threads install, and to nothing when all scopes have ended:
\* the scopes put the fakes back in the order opposite to that in which they
\* were installed (fakeable_function.h:17-63).
FakeExact ==
    \A t \in Threads :
        IF installed[t] = <<>> THEN fake[t].invoker = Nothing
        ELSE fake[t].invoker # Nothing /\ Invoked(fake[t]) = installed[t][Len(installed[t])]
=============================================================================
