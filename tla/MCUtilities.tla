---------------------------- MODULE MCUtilities ----------------------------
(* Numbers, views, control, testing and files on small instances, one       *)
(* component in each behaviour; the flyweight map, about whose keys there   *)
(* are proofs, by extension.                                                *)
EXTENDS FlyweightMap, SequencesExt

CONSTANTS
    Objects, Digit, Memory, MaxWords,                           \* Integer
    Cells,                                                      \* ProjectedSpan
    Space, Places,                                              \* OffsetPtr
    MaxAddress,                                                 \* PtrUnion
    Errors, MaxDepth, MaxCalls,                                 \* Try
    Tests, Parameterized, Invocations, MaxArguments,            \* TestRunner
    MaxViolations, MaxThreads,
    Threads, Functions, Closures, MaxScopes,                    \* Fake
    Timers, Warmups, Iterations, MaxRuns, MaxBlocks, Ticks,     \* Benchmark
    Paths, Bytes, Writers, Readers, Handles,                    \* Files
    MaxStreams, MaxLength

VARIABLES
    component,
    rep, refused, numberCalls, call, sure,                      \* Integer
    tree, roots, hooks, stack, events,                          \* TreeTraversal
    span, iters, viewed, walked,                                \* ProjectedSpan
    offset, target,                                             \* OffsetPtr
    alignments, bits, held,                                     \* PtrUnion
    frames, returned, aborted, calls, raised, swallowed,        \* Try
    declared, seen, registry, phase, testIndex, coroutine,      \* TestRunner
    in_test, arguments, before, failure_count, verdicts,
    threads, violated, threw, exit_code,
    fake, resetters, installed, called, heap,                   \* Fake
    run, sampling, count, registered, sampler, ready,           \* Benchmark
    samples, reports, taken,
    disk, streams, writer, reader, handle, string, reserved,    \* Files
    accepted, got, spoiled, faulty, crashed

-----------------------------------------------------------------------------
\* All trees of four nodes in which a node comes before those it pushes, some
\* pushed by two; with one, two or no nodes to begin with.
Orders(nodes) == {q \in SeqOf(nodes, 3) : IsInjective(q)}
MCTrees == {<<q, r, s, <<>>>> : q \in Orders(2 .. 4), r \in Orders(3 .. 4), s \in Orders({4})}
MCRoots == {<<>>, <<1>>, <<2, 1>>}

\* An object that the projection makes another of at every place.
Halved(c) == [low |-> c % 2, high |-> c \div 2]

MCAlignments == {<<1>>, <<8, 2>>, <<4, 4, 4>>, <<8, 4, 4, 16>>, <<8, 8, 8, 8, 8>>,
                 <<4, 4, 4, 4, 4>>}
MCTypes == {"bool", "pointer", "optional", "optional_any", "status", "status_or",
            "status_or_any", "void"}
MCMatches == {<<"i", "p">>, <<"i", "q">>, <<"j", "q">>}

\* What is not a value, a name or a function of the code is none of them; a
\* fresh address is not null; alignments are powers of two.
ConstantsFit ==
    /\ Cells \subseteq Nat \ {0}
    /\ Space \in Nat \ {0} /\ Places \subseteq 1 .. Space - 1
    /\ \A a \in MCAlignments :
          /\ a \in Seq(Nat \ {0}) /\ a # <<>>
          /\ \A i, j \in DOMAIN a : a[i] <= a[j] => a[j] % a[i] = 0
          /\ \A i \in DOMAIN a : \A q \in 2 .. a[i] : a[i] % q = 0 => q % 2 = 0
    /\ Tests \intersect Parameterized = {} /\ Tests \intersect Invocations = {}
    /\ Parameterized \intersect Invocations = {} /\ Nothing \notin Invocations
    /\ Nothing \notin Functions \union Closures \union {"Invoker"}
    /\ {Warmups, Iterations, Ticks} \subseteq Nat
    /\ 0 \notin Bytes /\ MaxLength \in Nat
ASSUME UtilitiesAssumption == ConstantsFit

\* A word has an even number of values: one half of them is a signed number's.
EvenDigit == Digit \in Nat \ {0} /\ Digit % 2 = 0
ASSUME DigitAssumption == EvenDigit

-----------------------------------------------------------------------------
Numbers == INSTANCE Integer WITH
    aborted <- refused, calls <- numberCalls, MaxCalls <- 3
Trees == INSTANCE TreeTraversal WITH Trees <- MCTrees, Roots <- MCRoots
Spans == INSTANCE ProjectedSpan WITH Projection <- Halved
Offsets == INSTANCE OffsetPtr
Unions == INSTANCE PtrUnion WITH Alignments <- MCAlignments
Returns == INSTANCE Try WITH Types <- MCTypes, NoError <- Nothing
Runner == INSTANCE TestRunner WITH
    Matches <- MCMatches, None <- Nothing, index <- testIndex
Fakes == INSTANCE Fake
Benchmarks == INSTANCE Benchmark
Disk == INSTANCE Files WITH Zero <- 0, Null <- 0, aborted <- crashed

numberVars == <<rep, refused, numberCalls, call, sure>>
treeVars == <<tree, roots, hooks, stack, events>>
spanVars == <<span, iters, viewed, walked>>
offsetVars == <<offset, target>>
unionVars == <<alignments, bits, held>>
returnVars == <<frames, returned, aborted, calls, raised, swallowed>>
runnerVars == <<declared, seen, registry, phase, testIndex, coroutine, in_test, arguments,
                before, failure_count, verdicts, threads, violated, threw, exit_code>>
fakeVars == <<fake, resetters, installed, called, heap>>
benchmarkVars == <<run, sampling, count, registered, sampler, ready, samples, reports, taken>>
diskVars == <<disk, streams, writer, reader, handle, string, reserved, accepted, got,
              spoiled, faulty, crashed>>
allVars == <<component, mapVars, numberVars, treeVars, spanVars, offsetVars, unionVars,
             returnVars, runnerVars, fakeVars, benchmarkVars, diskVars>>

Components == {"flyweight_map", "integer", "tree", "span", "offset_ptr", "ptr_union", "try",
               "test_runner", "fake", "benchmark", "files"}

AnyInit ==
    /\ component \in Components
    /\ MapInit /\ Numbers!Init /\ Spans!Init /\ Offsets!Init /\ Returns!Init
    /\ Runner!Init /\ Fakes!Init /\ Benchmarks!Init /\ Disk!Init
    /\ IF component = "tree" THEN Trees!Init
       ELSE tree = <<>> /\ roots = <<>> /\ hooks = {} /\ stack = <<>> /\ events = <<>>
    /\ IF component = "ptr_union" THEN Unions!Init
       ELSE alignments = <<>> /\ bits = 0 /\ held = <<>>

Same(c) ==
    CASE c = "flyweight_map" -> UNCHANGED mapVars
      [] c = "integer" -> UNCHANGED numberVars
      [] c = "tree" -> UNCHANGED treeVars
      [] c = "span" -> UNCHANGED spanVars
      [] c = "offset_ptr" -> UNCHANGED offsetVars
      [] c = "ptr_union" -> UNCHANGED unionVars
      [] c = "try" -> UNCHANGED returnVars
      [] c = "test_runner" -> UNCHANGED runnerVars
      [] c = "fake" -> UNCHANGED fakeVars
      [] c = "benchmark" -> UNCHANGED benchmarkVars
      [] c = "files" -> UNCHANGED diskVars

Only(c) == component = c /\ component' = c /\ \A d \in Components \ {c} : Same(d)

AnyNext ==
    \/ Only("flyweight_map") /\ MapNext
    \/ Only("integer") /\ Numbers!Next
    \/ Only("tree") /\ Trees!Next
    \/ Only("span") /\ Spans!Next
    \/ Only("offset_ptr") /\ Offsets!Next
    \/ Only("ptr_union") /\ Unions!Next
    \/ Only("try") /\ Returns!Next
    \/ Only("test_runner") /\ Runner!Next
    \/ Only("fake") /\ Fakes!Next
    \/ Only("benchmark") /\ Benchmarks!Next
    \/ Only("files") /\ Disk!Next

\* A traversal runs to its end.
AnySpec ==
    /\ AnyInit /\ [][AnyNext]_allVars
    /\ WF_allVars(Only("tree") /\ Trees!Step)

-----------------------------------------------------------------------------
\* The answers of sets, maps and integers, after any calls, are those of the keys,
\* of the pairs and of the numbers they stand for; of integers, those that no call
\* has set which the code gets wrong.
AnswersSound ==
    /\ AnswersExact /\ ContentsExact
    /\ component = "integer" => Numbers!AnswersExact

\* Every call of an integer leaves the number that arithmetic says, or aborts, or
\* is one of those that IntegerSpec lets leave an object nothing is known of.
ImplementsSpec == Numbers!ImplementsSpec

\* What a span, an iterator or a pointer refers to is what it was made from,
\* however it was cut, moved, copied or relocated; of a union of pointers, if the
\* mask has a value for the type.
ViewsExact ==
    /\ component = "span" => Spans!ViewExact /\ Spans!IterationExact
    /\ component = "offset_ptr" => Offsets!PointersExact
    /\ component = "ptr_union" => Unions!HeldExact

\* A traversal calls what it is documented to call, in that order, and a
\* failure that NTH_TRY returns arrives at whoever deals with it.
ControlExact ==
    /\ component = "tree" => Trees!TraversalExact
    /\ component = "try" => Returns!FailuresArrive

\* Every traversal of a finite tree ends.
TraversalEnds == Trees!TraversalEnds

\* Every test runs once and its failures count, calls of fakes go to the one
\* installed last, and timers are reported with what they took, but for those
\* that registered with the sampler of an earlier run.
TestingExact ==
    /\ component = "test_runner" => Runner!RunnerExact
    /\ component = "fake" => Fakes!FakeExact
    /\ component = "benchmark" => Benchmarks!ReportsExact

\* Files, and the streams and strings they are read and written through, agree,
\* as long as no call of stdio fails of the stream.
FilesExact == component = "files" => Disk!FilesExact
=============================================================================
