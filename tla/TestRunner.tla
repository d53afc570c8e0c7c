----------------------------- MODULE TestRunner -----------------------------
(***************************************************************************)
(* Tests (test/): what NTH_TEST and NTH_INVOKE_TEST register before main   *)
(* (test/internal/test.h), the coroutine an invocation is                  *)
(* (test/internal/invocation.h), the generators it may await               *)
(* (test/generator.h), and the runner (test/main.cc), which counts the     *)
(* violations that contracts report to it from whichever thread.           *)
(***************************************************************************)
EXTENDS Naturals, Sequences, FiniteSets, Functions

CONSTANTS
    Tests,              \* tests without parameters
    Parameterized,      \* tests with parameters
    Invocations,
    Matches,            \* the pairs <<i, p>> in which the glob of i matches p
    None,
    MaxArguments,       \* bound: of one invocation
    MaxViolations,      \* bound: in all
    MaxThreads          \* bound: threads that outlive the test that started them

VARIABLES
    declared,           \* what initialization has come past
    seen,               \* the two sequences of NthInternalParameterizedTest...
    registry,           \* RegisteredTests(): <<invocation or None, test>>
    phase,              \* "init", "running", "returned", "terminated"
    index,              \* the test that is executed
    coroutine,          \* what is active of an invocation: "none", "body", "generator"
    in_test,            \* an InvokeTest is executed
    arguments,          \* how often it was
    before,             \* failure_count() when the test began
    failure_count,      \* failure_count_
    verdicts,           \* what was printed of each test
    threads,            \* history: for each thread left, the test that started it
    violated,           \* history: the tests that violated a contract
    threw,              \* history: the tests that left by an exception
    exit_code

registration == <<declared, seen, registry>>
execution == <<index, coroutine, in_test, arguments, before, verdicts>>
history == <<threads, violated, threw>>
vars == <<registration, phase, execution, failure_count, history, exit_code>>

Init ==
    /\ declared = {} /\ registry = <<>>
    /\ seen = [tests |-> <<>>, invocations |-> <<>>]
    /\ phase = "init" /\ index = 0 /\ coroutine = "none" /\ in_test = FALSE
    /\ arguments = 0 /\ before = 0 /\ failure_count = 0
    /\ verdicts = <<>> /\ threads = <<>> /\ violated = {} /\ threw = {}
    /\ exit_code = None

-----------------------------------------------------------------------------
\* Before main, in the order of the translation unit.

\* RegisterTestInvocation.
Register(entries) == registry' = registry \o entries
Declare(name) ==
    /\ phase = "init" /\ name \notin declared
    /\ declared' = declared \cup {name}
    /\ UNCHANGED <<phase, execution, failure_count, history, exit_code>>

DeclareTest(t) ==
    /\ Declare(t)
    /\ Register(<<<<None, t>>>>)
    /\ UNCHANGED seen

\* What is seen at the places that match, in the order in which it was seen.
Selected(names, places) ==
    [n \in 1 .. Cardinality(places) |->
        names[CHOOSE k \in places : Cardinality({j \in places : j <= k}) = n]]

\* RegisterInvocationsMatching.
MatchingInvocations(p) ==
    Selected(seen.invocations,
             {k \in DOMAIN seen.invocations : <<seen.invocations[k], p>> \in Matches})

\* The invocations seen that match; then the test itself is seen.
DeclareParameterized(p) ==
    /\ Declare(p)
    /\ Register([k \in DOMAIN MatchingInvocations(p) |-> <<MatchingInvocations(p)[k], p>>])
    /\ seen' = [seen EXCEPT !.tests = Append(@, p)]

\* Mutant of MatchedTests: an invocation looks at the last test only.
MatchedTestsLast(i) ==
    SelectSeq(IF seen.tests = <<>> THEN <<>> ELSE <<seen.tests[Len(seen.tests)]>>,
              LAMBDA p : <<i, p>> \in Matches)

\* RegisterTestsMatching.
MatchedTests(i) ==
    Selected(seen.tests, {k \in DOMAIN seen.tests : <<i, seen.tests[k]>> \in Matches})

DeclareInvocation(i) ==
    /\ Declare(i)
    /\ seen' = [seen EXCEPT !.invocations = Append(@, i)]
    /\ Register([k \in DOMAIN MatchedTests(i) |-> <<i, MatchedTests(i)[k]>>])

\* main: the handler is registered, the loop begins.
Start ==
    /\ phase = "init" /\ declared = Tests \cup Parameterized \cup Invocations
    /\ phase' = "running"
    /\ UNCHANGED <<registration, execution, failure_count, history, exit_code>>

-----------------------------------------------------------------------------
Executing == phase = "running" /\ index > 0
Entry == registry[index]

\* The next test: its name is printed and test() is called; a test without
\* parameters is its body, an invocation a coroutine that runs at once.
BeginTest ==
    /\ phase = "running" /\ index = 0 /\ Len(verdicts) < Len(registry)
    /\ index' = Len(verdicts) + 1
    /\ before' = failure_count
    /\ LET plain == registry[Len(verdicts) + 1][1] = None
       IN  /\ coroutine' = IF plain THEN "none" ELSE "body"
           /\ in_test' = plain
    /\ arguments' = 0
    /\ UNCHANGED <<registration, phase, failure_count, verdicts, history, exit_code>>

\* co_yield, in the invocation or in the generator it awaits.
Yield ==
    /\ Executing /\ ~in_test /\ coroutine # "none" /\ arguments < MaxArguments
    /\ in_test' = TRUE
    /\ arguments' = arguments + 1
    /\ UNCHANGED <<registration, phase, index, coroutine, before, failure_count, verdicts,
                   history, exit_code>>

\* co_await of a generator, and its end, which resumes its parent_.
Await ==
    /\ Executing /\ ~in_test /\ coroutine = "body"
    /\ coroutine' = "generator"
    /\ UNCHANGED <<registration, phase, index, in_test, arguments, before, failure_count,
                   verdicts, history, exit_code>>
FinishGenerator ==
    /\ Executing /\ ~in_test /\ coroutine = "generator"
    /\ coroutine' = "body"
    /\ UNCHANGED <<registration, phase, index, in_test, arguments, before, failure_count,
                   verdicts, history, exit_code>>

\* A contract of the test is violated: handle_contract_violation adds it.
\* NTH_EXPECT goes on, NTH_ASSERT returns from InvokeTest.
Violate(asserted) ==
    /\ Executing /\ in_test /\ failure_count < MaxViolations
    /\ failure_count' = failure_count + 1
    /\ violated' = violated \cup {index}
    /\ in_test' = ~asserted
    /\ UNCHANGED <<registration, phase, index, coroutine, arguments, before, verdicts,
                   threads, threw, exit_code>>

StartThread ==
    /\ Executing /\ in_test /\ Len(threads) < MaxThreads
    /\ threads' = Append(threads, index)
    /\ UNCHANGED <<registration, phase, execution, failure_count, violated, threw, exit_code>>

\* A thread that a test started and did not wait for violates one.
ViolateLate(k) ==
    /\ phase = "running" /\ failure_count < MaxViolations
    /\ failure_count' = failure_count + 1
    /\ violated' = violated \cup {threads[k]}
    /\ UNCHANGED <<registration, phase, execution, threads, threw, exit_code>>

EndBody ==
    /\ Executing /\ in_test
    /\ in_test' = FALSE
    /\ UNCHANGED <<registration, phase, index, coroutine, arguments, before, failure_count,
                   verdicts, history, exit_code>>

\* An exception leaves a test: main does not catch it, but unhandled_exception
\* of a coroutine drops it, and the coroutine is over.
Throw ==
    /\ Executing /\ in_test
    /\ threw' = threw \cup {index}
    /\ in_test' = FALSE
    /\ phase' = IF coroutine = "none" THEN "terminated" ELSE phase
    /\ coroutine' = IF coroutine = "generator" THEN "body" ELSE "none"
    /\ UNCHANGED <<registration, index, arguments, before, failure_count, verdicts,
                   threads, violated, exit_code>>

CoReturn ==
    /\ Executing /\ ~in_test /\ coroutine = "body"
    /\ coroutine' = "none"
    /\ UNCHANGED <<registration, phase, index, in_test, arguments, before, failure_count,
                   verdicts, history, exit_code>>

\* test() has returned.
EndTest ==
    /\ Executing /\ ~in_test /\ coroutine = "none"
    /\ verdicts' = Append(verdicts, IF before = failure_count THEN "PASSED" ELSE "FAILED")
    /\ index' = 0
    /\ UNCHANGED <<registration, phase, coroutine, in_test, arguments, before, failure_count,
                   history, exit_code>>

Return ==
    /\ phase = "running" /\ index = 0 /\ Len(verdicts) = Len(registry)
    /\ exit_code' = IF failure_count = 0 THEN 0 ELSE 1
    /\ phase' = "returned"
    /\ UNCHANGED <<registration, execution, failure_count, history>>

Step == BeginTest \/ Yield \/ FinishGenerator \/ EndBody \/ CoReturn \/ EndTest \/ Return
Next ==
    \/ \E t \in Tests : DeclareTest(t)
    \/ \E p \in Parameterized : DeclareParameterized(p)
    \/ \E i \in Invocations : DeclareInvocation(i)
    \/ Start \/ Step \/ Await \/ Throw \/ StartThread
    \/ \E asserted \in BOOLEAN : Violate(asserted)
    \/ \E k \in DOMAIN threads : ViolateLate(k)
Spec == Init /\ [][Next]_vars

-----------------------------------------------------------------------------
\* What has to run: every test without parameters, and every pair of an
\* invocation and a test that it matches, in whichever order they stand.
Expected == {<<None, t>> : t \in Tests} \cup (Matches \cap (Invocations \X Parameterized))

\* No test is run twice, none is left out, none runs under a wrong verdict, and
\* the exit code tells of every violation that came before it (main.cc:80-105,
\* test.h:45-75); a test failed if a contract was violated since it began, by a
\* thread of an earlier test too, and an exception in an invocation is lost.
RunnerExact ==
    /\ phase # "init" =>
         /\ Range(registry) = Expected
         /\ Len(registry) = Cardinality(Expected)
    /\ \A k \in DOMAIN verdicts :
         /\ verdicts[k] = "PASSED" => k \notin violated \/ k \in Range(threads)
         /\ verdicts[k] = "FAILED" =>
              k \in violated \/ \E j \in Range(threads) : j < k /\ j \in violated
         /\ k \in threw => registry[k][1] # None
    /\ phase = "returned" =>
         /\ Len(verdicts) = Len(registry)
         /\ exit_code = 0 <=> violated = {}
=============================================================================
