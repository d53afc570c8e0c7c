-------------------------- MODULE UtilitiesProofs --------------------------
(***************************************************************************)
(* Proofs about the other components of MCUtilities (sets and maps of      *)
(* flyweights and integers are in AnswersProofs): tests, fakes and timers, *)
(* views and pointers, files, traversals and macros that leave a function. *)
(* Each has an inductive invariant of its own; in a behaviour one          *)
(* component steps, and the rest stay as they begin.                       *)
(***************************************************************************)
EXTENDS MCUtilities, SequenceTheorems, FiniteSetTheorems, WellFoundedInduction, TLAPS

-----------------------------------------------------------------------------
(* The test runner.                                                        *)

\* s names every member of S once.
Lists(s, S) ==
    /\ s \in Seq(S)
    /\ \A j, k \in DOMAIN s : s[j] = s[k] => j = k
    /\ \A x \in S : \E k \in DOMAIN s : s[k] = x

\* Appending a name that is new.
LEMMA ListsAppend ==
    ASSUME NEW s, NEW S, Lists(s, S), NEW x, x \notin S
    PROVE  Lists(Append(s, x), S \union {x})
<1> DEFINE T == S \union {x}
           u == Append(s, x)
<1>1. s \in Seq(S) /\ s \in Seq(T) /\ x \in T
  BY SeqMonotonic DEF Lists
<1>2. PICK n \in Nat : n = Len(s) /\ DOMAIN s = 1 .. n
  BY <1>1
<1>3. /\ u \in Seq(T) /\ DOMAIN u = 1 .. n + 1 /\ u[n + 1] = x
      /\ \A k \in 1 .. n : u[k] = s[k] /\ s[k] \in S
  BY <1>1, <1>2
<1> HIDE DEF u
<1>4. \A k \in 1 .. n + 1 : k = n + 1 \/ k \in 1 .. n
  OBVIOUS
<1>5. 1 .. n \subseteq 1 .. n + 1 /\ n + 1 \in 1 .. n + 1
  OBVIOUS
<1>6. \A j, k \in 1 .. n : s[j] = s[k] => j = k
  BY <1>2 DEF Lists
<1>7. ASSUME NEW j \in DOMAIN u, NEW k \in DOMAIN u, u[j] = u[k] PROVE j = k
  <2>1. CASE j \in 1 .. n /\ k \in 1 .. n
    BY <1>3, <1>6, <1>7, <2>1
  <2>2. CASE j = n + 1 \/ k = n + 1
    BY <1>3, <1>4, <1>7, <2>2
  <2> QED
    BY <1>3, <1>4, <2>1, <2>2
<1>8. \A y \in T : \E k \in DOMAIN u : u[k] = y
  <2>1. \A y \in S : \E k \in 1 .. n : s[k] = y
    BY <1>2 DEF Lists
  <2> QED
    BY <1>3, <1>5, <2>1
<1> QED
  BY <1>3, <1>7, <1>8, Zenon DEF Lists, u

\* Appending names that are all new.
LEMMA ListsConcat ==
    ASSUME NEW s, NEW S, NEW t, NEW T, Lists(s, S), Lists(t, T), S \intersect T = {}
    PROVE  Lists(s \o t, S \union T)
<1> DEFINE u == s \o t
<1>1. s \in Seq(S) /\ t \in Seq(T) /\ s \in Seq(S \union T) /\ t \in Seq(S \union T)
  BY SeqMonotonic DEF Lists
<1>2. PICK m \in Nat, n \in Nat : /\ m = Len(s) /\ DOMAIN s = 1 .. m
                                  /\ n = Len(t) /\ DOMAIN t = 1 .. n
  BY <1>1
<1>3. /\ u \in Seq(S \union T) /\ DOMAIN u = 1 .. m + n
      /\ \A k \in 1 .. m : u[k] = s[k] /\ s[k] \in S
      /\ \A k \in 1 .. m + n : k > m => u[k] = t[k - m] /\ t[k - m] \in T /\ k - m \in 1 .. n
  BY <1>1, <1>2
<1> HIDE DEF u
<1>4. \A k \in 1 .. m + n : k \in 1 .. m \/ k > m
  OBVIOUS
<1>5. (\A j, k \in 1 .. m : s[j] = s[k] => j = k) /\ (\A j, k \in 1 .. n : t[j] = t[k] => j = k)
  BY <1>2, SMTT(30) DEF Lists
<1>6. ASSUME NEW j \in 1 .. m + n, NEW k \in 1 .. m + n, u[j] = u[k] PROVE j = k
  <2>1. CASE j \in 1 .. m /\ k \in 1 .. m
    BY <1>3, <1>5, <1>6, <2>1
  <2>2. CASE j > m /\ k > m
    <3>1. j - m = k - m
      BY <1>3, <1>5, <1>6, <2>2
    <3> QED
      BY <3>1
  <2>3. CASE (j \in 1 .. m /\ k > m) \/ (k \in 1 .. m /\ j > m)
    BY <1>3, <1>6, <2>3, Zenon
  <2> QED
    BY <1>4, <2>1, <2>2, <2>3
<1>7. ASSUME NEW y \in S \union T PROVE \E k \in 1 .. m + n : u[k] = y
  <2>1. CASE y \in S
    <3>1. PICK k \in 1 .. m : s[k] = y
      BY <1>2, <2>1 DEF Lists
    <3>2. k \in 1 .. m + n
      OBVIOUS
    <3> QED
      BY <1>3, <3>1, <3>2
  <2>2. CASE y \in T
    <3>1. PICK k \in 1 .. n : t[k] = y
      BY <1>2, <2>2 DEF Lists
    <3>2. k + m \in 1 .. m + n /\ k + m > m /\ (k + m) - m = k
      OBVIOUS
    <3> QED
      BY <1>3, <3>1, <3>2
  <2> QED
    BY <2>1, <2>2
<1> QED
  BY <1>3, <1>6, <1>7, Zenon DEF Lists, u

\* The runner counts as the library does.
LEMMA RunnerCounted == \A S : Runner!Cardinality(S) = Cardinality(S)
  BY Zenon DEF Cardinality, Runner!Cardinality

\* A list is as long as its set is large.
LEMMA ListsLength ==
    ASSUME NEW s, NEW S, Lists(s, S)
    PROVE  Len(s) = Runner!Cardinality(S)
<1>1. PICK n \in Nat : n = Len(s) /\ DOMAIN s = 1 .. n
  BY DEF Lists
<1>2. s \in [1 .. n -> S]
  BY <1>1 DEF Lists
<1>3. /\ \A j, k \in 1 .. n : s[j] = s[k] => j = k
      /\ \A x \in S : \E k \in 1 .. n : s[k] = x
  BY <1>1 DEF Lists
<1>4. ExistsBijection(1 .. n, S)
  BY <1>2, <1>3 DEF ExistsBijection, Bijection, Injection, Surjection, IsInjective
<1>5. Cardinality(S) = n
  BY <1>4, FS_CountingElements
<1> QED
  BY <1>1, <1>5, RunnerCounted

\* Each of finitely many places has a rank of its own, and each rank a place.
LEMMA Ranked ==
    ASSUME NEW n \in Nat, NEW P \in SUBSET (1 .. n)
    PROVE  /\ Cardinality(P) \in Nat
           /\ \A k \in P : Cardinality({j \in P : j <= k}) \in 1 .. Cardinality(P)
           /\ \A j, k \in P : Cardinality({i \in P : i <= j}) = Cardinality({i \in P : i <= k})
                                 => j = k
           /\ \A m \in 1 .. Cardinality(P) :
                 \E k \in P : Cardinality({j \in P : j <= k}) = m
<1> DEFINE Upto(k) == {j \in P : j <= k}
           c == Cardinality(P)
           f == [k \in P |-> Cardinality(Upto(k))]
<1>1. IsFiniteSet(P) /\ c \in Nat
  <2>1. IsFiniteSet(1 .. n)
    BY FS_Interval
  <2>2. IsFiniteSet(P)
    BY <2>1, FS_Subset, Zenon
  <2> QED
    BY <2>2, FS_CardinalityType
<1>2. ASSUME NEW k \in P PROVE f[k] \in 1 .. c
  <2>1. IsFiniteSet(Upto(k)) /\ Cardinality(Upto(k)) \in Nat /\ Cardinality(Upto(k)) <= c
    BY <1>1, FS_Subset, FS_CardinalityType
  <2>2. k \in Upto(k)
    OBVIOUS
  <2>3. Cardinality(Upto(k)) # 0
    BY <2>1, <2>2, FS_EmptySet
  <2> HIDE DEF Upto, c
  <2> QED
    BY <1>1, <2>1, <2>3
<1>3. ASSUME NEW j \in P, NEW k \in P, j < k PROVE f[j] # f[k]
  <2>0. P \subseteq Int /\ j \in Int /\ k \in Int
    OBVIOUS
  <2>3. \A i \in Int : i <= j => i <= k
    BY <1>3, <2>0
  <2>4. k <= k /\ ~ k <= j
    BY <1>3, <2>0
  <2>1. Upto(j) \subseteq Upto(k) /\ k \in Upto(k) /\ k \notin Upto(j)
    BY <2>0, <2>3, <2>4, Zenon
  <2>2. IsFiniteSet(Upto(k))
    BY <1>1, FS_Subset
  <2> HIDE DEF Upto
  <2> QED
    BY <2>1, <2>2, FS_Subset
<1>4. \A j, k \in P : f[j] = f[k] => j = k
  <2> SUFFICES ASSUME NEW j \in P, NEW k \in P, j # k PROVE f[j] # f[k]
    OBVIOUS
  <2>1. j < k \/ k < j
    OBVIOUS
  <2> HIDE DEF f
  <2> QED
    BY <1>3, <2>1
<1>5. f \in Injection(P, 1 .. c)
  <2>1. f \in [P -> 1 .. c]
    BY <1>2
  <2> HIDE DEF f, c
  <2> QED
    BY <1>4, <2>1 DEF Injection, IsInjective
<1>6. IsFiniteSet(1 .. c) /\ Cardinality(1 .. c) = c
  BY <1>1, FS_Interval
<1>7. f \in Surjection(P, 1 .. c)
  <2> HIDE DEF f
  <2> QED
    BY <1>5, <1>6, FS_Injection
<1>8. \A m \in 1 .. c : \E k \in P : f[k] = m
  <2> HIDE DEF f, c
  <2> QED
    BY <1>7 DEF Surjection
<1> QED
  BY <1>1, <1>2, <1>4, <1>8

\* What is selected of a list lists what it is to select.
LEMMA SelectedLists ==
    ASSUME NEW s, NEW S, Lists(s, S), NEW T
    PROVE  Lists(Runner!Selected(s, {k \in DOMAIN s : s[k] \in T}), S \intersect T)
<1> DEFINE P == {k \in DOMAIN s : s[k] \in T}
           u == Runner!Selected(s, P)
           Nth(m) == CHOOSE k \in P : Runner!Cardinality({j \in P : j <= k}) = m
           Rank(k) == Cardinality({j \in P : j <= k})
           c == Cardinality(P)
<1>1. PICK n \in Nat : n = Len(s) /\ DOMAIN s = 1 .. n
  BY DEF Lists
<1>2. P \in SUBSET (1 .. n)
  BY <1>1
<1>3. /\ c \in Nat /\ \A k \in P : Rank(k) \in 1 .. c
      /\ \A j, k \in P : Rank(j) = Rank(k) => j = k
      /\ \A m \in 1 .. c : \E k \in P : Rank(k) = m
  BY <1>2, Ranked, Zenon
<1>4. \A m \in 1 .. c : Nth(m) \in P /\ Rank(Nth(m)) = m
  <2>1. \A m \in 1 .. c : \E k \in P : Runner!Cardinality({j \in P : j <= k}) = m
    BY <1>3, RunnerCounted, Zenon
  <2>2. \A m \in 1 .. c : Nth(m) \in P /\ Runner!Cardinality({j \in P : j <= Nth(m)}) = m
    BY <2>1, Zenon
  <2> QED
    BY <2>2, RunnerCounted, Zenon
<1>5. u = [m \in 1 .. c |-> s[Nth(m)]]
  BY RunnerCounted DEF Runner!Selected
<1>6. \A k \in P : s[k] \in S \intersect T
  BY DEF Lists
<1>7. \A j, k \in P : s[j] = s[k] => j = k
  BY DEF Lists
<1>8. \A x \in S \intersect T : \E k \in P : s[k] = x
  BY DEF Lists
<1> HIDE DEF P, Rank, Nth, u, c
<1>9. u \in Seq(S \intersect T) /\ DOMAIN u = 1 .. c
  <2>1. u \in [1 .. c -> S \intersect T]
    BY <1>4, <1>5, <1>6
  <2> QED
    BY <1>3, <2>1
<1>10. \A j, k \in 1 .. c : u[j] = u[k] => j = k
  <2> SUFFICES ASSUME NEW j \in 1 .. c, NEW k \in 1 .. c, u[j] = u[k] PROVE j = k
    OBVIOUS
  <2>1. s[Nth(j)] = s[Nth(k)]
    BY <1>5
  <2>2. Nth(j) = Nth(k)
    BY <1>4, <1>7, <2>1
  <2> QED
    BY <1>4, <2>2
<1>11. \A x \in S \intersect T : \E k \in 1 .. c : u[k] = x
  <2> SUFFICES ASSUME NEW x \in S \intersect T PROVE \E k \in 1 .. c : u[k] = x
    OBVIOUS
  <2>1. PICK k \in P : s[k] = x
    BY <1>8
  <2>2. Rank(k) \in 1 .. c /\ Nth(Rank(k)) = k
    BY <1>3, <1>4
  <2> QED
    BY <1>5, <2>1, <2>2
<1> QED
  BY <1>9, <1>10, <1>11, Zenon DEF Lists, u, P

\* What is registered of what initialization came past.
Due(names) ==
    {<<Nothing, t>> : t \in names \intersect Tests} \union
    (MCMatches \intersect ((names \intersect Invocations) \X (names \intersect Parameterized)))

\* What initialization comes past.
Names == Tests \union Parameterized \union Invocations

\* The lists of internal_test.cc, and the registry they were made into.
Registration ==
    /\ declared \subseteq Names
    /\ seen = [tests |-> seen.tests, invocations |-> seen.invocations]
    /\ Lists(seen.tests, declared \intersect Parameterized)
    /\ Lists(seen.invocations, declared \intersect Invocations)
    /\ Lists(registry, Due(declared))
    /\ phase # "init" => declared = Names

\* The test that is executed, after those that are over.
Current == IF testIndex = 0 THEN Len(verdicts) ELSE testIndex
Counted ==
    /\ phase \in {"init", "running", "returned", "terminated"}
    /\ verdicts \in Seq({"PASSED", "FAILED"}) /\ threads \in Seq(Nat)
    /\ failure_count \in Nat /\ before \in Nat
    /\ testIndex = 0 \/ (testIndex = Len(verdicts) + 1 /\ testIndex <= Len(registry))
    /\ phase = "init" => verdicts = <<>> /\ testIndex = 0
    /\ coroutine # "none" => testIndex # 0 /\ registry[testIndex][1] # Nothing
    /\ in_test => testIndex # 0
    /\ Len(verdicts) <= Len(registry)
    /\ violated \subseteq 1 .. Current /\ threw \subseteq 1 .. Current
    /\ \A k \in DOMAIN threads : threads[k] \in 1 .. Current
    /\ failure_count = 0 <=> violated = {}

\* The failures that are counted while a test is executed are its own, or those
\* of the threads of a test before it.
Earlier(k) == \E j \in DOMAIN threads : threads[j] < k /\ threads[j] \in violated
Blamed ==
    testIndex # 0 =>
       /\ before <= failure_count
       /\ testIndex \in violated => before # failure_count
       /\ before # failure_count => testIndex \in violated \/ Earlier(testIndex)
       /\ testIndex \in threw => registry[testIndex][1] # Nothing \/ phase = "terminated"

\* The verdicts, and the exit code.
Judged ==
    /\ \A k \in DOMAIN verdicts :
         /\ verdicts[k] = "PASSED" =>
              k \notin violated \/ \E j \in DOMAIN threads : threads[j] = k
         /\ verdicts[k] = "FAILED" => k \in violated \/ Earlier(k)
         /\ k \in threw => registry[k][1] # Nothing
    /\ phase = "returned" =>
         /\ Len(verdicts) = Len(registry)
         /\ exit_code = 0 <=> violated = {}

\* The inductive invariant of the test runner.
RunnerInv == Registration /\ Counted /\ Blamed /\ Judged

\* Whatever does not register, judge or count keeps most of it.
LEMMA RegistrationKept ==
    ASSUME Registration, UNCHANGED <<declared, seen, registry>>, phase # "init" \/ phase' = phase
    PROVE  Registration'
BY DEF Registration

\* Initialization comes past one more name.
LEMMA DeclareKeeps ==
    ASSUME RunnerInv, NEW name \in Names, Runner!Declare(name), NEW entries,
           Runner!Register(entries), Registration'
    PROVE  RunnerInv'
<1>1. /\ phase = "init" /\ registry' = registry \o entries
      /\ UNCHANGED <<phase, testIndex, coroutine, in_test, arguments, before, verdicts,
                     failure_count, threads, violated, threw, exit_code>>
  BY DEF Runner!Declare, Runner!Register, Runner!execution, Runner!history
<1>2. verdicts = <<>> /\ testIndex = 0
  BY <1>1 DEF RunnerInv, Counted
<1>3. Len(registry') \in Nat
  BY DEF Registration, Lists
<1>4. coroutine = "none" /\ ~ in_test
  BY <1>2 DEF RunnerInv, Counted
<1>5. Counted'
  BY <1>1, <1>2, <1>3, <1>4 DEF RunnerInv, Counted, Current
<1>6. Blamed' /\ Judged'
  BY <1>1, <1>2 DEF Blamed, Judged
<1> QED
  BY <1>5, <1>6 DEF RunnerInv

\* No name is of two kinds, and nothing is not the name of an invocation.
KindsApart ==
    /\ Tests \intersect Parameterized = {} /\ Tests \intersect Invocations = {}
    /\ Parameterized \intersect Invocations = {} /\ Nothing \notin Invocations

\* What a name that is new makes due: a test itself;
LEMMA DueTest ==
    ASSUME KindsApart, NEW names \in SUBSET Names, NEW t \in Tests
    PROVE  Due(names \union {t}) = Due(names) \union {<<Nothing, t>>}
<1>1. /\ (names \union {t}) \intersect Parameterized = names \intersect Parameterized
      /\ (names \union {t}) \intersect Invocations = names \intersect Invocations
      /\ (names \union {t}) \intersect Tests = (names \intersect Tests) \union {t}
  BY DEF KindsApart
<1> QED
  BY <1>1 DEF Due

\* a parameterized test with the invocations that match it so far;
LEMMA DueParameterized ==
    ASSUME KindsApart, NEW names \in SUBSET Names, NEW p \in Parameterized \ names,
           NEW known, known = {i \in names \intersect Invocations : <<i, p>> \in MCMatches}
    PROVE  /\ Due(names \union {p}) = Due(names) \union {<<i, p>> : i \in known}
           /\ Due(names) \intersect {<<i, p>> : i \in known} = {}
<1> DEFINE more == {<<i, p>> : i \in known}
           I == names \intersect Invocations
           P == names \intersect Parameterized
<1>1. /\ (names \union {p}) \intersect Parameterized = P \union {p}
      /\ (names \union {p}) \intersect Invocations = I
      /\ (names \union {p}) \intersect Tests = names \intersect Tests
  BY DEF KindsApart
<1>2. MCMatches \intersect (I \X (P \union {p})) = (MCMatches \intersect (I \X P)) \union more
  BY DEF MCMatches
<1>3. Due(names \union {p}) = Due(names) \union more
  BY <1>1, <1>2, Zenon DEF Due
<1>4. \A i \in Invocations : <<i, p>> \notin Due(names)
  BY DEF Due, KindsApart
<1> QED
  BY <1>3, <1>4, Zenon

\* an invocation with the parameterized tests that it matches so far.
LEMMA DueInvocation ==
    ASSUME KindsApart, NEW names \in SUBSET Names, NEW i \in Invocations \ names,
           NEW known, known = {p \in names \intersect Parameterized : <<i, p>> \in MCMatches}
    PROVE  /\ Due(names \union {i}) = Due(names) \union {<<i, p>> : p \in known}
           /\ Due(names) \intersect {<<i, p>> : p \in known} = {}
<1> DEFINE more == {<<i, p>> : p \in known}
           I == names \intersect Invocations
           P == names \intersect Parameterized
<1>1. /\ (names \union {i}) \intersect Invocations = I \union {i}
      /\ (names \union {i}) \intersect Parameterized = P
      /\ (names \union {i}) \intersect Tests = names \intersect Tests
  BY DEF KindsApart
<1>2. MCMatches \intersect ((I \union {i}) \X P) = (MCMatches \intersect (I \X P)) \union more
  BY DEF MCMatches
<1>3. Due(names \union {i}) = Due(names) \union more
  BY <1>1, <1>2, Zenon DEF Due
<1>4. \A p : <<i, p>> \notin Due(names)
  BY DEF Due, KindsApart
<1> QED
  BY <1>3, <1>4, Zenon

\* A test registers itself.
LEMMA DeclareTestKeeps ==
    ASSUME KindsApart, RunnerInv, NEW t \in Tests, Runner!DeclareTest(t)
    PROVE  RunnerInv'
<1>1. /\ t \notin declared /\ declared' = declared \union {t} /\ phase = "init" /\ phase' = phase
      /\ seen' = seen /\ registry' = registry \o <<<<Nothing, t>>>>
  BY DEF Runner!DeclareTest, Runner!Declare, Runner!Register
<1>2. declared \subseteq Names /\ t \in Names
  BY DEF RunnerInv, Registration, Names
<1>3. Due(declared') = Due(declared) \union {<<Nothing, t>>}
  BY <1>1, <1>2, DueTest
<1>4. <<Nothing, t>> \notin Due(declared)
  BY <1>1 DEF Due, KindsApart
<1>5. registry' = Append(registry, <<Nothing, t>>)
  BY <1>1 DEF RunnerInv, Registration, Lists
<1>6. Lists(registry', Due(declared'))
  BY <1>3, <1>4, <1>5, ListsAppend DEF RunnerInv, Registration
<1>7. /\ declared' \intersect Parameterized = declared \intersect Parameterized
      /\ declared' \intersect Invocations = declared \intersect Invocations
  BY <1>1 DEF KindsApart
<1>8. Registration'
  BY <1>1, <1>2, <1>6, <1>7, Zenon DEF RunnerInv, Registration
<1> QED
  BY <1>2, <1>8, DeclareKeeps DEF Runner!DeclareTest

\* A list of pairs, of which all have one side in common.
LEMMA ListsPairs ==
    ASSUME NEW s, NEW S, Lists(s, S), NEW x, NEW pairs, NEW all,
           \/ pairs = [k \in DOMAIN s |-> <<s[k], x>>] /\ all = {<<y, x>> : y \in S}
           \/ pairs = [k \in DOMAIN s |-> <<x, s[k]>>] /\ all = {<<x, y>> : y \in S}
    PROVE  Lists(pairs, all)
<1>1. PICK n \in Nat : n = Len(s) /\ DOMAIN s = 1 .. n
  BY DEF Lists
<1>2. /\ \A k \in 1 .. n : s[k] \in S
      /\ \A j, k \in 1 .. n : s[j] = s[k] => j = k
      /\ \A y \in S : \E k \in 1 .. n : s[k] = y
  BY <1>1 DEF Lists
<1>3. ASSUME NEW T, NEW u \in [1 .. n -> T] PROVE u \in Seq(T) /\ DOMAIN u = 1 .. n
  BY <1>3
<1> DEFINE u == [k \in 1 .. n |-> <<s[k], x>>]
           T == {<<y, x>> : y \in S}
           v == [k \in 1 .. n |-> <<x, s[k]>>]
           V == {<<x, y>> : y \in S}
<1>4. u \in Seq(T) /\ DOMAIN u = 1 .. n
  <2>1. u \in [1 .. n -> T]
    BY <1>2
  <2> HIDE DEF u, T
  <2> QED
    BY <1>3, <2>1
<1>5. v \in Seq(V) /\ DOMAIN v = 1 .. n
  <2>1. v \in [1 .. n -> V]
    BY <1>2
  <2> HIDE DEF v, V
  <2> QED
    BY <1>3, <2>1
<1>6. /\ \A j, k \in 1 .. n : u[j] = u[k] => j = k
      /\ \A y \in T : \E k \in 1 .. n : u[k] = y
  BY <1>2
<1>7. /\ \A j, k \in 1 .. n : v[j] = v[k] => j = k
      /\ \A y \in V : \E k \in 1 .. n : v[k] = y
  BY <1>2
<1>8. Lists(u, T)
  <2> HIDE DEF u, T
  <2> QED
    BY <1>4, <1>6 DEF Lists
<1>9. Lists(v, V)
  <2> HIDE DEF v, V
  <2> QED
    BY <1>5, <1>7 DEF Lists
<1> QED
  BY <1>1, <1>8, <1>9, Zenon

\* A parameterized test registers with what was seen before it.
LEMMA DeclareParameterizedKeeps ==
    ASSUME KindsApart, RunnerInv, NEW p \in Parameterized,
           Runner!DeclareParameterized(p)
    PROVE  RunnerInv'
<1> DEFINE M == Runner!MatchingInvocations(p)
           entries == [k \in DOMAIN M |-> <<M[k], p>>]
           known == {i \in declared \intersect Invocations : <<i, p>> \in MCMatches}
<1>1. /\ p \notin declared /\ declared' = declared \union {p} /\ phase = "init" /\ phase' = phase
      /\ seen' = [seen EXCEPT !.tests = Append(@, p)] /\ registry' = registry \o entries
  BY DEF Runner!DeclareParameterized, Runner!Declare, Runner!Register
<1>2. declared \subseteq Names /\ p \in Names
  BY DEF RunnerInv, Registration, Names
<1>3. Lists(M, known)
  <2> DEFINE T == {i \in Invocations : <<i, p>> \in MCMatches}
             s == seen.invocations
  <2>1. Lists(s, declared \intersect Invocations)
    BY DEF RunnerInv, Registration
  <2>5. \A k \in DOMAIN s : s[k] \in Invocations
    BY <2>1 DEF Lists
  <2>2. {k \in DOMAIN s : <<s[k], p>> \in MCMatches} = {k \in DOMAIN s : s[k] \in T}
    BY <2>5
  <2>3. M = Runner!Selected(s, {k \in DOMAIN s : s[k] \in T})
    BY <2>2, Zenon DEF Runner!MatchingInvocations
  <2>4. known = (declared \intersect Invocations) \intersect T
    OBVIOUS
  <2> HIDE DEF T, s, M, known
  <2> QED
    BY <2>1, <2>3, <2>4, SelectedLists, Zenon
<1> DEFINE more == {<<i, p>> : i \in known}
<1> HIDE DEF M
<1>4. Lists(entries, more)
  <2>1. entries = [k \in DOMAIN M |-> <<M[k], p>>] /\ more = {<<i, p>> : i \in known}
    OBVIOUS
  <2> HIDE DEF entries, known, more
  <2>2. \/ entries = [k \in DOMAIN M |-> <<M[k], p>>] /\ more = {<<y, p>> : y \in known}
        \/ entries = [k \in DOMAIN M |-> <<p, M[k]>>] /\ more = {<<p, y>> : y \in known}
    BY <2>1
  <2> QED
    BY <1>3, <2>2, ListsPairs
<1>5. Due(declared') = Due(declared) \union more /\ Due(declared) \intersect more = {}
  <2>1. known = {i \in declared \intersect Invocations : <<i, p>> \in MCMatches}
    OBVIOUS
  <2>2. declared \in SUBSET Names /\ p \in Parameterized \ declared
    BY <1>1, <1>2
  <2> HIDE DEF known
  <2>3. /\ Due(declared \union {p}) = Due(declared) \union {<<i, p>> : i \in known}
        /\ Due(declared) \intersect {<<i, p>> : i \in known} = {}
    BY <2>1, <2>2, DueParameterized, Zenon
  <2> QED
    BY <1>1, <2>3, Zenon
<1> HIDE DEF entries, known, more
<1>6. Lists(registry', Due(declared'))
  <2>1. Lists(registry, Due(declared))
    BY DEF RunnerInv, Registration
  <2>2. Lists(registry \o entries, Due(declared) \union more)
    BY <1>4, <1>5, <2>1, ListsConcat
  <2> QED
    BY <1>1, <1>5, <2>2, Zenon
<1>7. /\ declared' \intersect Parameterized = (declared \intersect Parameterized) \union {p}
      /\ declared' \intersect Invocations = declared \intersect Invocations
  BY <1>1 DEF KindsApart
<1>8. /\ seen'.tests = Append(seen.tests, p) /\ seen'.invocations = seen.invocations
      /\ seen' = [tests |-> seen'.tests, invocations |-> seen'.invocations]
  BY <1>1, Zenon DEF RunnerInv, Registration
<1>9. Lists(seen'.tests, declared' \intersect Parameterized)
  <2>1. p \notin declared \intersect Parameterized
    BY <1>1
  <2> QED
    BY <1>7, <1>8, <2>1, ListsAppend DEF RunnerInv, Registration
<1>10. Registration'
  BY <1>1, <1>2, <1>6, <1>7, <1>8, <1>9, Zenon DEF RunnerInv, Registration
<1> QED
  BY <1>2, <1>10, DeclareKeeps DEF Runner!DeclareParameterized

\* An invocation registers with what was seen before it.
LEMMA DeclareInvocationKeeps ==
    ASSUME KindsApart, RunnerInv, NEW i \in Invocations,
           Runner!DeclareInvocation(i)
    PROVE  RunnerInv'
<1> DEFINE M == Runner!MatchedTests(i)
           entries == [k \in DOMAIN M |-> <<i, M[k]>>]
           known == {p \in declared \intersect Parameterized : <<i, p>> \in MCMatches}
<1>1. /\ i \notin declared /\ declared' = declared \union {i} /\ phase = "init" /\ phase' = phase
      /\ seen' = [seen EXCEPT !.invocations = Append(@, i)] /\ registry' = registry \o entries
  BY DEF Runner!DeclareInvocation, Runner!Declare, Runner!Register
<1>2. declared \subseteq Names /\ i \in Names
  BY DEF RunnerInv, Registration, Names
<1>3. Lists(M, known)
  <2> DEFINE T == {p \in Parameterized : <<i, p>> \in MCMatches}
             s == seen.tests
  <2>1. Lists(s, declared \intersect Parameterized)
    BY DEF RunnerInv, Registration
  <2>5. \A k \in DOMAIN s : s[k] \in Parameterized
    BY <2>1 DEF Lists
  <2>2. {k \in DOMAIN s : <<i, s[k]>> \in MCMatches} = {k \in DOMAIN s : s[k] \in T}
    BY <2>5
  <2>3. M = Runner!Selected(s, {k \in DOMAIN s : s[k] \in T})
    BY <2>2, Zenon DEF Runner!MatchedTests
  <2>4. known = (declared \intersect Parameterized) \intersect T
    OBVIOUS
  <2> HIDE DEF T, s, M, known
  <2> QED
    BY <2>1, <2>3, <2>4, SelectedLists, Zenon
<1> DEFINE more == {<<i, p>> : p \in known}
<1> HIDE DEF M
<1>4. Lists(entries, more)
  <2>1. entries = [k \in DOMAIN M |-> <<i, M[k]>>] /\ more = {<<i, p>> : p \in known}
    OBVIOUS
  <2> HIDE DEF entries, known, more
  <2>2. \/ entries = [k \in DOMAIN M |-> <<M[k], i>>] /\ more = {<<y, i>> : y \in known}
        \/ entries = [k \in DOMAIN M |-> <<i, M[k]>>] /\ more = {<<i, y>> : y \in known}
    BY <2>1
  <2> QED
    BY <1>3, <2>2, ListsPairs
<1>5. Due(declared') = Due(declared) \union more /\ Due(declared) \intersect more = {}
  <2>1. known = {p \in declared \intersect Parameterized : <<i, p>> \in MCMatches}
    OBVIOUS
  <2>2. declared \in SUBSET Names /\ i \in Invocations \ declared
    BY <1>1, <1>2
  <2> HIDE DEF known
  <2>3. /\ Due(declared \union {i}) = Due(declared) \union {<<i, p>> : p \in known}
        /\ Due(declared) \intersect {<<i, p>> : p \in known} = {}
    BY <2>1, <2>2, DueInvocation, Zenon
  <2> QED
    BY <1>1, <2>3, Zenon
<1> HIDE DEF entries, known, more
<1>6. Lists(registry', Due(declared'))
  <2>1. Lists(registry, Due(declared))
    BY DEF RunnerInv, Registration
  <2>2. Lists(registry \o entries, Due(declared) \union more)
    BY <1>4, <1>5, <2>1, ListsConcat
  <2> QED
    BY <1>1, <1>5, <2>2, Zenon
<1>7. /\ declared' \intersect Invocations = (declared \intersect Invocations) \union {i}
      /\ declared' \intersect Parameterized = declared \intersect Parameterized
  BY <1>1 DEF KindsApart
<1>8. /\ seen'.invocations = Append(seen.invocations, i) /\ seen'.tests = seen.tests
      /\ seen' = [tests |-> seen'.tests, invocations |-> seen'.invocations]
  BY <1>1, Zenon DEF RunnerInv, Registration
<1>9. Lists(seen'.invocations, declared' \intersect Invocations)
  <2>1. i \notin declared \intersect Invocations
    BY <1>1
  <2> QED
    BY <1>7, <1>8, <2>1, ListsAppend DEF RunnerInv, Registration
<1>10. Registration'
  BY <1>1, <1>2, <1>6, <1>7, <1>8, <1>9, Zenon DEF RunnerInv, Registration
<1> QED
  BY <1>2, <1>10, DeclareKeeps DEF Runner!DeclareInvocation

\* What a step in the course of the tests leaves as it is.

\* A test begins.
LEMMA BeginTestKeeps == ASSUME RunnerInv, Runner!BeginTest PROVE RunnerInv'
<1> DEFINE n == Len(verdicts)
<1>1. /\ phase = "running" /\ testIndex = 0 /\ n < Len(registry) /\ testIndex' = n + 1
      /\ before' = failure_count
      /\ coroutine' = IF registry[n + 1][1] = Nothing THEN "none" ELSE "body"
      /\ UNCHANGED <<declared, seen, registry, phase, failure_count, verdicts, threads,
                     violated, threw, exit_code>>
  BY DEF Runner!BeginTest, Runner!registration, Runner!history
<1>2. n \in Nat /\ Len(registry) \in Nat /\ failure_count \in Nat
  BY DEF RunnerInv, Counted, Registration, Lists
<1>3. Current = n /\ Current' = n + 1
  BY <1>1, <1>2 DEF Current
<1>4. 1 .. n \subseteq 1 .. n + 1 /\ n + 1 \notin 1 .. n /\ n + 1 # 0 /\ n + 1 <= Len(registry)
  BY <1>1, <1>2
<1>5. Registration'
  BY <1>1, RegistrationKept DEF RunnerInv
<1>6. Counted'
  BY <1>1, <1>2, <1>3, <1>4 DEF RunnerInv, Counted
<1>7. Blamed'
  BY <1>1, <1>2, <1>3, <1>4 DEF RunnerInv, Counted, Blamed
<1>8. Judged'
  BY <1>1 DEF RunnerInv, Judged, Earlier
<1> QED
  BY <1>5, <1>6, <1>7, <1>8 DEF RunnerInv

\* What is active of an invocation changes, and a body begins or ends.
LEMMA ResumeKeeps ==
    ASSUME RunnerInv, phase = "running", testIndex # 0,
           coroutine' # "none" => coroutine # "none",
           UNCHANGED <<declared, seen, registry, phase, testIndex, before, verdicts,
                       failure_count, threads, violated, threw, exit_code>>
    PROVE  RunnerInv'
<1>1. Registration'
  BY RegistrationKept DEF RunnerInv
<1>2. Counted'
  BY DEF RunnerInv, Counted, Current
<1>3. Blamed' /\ Judged'
  BY DEF RunnerInv, Blamed, Judged, Earlier
<1> QED
  BY <1>1, <1>2, <1>3 DEF RunnerInv

\* A contract is violated by the test that is executed, or by a thread.
LEMMA ViolateKeeps ==
    ASSUME RunnerInv, phase = "running", NEW k,
           \/ k = testIndex /\ testIndex # 0
           \/ \E j \in DOMAIN threads : threads[j] = k,
           failure_count' = failure_count + 1, violated' = violated \union {k},
           in_test' => in_test,
           UNCHANGED <<declared, seen, registry, phase, testIndex, coroutine, before, verdicts,
                       threads, threw, exit_code>>
    PROVE  RunnerInv'
<1>1. failure_count \in Nat /\ before \in Nat
  BY DEF RunnerInv, Counted
<1>2. k \in 1 .. Current
  <2>1. testIndex # 0 => testIndex \in 1 .. testIndex /\ Current = testIndex
    BY DEF RunnerInv, Counted, Current
  <2> QED
    BY <2>1 DEF RunnerInv, Counted
<1>3. Registration'
  BY RegistrationKept DEF RunnerInv
<1>4. Current' = Current
  BY DEF Current
<1>5. Counted'
  <2>1. failure_count' \in Nat /\ failure_count' # 0 /\ violated' # {}
    BY <1>1
  <2>2. violated' \subseteq 1 .. Current
    BY <1>2 DEF RunnerInv, Counted
  <2> QED
    BY <1>4, <2>1, <2>2 DEF RunnerInv, Counted
<1>6. Blamed'
  <2> SUFFICES ASSUME testIndex # 0
               PROVE  /\ before <= failure_count' /\ before # failure_count'
                      /\ testIndex \in violated' \/ Earlier(testIndex)'
                      /\ testIndex \in threw => registry[testIndex][1] # Nothing
    BY DEF Blamed
  <2>1. before <= failure_count /\ (testIndex \in threw => registry[testIndex][1] # Nothing)
    BY DEF RunnerInv, Blamed
  <2>2. before <= failure_count' /\ before # failure_count'
    BY <1>1, <2>1
  <2>3. testIndex \in violated' \/ Earlier(testIndex)'
    <3>1. CASE k = testIndex
      BY <3>1
    <3>2. CASE k # testIndex
      <4>1. PICK j \in DOMAIN threads : threads[j] = k
        BY <3>2
      <4>2. k < testIndex
        BY <1>2, <3>2 DEF Current, RunnerInv, Counted
      <4> QED
        BY <4>1, <4>2 DEF Earlier
    <3> QED
      BY <3>1, <3>2
  <2> QED
    BY <2>1, <2>2, <2>3
<1>7. Judged'
  <2> SUFFICES ASSUME NEW m \in DOMAIN verdicts
               PROVE  /\ verdicts[m] = "PASSED" =>
                           m \notin violated' \/ \E j \in DOMAIN threads : threads[j] = m
                      /\ verdicts[m] = "FAILED" => m \in violated' \/ Earlier(m)'
                      /\ m \in threw => registry[m][1] # Nothing
    BY DEF Judged
  <2>1. /\ verdicts[m] = "PASSED" =>
              m \notin violated \/ \E j \in DOMAIN threads : threads[j] = m
        /\ verdicts[m] = "FAILED" => m \in violated \/ Earlier(m)
        /\ m \in threw => registry[m][1] # Nothing
    BY DEF RunnerInv, Judged
  <2>2. m # testIndex
    BY DEF RunnerInv, Counted
  <2>3. Earlier(m) => Earlier(m)'
    BY DEF Earlier
  <2> QED
    BY <2>1, <2>2, <2>3
<1> QED
  BY <1>3, <1>5, <1>6, <1>7 DEF RunnerInv

\* A test starts a thread, which may outlive it.
LEMMA StartThreadKeeps == ASSUME RunnerInv, Runner!StartThread PROVE RunnerInv'
<1>1. /\ phase = "running" /\ testIndex > 0 /\ threads' = Append(threads, testIndex)
      /\ UNCHANGED <<declared, seen, registry, phase, testIndex, coroutine, in_test, arguments,
                     before, verdicts, failure_count, violated, threw, exit_code>>
  BY DEF Runner!StartThread, Runner!Executing, Runner!registration, Runner!execution
<1>2. testIndex \in Nat /\ Current = testIndex /\ testIndex # 0 /\ threads \in Seq(Nat)
  BY <1>1 DEF RunnerInv, Counted, Current
<1>3. PICK n \in Nat : n = Len(threads) /\ DOMAIN threads = 1 .. n
  BY <1>2
<1>4. /\ threads' \in Seq(Nat) /\ DOMAIN threads' = 1 .. n + 1 /\ threads'[n + 1] = testIndex
      /\ \A j \in 1 .. n : threads'[j] = threads[j] /\ j \in 1 .. n + 1
  BY <1>1, <1>2, <1>3
<1>5. \A j \in 1 .. n + 1 : j = n + 1 \/ j \in 1 .. n
  OBVIOUS
<1>6. Registration'
  BY <1>1, RegistrationKept DEF RunnerInv
<1>7. Counted'
  <2>1. \A j \in DOMAIN threads' : threads'[j] \in 1 .. Current
    BY <1>2, <1>3, <1>4, <1>5 DEF RunnerInv, Counted
  <2>2. Current' = Current
    BY <1>1 DEF Current
  <2> QED
    BY <1>1, <1>4, <2>1, <2>2 DEF RunnerInv, Counted
<1>8. \A m : Earlier(m) => Earlier(m)'
  BY <1>1, <1>3, <1>4 DEF Earlier
<1>9. \A m : (\E j \in DOMAIN threads : threads[j] = m) => \E j \in DOMAIN threads' : threads'[j] = m
  BY <1>3, <1>4
<1>10. Blamed'
  BY <1>1, <1>8 DEF RunnerInv, Blamed
<1>11. Judged'
  BY <1>1, <1>8, <1>9 DEF RunnerInv, Judged
<1> QED
  BY <1>6, <1>7, <1>10, <1>11 DEF RunnerInv

\* A test throws.
LEMMA ThrowKeeps == ASSUME RunnerInv, Runner!Throw PROVE RunnerInv'
<1>1. /\ phase = "running" /\ testIndex > 0 /\ in_test' = FALSE
      /\ threw' = threw \union {testIndex}
      /\ phase' = IF coroutine = "none" THEN "terminated" ELSE phase
      /\ coroutine' = IF coroutine = "generator" THEN "body" ELSE "none"
      /\ UNCHANGED <<declared, seen, registry, testIndex, before, verdicts, failure_count,
                     threads, violated, exit_code>>
  BY DEF Runner!Throw, Runner!Executing, Runner!registration
<1>2. testIndex \in 1 .. Current /\ Current' = Current /\ testIndex # 0
  BY <1>1 DEF RunnerInv, Counted, Current
<1>3. Registration'
  BY <1>1, RegistrationKept DEF RunnerInv
<1>4. Counted'
  BY <1>1, <1>2 DEF RunnerInv, Counted
<1>5. Blamed'
  <2>1. registry[testIndex][1] # Nothing \/ phase' = "terminated"
    BY <1>1 DEF RunnerInv, Counted
  <2> QED
    BY <1>1, <2>1 DEF RunnerInv, Blamed, Earlier
<1>6. Judged'
  <2>1. \A m \in DOMAIN verdicts : m # testIndex
    BY <1>1 DEF RunnerInv, Counted
  <2> QED
    BY <1>1, <2>1 DEF RunnerInv, Judged, Earlier
<1> QED
  BY <1>3, <1>4, <1>5, <1>6 DEF RunnerInv

\* A test is judged by what was counted since it began.
LEMMA EndTestKeeps == ASSUME RunnerInv, Runner!EndTest PROVE RunnerInv'
<1> DEFINE verdict == IF before = failure_count THEN "PASSED" ELSE "FAILED"
<1>1. /\ phase = "running" /\ testIndex > 0 /\ coroutine = "none" /\ ~ in_test /\ testIndex' = 0
      /\ verdicts' = Append(verdicts, verdict)
      /\ UNCHANGED <<declared, seen, registry, phase, coroutine, in_test, before,
                     failure_count, threads, violated, threw, exit_code>>
  BY DEF Runner!EndTest, Runner!Executing, Runner!registration, Runner!history
<1>2. PICK n \in Nat : n = Len(verdicts) /\ DOMAIN verdicts = 1 .. n
  BY DEF RunnerInv, Counted
<1>3. testIndex = n + 1 /\ testIndex <= Len(registry) /\ testIndex # 0
  BY <1>1, <1>2 DEF RunnerInv, Counted
<1>4. /\ verdicts' \in Seq({"PASSED", "FAILED"}) /\ DOMAIN verdicts' = 1 .. n + 1
      /\ Len(verdicts') = n + 1 /\ verdicts'[n + 1] = verdict
      /\ \A m \in 1 .. n : verdicts'[m] = verdicts[m]
  <2>1. verdict \in {"PASSED", "FAILED"} /\ verdicts \in Seq({"PASSED", "FAILED"})
    BY DEF RunnerInv, Counted
  <2> HIDE DEF verdict
  <2> QED
    BY <1>1, <1>2, <2>1
<1>5. Current = n + 1 /\ Current' = n + 1
  BY <1>1, <1>3, <1>4 DEF Current
<1>6. Registration'
  BY <1>1, RegistrationKept DEF RunnerInv
<1>7. Counted'
  BY <1>1, <1>3, <1>4, <1>5 DEF RunnerInv, Counted
<1>8. Blamed'
  BY <1>1 DEF Blamed
<1>9. Judged'
  <2>1. \A m \in 1 .. n + 1 : m = n + 1 \/ m \in 1 .. n
    OBVIOUS
  <2>2. /\ verdict = "PASSED" => testIndex \notin violated
        /\ verdict = "FAILED" => testIndex \in violated \/ Earlier(testIndex)
        /\ testIndex \in threw => registry[testIndex][1] # Nothing
    BY <1>1, <1>3 DEF RunnerInv, Blamed
  <2> HIDE DEF verdict
  <2>3. ASSUME NEW m \in DOMAIN verdicts'
        PROVE  /\ verdicts'[m] = "PASSED" =>
                    m \notin violated \/ \E j \in DOMAIN threads : threads[j] = m
               /\ verdicts'[m] = "FAILED" => m \in violated \/ Earlier(m)
               /\ m \in threw => registry[m][1] # Nothing
    <3>1. CASE m = n + 1
      BY <1>3, <1>4, <2>2, <3>1
    <3>2. CASE m \in 1 .. n
      BY <1>2, <1>4, <3>2 DEF RunnerInv, Judged
    <3> QED
      BY <1>4, <2>1, <3>1, <3>2
  <2> QED
    BY <1>1, <2>3 DEF Judged, Earlier
<1> QED
  BY <1>6, <1>7, <1>8, <1>9 DEF RunnerInv

\* The runner returns.
LEMMA ReturnKeeps == ASSUME RunnerInv, Runner!Return PROVE RunnerInv'
<1>1. /\ phase = "running" /\ testIndex = 0 /\ Len(verdicts) = Len(registry)
      /\ phase' = "returned" /\ exit_code' = IF failure_count = 0 THEN 0 ELSE 1
      /\ UNCHANGED <<declared, seen, registry, testIndex, coroutine, in_test, before, verdicts,
                     failure_count, threads, violated, threw>>
  BY DEF Runner!Return, Runner!registration, Runner!execution, Runner!history
<1>2. Registration'
  BY <1>1, RegistrationKept DEF RunnerInv
<1>3. Counted'
  BY <1>1 DEF RunnerInv, Counted, Current
<1>4. Blamed' /\ Judged'
  BY <1>1 DEF RunnerInv, Counted, Blamed, Judged, Earlier
<1> QED
  BY <1>2, <1>3, <1>4 DEF RunnerInv

\* RunnerInv holds at first,
LEMMA RunnerInit == Runner!Init => RunnerInv
<1> SUFFICES ASSUME Runner!Init PROVE RunnerInv
  OBVIOUS
<1>1. Lists(<<>>, {})
  BY DEF Lists
<1>2. Due({}) = {}
  BY DEF Due
<1>3. Registration
  BY <1>1, <1>2 DEF Runner!Init, Registration
<1>4. Counted
  BY DEF Runner!Init, Counted, Current
<1>5. Blamed /\ Judged
  BY DEF Runner!Init, Blamed, Judged
<1> QED
  BY <1>3, <1>4, <1>5 DEF RunnerInv

\* every step of the runner keeps it,
LEMMA RunnerStep ==
    ASSUME KindsApart, RunnerInv, [Runner!Next]_runnerVars
    PROVE  RunnerInv'
<1> USE DEF Runner!registration, Runner!execution, Runner!history
<1>1. CASE UNCHANGED runnerVars
  <2>1. Registration'
    BY <1>1, RegistrationKept DEF RunnerInv, runnerVars
  <2>2. Counted'
    BY <1>1 DEF runnerVars, RunnerInv, Counted, Current
  <2>3. Blamed' /\ Judged'
    BY <1>1 DEF runnerVars, RunnerInv, Blamed, Judged, Earlier
  <2> QED
    BY <2>1, <2>2, <2>3 DEF RunnerInv
<1>2. ASSUME Runner!Start PROVE RunnerInv'
  <2>1. /\ phase = "init" /\ phase' = "running" /\ declared = Names
        /\ UNCHANGED <<declared, seen, registry, testIndex, coroutine, in_test, before,
                       verdicts, failure_count, threads, violated, threw, exit_code>>
    BY <1>2 DEF Runner!Start, Names
  <2>2. Registration'
    BY <2>1 DEF RunnerInv, Registration
  <2>3. Counted'
    BY <2>1 DEF RunnerInv, Counted, Current
  <2>4. Blamed' /\ Judged'
    BY <2>1 DEF RunnerInv, Blamed, Judged, Earlier
  <2> QED
    BY <2>2, <2>3, <2>4 DEF RunnerInv
<1>3. ASSUME Runner!Yield \/ Runner!Await \/ Runner!FinishGenerator \/ Runner!EndBody
             \/ Runner!CoReturn
      PROVE  RunnerInv'
  <2>1. /\ phase = "running" /\ testIndex # 0 /\ (coroutine' # "none" => coroutine # "none")
        /\ UNCHANGED <<declared, seen, registry, phase, testIndex, before, verdicts,
                       failure_count, threads, violated, threw, exit_code>>
    BY <1>3 DEF Runner!Yield, Runner!Await, Runner!FinishGenerator, Runner!EndBody,
                Runner!CoReturn, Runner!Executing
  <2> QED
    BY <2>1, ResumeKeeps
<1>4. ASSUME NEW asserted \in BOOLEAN, Runner!Violate(asserted) PROVE RunnerInv'
  <2>1. /\ phase = "running" /\ testIndex # 0 /\ (in_test' => in_test)
        /\ failure_count' = failure_count + 1 /\ violated' = violated \union {testIndex}
        /\ UNCHANGED <<declared, seen, registry, phase, testIndex, coroutine, before, verdicts,
                       threads, threw, exit_code>>
    BY <1>4 DEF Runner!Violate, Runner!Executing
  <2> QED
    BY <2>1, ViolateKeeps
<1>5. ASSUME NEW k \in DOMAIN threads, Runner!ViolateLate(k) PROVE RunnerInv'
  <2>1. /\ phase = "running" /\ in_test' = in_test
        /\ failure_count' = failure_count + 1 /\ violated' = violated \union {threads[k]}
        /\ UNCHANGED <<declared, seen, registry, phase, testIndex, coroutine, before, verdicts,
                       threads, threw, exit_code>>
    BY <1>5 DEF Runner!ViolateLate
  <2> QED
    BY <2>1, ViolateKeeps
<1>6. ASSUME Runner!Next PROVE RunnerInv'
  BY <1>2, <1>3, <1>4, <1>5, <1>6, DeclareTestKeeps, DeclareParameterizedKeeps,
     DeclareInvocationKeeps, BeginTestKeeps, StartThreadKeeps, ThrowKeeps, EndTestKeeps,
     ReturnKeeps
     DEF Runner!Next, Runner!Step
<1> QED
  BY <1>1, <1>6

\* and it says what RunnerExact does.
LEMMA RunnerRight == RunnerInv => Runner!RunnerExact
<1> SUFFICES ASSUME RunnerInv PROVE Runner!RunnerExact
  OBVIOUS
<1>1. Due(Names) = Runner!Expected
  <2>1. /\ Names \intersect Tests = Tests /\ Names \intersect Parameterized = Parameterized
        /\ Names \intersect Invocations = Invocations
    BY DEF Names
  <2> QED
    BY <2>1 DEF Due, Runner!Expected
<1>2. ASSUME phase # "init"
      PROVE  /\ Runner!Range(registry) = Runner!Expected
             /\ Len(registry) = Runner!Cardinality(Runner!Expected)
  <2>1. Lists(registry, Runner!Expected)
    BY <1>1, <1>2 DEF RunnerInv, Registration
  <2>2. Runner!Range(registry) = Runner!Expected
    BY <2>1 DEF Lists, Runner!Range
  <2> QED
    BY <2>1, <2>2, ListsLength
<1>3. ASSUME NEW k \in DOMAIN verdicts
      PROVE  /\ verdicts[k] = "PASSED" => k \notin violated \/ k \in Runner!Range(threads)
             /\ verdicts[k] = "FAILED" =>
                  k \in violated \/ \E j \in Runner!Range(threads) : j < k /\ j \in violated
             /\ k \in threw => registry[k][1] # Nothing
  BY DEF RunnerInv, Judged, Earlier, Runner!Range
<1>4. phase = "returned" => Len(verdicts) = Len(registry) /\ (exit_code = 0 <=> violated = {})
  BY DEF RunnerInv, Judged
<1> QED
  BY <1>2, <1>3, <1>4 DEF Runner!RunnerExact

-----------------------------------------------------------------------------
(* Fakes.                                                                  *)

\* What can be in place of a function; nothing may be.
Invocables ==
    [data : Closures \union {Nothing}, invoker : Functions \union {"Invoker", Nothing}]
Callable(f) == f.invoker # Nothing

\* What is in place of the function of a thread now and, from the outermost
\* scope on, what each scope is to put back; the first is nothing.
InPlace(t, i) == IF i <= Len(resetters[t]) THEN resetters[t][i] ELSE fake[t]

\* The inductive invariant of fakes: every scope is to put back what the one
\* around it installed.
FakeInv ==
    /\ fake \in [Threads -> Invocables]
    /\ resetters \in [Threads -> Seq(Invocables)]
    /\ installed \in [Threads -> Seq(Functions \union Closures)]
    /\ \A t \in Threads :
          /\ Len(installed[t]) = Len(resetters[t])
          /\ ~ Callable(InPlace(t, 1))
          /\ \A i \in DOMAIN installed[t] :
                /\ Callable(InPlace(t, i + 1))
                /\ Fakes!Invoked(InPlace(t, i + 1)) = installed[t][i]

\* A scope installs a fake.
LEMMA WithKeeps ==
    ASSUME FakeInv, NEW t \in Threads, NEW f \in Invocables, Callable(f),
           Fakes!Invoked(f) \in Functions \union Closures, Fakes!With(t, f)
    PROVE  FakeInv'
<1> DEFINE n == Len(resetters[t])
<1>1. /\ resetters' = [resetters EXCEPT ![t] = Append(@, fake[t])]
      /\ fake' = [fake EXCEPT ![t] = f]
      /\ installed' = [installed EXCEPT ![t] = Append(@, Fakes!Invoked(f))]
  BY DEF Fakes!With, Fakes!Kept
<1>2. /\ resetters[t] \in Seq(Invocables) /\ fake[t] \in Invocables /\ n \in Nat
      /\ installed[t] \in Seq(Functions \union Closures) /\ Len(installed[t]) = n
  BY DEF FakeInv
<1>3. /\ fake' \in [Threads -> Invocables]
      /\ resetters' \in [Threads -> Seq(Invocables)]
      /\ installed' \in [Threads -> Seq(Functions \union Closures)]
  BY <1>1, <1>2 DEF FakeInv
<1>4. /\ resetters'[t] = Append(resetters[t], fake[t]) /\ fake'[t] = f
      /\ installed'[t] = Append(installed[t], Fakes!Invoked(f))
      /\ \A u \in Threads : u # t => /\ resetters'[u] = resetters[u] /\ fake'[u] = fake[u]
                                     /\ installed'[u] = installed[u]
  BY <1>1 DEF FakeInv
<1> HIDE DEF n
<1>5. /\ Len(resetters'[t]) = n + 1 /\ Len(installed'[t]) = n + 1
      /\ \A i \in 1 .. n : resetters'[t][i] = resetters[t][i] /\ installed'[t][i] = installed[t][i]
      /\ resetters'[t][n + 1] = fake[t] /\ installed'[t][n + 1] = Fakes!Invoked(f)
      /\ DOMAIN installed'[t] = 1 .. n + 1 /\ DOMAIN installed[t] = 1 .. n
  BY <1>2, <1>4 DEF n
<1>6. \A i \in 1 .. n + 1 : InPlace(t, i)' = InPlace(t, i)
  BY <1>2, <1>5 DEF InPlace, n
<1>7. ASSUME NEW i, i = n + 2 PROVE InPlace(t, i)' = f
  <2>1. ~ i <= Len(resetters'[t])
    BY <1>2, <1>5, <1>7
  <2> QED
    BY <1>4, <2>1 DEF InPlace
<1> SUFFICES ASSUME NEW u \in Threads
             PROVE  /\ Len(installed'[u]) = Len(resetters'[u])
                    /\ ~ Callable(InPlace(u, 1)')
                    /\ \A i \in DOMAIN installed'[u] :
                          /\ Callable(InPlace(u, i + 1)')
                          /\ Fakes!Invoked(InPlace(u, i + 1)') = installed'[u][i]
  BY <1>3 DEF FakeInv, InPlace, Callable, Fakes!Invoked
<1>8. CASE u # t
  <2>1. \A i : InPlace(u, i)' = InPlace(u, i)
    BY <1>4, <1>8 DEF InPlace
  <2> QED
    BY <1>4, <1>8, <2>1 DEF FakeInv
<1>9. CASE u = t
  <2>1. ~ Callable(InPlace(t, 1)')
    BY <1>2, <1>6 DEF FakeInv
  <2>2. ASSUME NEW i \in 1 .. n + 1
        PROVE  Callable(InPlace(t, i + 1)') /\ Fakes!Invoked(InPlace(t, i + 1)') = installed'[t][i]
    <3>1. CASE i = n + 1
      <4>0. i + 1 = n + 2
        BY <1>2, <3>1
      <4>1. InPlace(t, i + 1)' = f
        BY <1>7, <4>0
      <4> QED
        BY <1>5, <3>1, <4>1
    <3>2. CASE i \in 1 .. n
      <4>1. InPlace(t, i + 1)' = InPlace(t, i + 1) /\ i \in DOMAIN installed[t]
        BY <1>2, <1>5, <1>6, <3>2
      <4>2. /\ Callable(InPlace(t, i + 1))
            /\ Fakes!Invoked(InPlace(t, i + 1)) = installed[t][i]
        BY <4>1 DEF FakeInv
      <4> QED
        BY <1>5, <3>2, <4>1, <4>2
    <3> QED
      BY <1>2, <2>2, <3>1, <3>2
  <2> QED
    BY <1>5, <1>9, <2>1, <2>2
<1> QED
  BY <1>8, <1>9

\* A scope ends and puts back what it found.
LEMMA EndScopeKeeps ==
    ASSUME FakeInv, NEW t \in Threads, Fakes!EndScope(t)
    PROVE  FakeInv'
<1> DEFINE n == Len(resetters[t])
           Shorter(s) == SubSeq(s, 1, Len(s) - 1)
<1>1. /\ resetters[t] # <<>>
      /\ resetters' = [resetters EXCEPT ![t] = Shorter(@)]
      /\ fake' = [fake EXCEPT ![t] = resetters[t][n]]
      /\ installed' = [installed EXCEPT ![t] = Shorter(@)]
  BY DEF Fakes!EndScope
<1>2. /\ resetters[t] \in Seq(Invocables) /\ n \in Nat /\ n > 0
      /\ installed[t] \in Seq(Functions \union Closures) /\ Len(installed[t]) = n
  BY <1>1 DEF FakeInv
<1>3. /\ Shorter(resetters[t]) \in Seq(Invocables)
      /\ Shorter(installed[t]) \in Seq(Functions \union Closures)
      /\ resetters[t][n] \in Invocables
      /\ Len(Shorter(resetters[t])) = n - 1 /\ Len(Shorter(installed[t])) = n - 1
      /\ \A i \in 1 .. n - 1 : /\ Shorter(resetters[t])[i] = resetters[t][i]
                              /\ Shorter(installed[t])[i] = installed[t][i]
  BY <1>2
<1>4. /\ resetters'[t] = Shorter(resetters[t]) /\ fake'[t] = resetters[t][n]
      /\ installed'[t] = Shorter(installed[t])
      /\ \A u \in Threads : u # t => /\ resetters'[u] = resetters[u] /\ fake'[u] = fake[u]
                                     /\ installed'[u] = installed[u]
  BY <1>1 DEF FakeInv
<1>5. /\ fake' \in [Threads -> Invocables]
      /\ resetters' \in [Threads -> Seq(Invocables)]
      /\ installed' \in [Threads -> Seq(Functions \union Closures)]
  BY <1>1, <1>3 DEF FakeInv
<1> HIDE DEF n, Shorter
<1>6. \A i \in 1 .. n : InPlace(t, i)' = InPlace(t, i)
  BY <1>2, <1>3, <1>4 DEF InPlace, n
<1>7. DOMAIN installed'[t] = 1 .. n - 1 /\ DOMAIN installed[t] = 1 .. n
  BY <1>2, <1>3, <1>4
<1> SUFFICES ASSUME NEW u \in Threads
             PROVE  /\ Len(installed'[u]) = Len(resetters'[u])
                    /\ ~ Callable(InPlace(u, 1)')
                    /\ \A i \in DOMAIN installed'[u] :
                          /\ Callable(InPlace(u, i + 1)')
                          /\ Fakes!Invoked(InPlace(u, i + 1)') = installed'[u][i]
  BY <1>5 DEF FakeInv, InPlace, Callable, Fakes!Invoked
<1>8. CASE u # t
  <2>1. \A i : InPlace(u, i)' = InPlace(u, i)
    BY <1>4, <1>8 DEF InPlace
  <2> QED
    BY <1>4, <1>8, <2>1 DEF FakeInv
<1>9. CASE u = t
  <2>1. ~ Callable(InPlace(t, 1)')
    BY <1>2, <1>6 DEF FakeInv
  <2>2. ASSUME NEW i \in 1 .. n - 1
        PROVE  Callable(InPlace(t, i + 1)') /\ Fakes!Invoked(InPlace(t, i + 1)') = installed'[t][i]
    <3>1. InPlace(t, i + 1)' = InPlace(t, i + 1) /\ i \in DOMAIN installed[t]
      BY <1>2, <1>6, <1>7
    <3>2. /\ Callable(InPlace(t, i + 1))
          /\ Fakes!Invoked(InPlace(t, i + 1)) = installed[t][i]
      BY <3>1 DEF FakeInv
    <3> QED
      BY <1>3, <1>4, <3>1, <3>2
  <2> QED
    BY <1>3, <1>4, <1>7, <1>9, <2>1, <2>2
<1> QED
  BY <1>8, <1>9

\* FakeInv holds at first,
LEMMA FakeInit == Fakes!Init => FakeInv
  <1> SUFFICES ASSUME Fakes!Init PROVE FakeInv
    OBVIOUS
  <1>1. [data |-> Nothing, invoker |-> Nothing] \in Invocables
    BY DEF Invocables
  <1> QED
    BY <1>1 DEF Fakes!Init, Fakes!Empty, FakeInv, InPlace, Callable

\* every step of fakes keeps it,
LEMMA FakeStep == FakeInv /\ [Fakes!Next]_fakeVars => FakeInv'
  <1> SUFFICES ASSUME FakeInv, [Fakes!Next]_fakeVars PROVE FakeInv'
    OBVIOUS
  <1>1. CASE UNCHANGED <<fake, resetters, installed>>
    BY <1>1 DEF FakeInv, InPlace, Callable, Fakes!Invoked
  <1>2. ASSUME NEW t \in Threads, NEW f \in Functions, Fakes!With(t, Fakes!FromFunction(f))
        PROVE  FakeInv'
    <2>1. /\ Fakes!FromFunction(f) \in Invocables
          /\ Callable(Fakes!FromFunction(f))
          /\ Fakes!Invoked(Fakes!FromFunction(f)) \in Functions \union Closures
      BY <1>2, UtilitiesAssumption DEF ConstantsFit, Fakes!FromFunction, Invocables, Callable, Fakes!Invoked
    <2> QED
      BY <1>2, <2>1, WithKeeps
  <1>3. ASSUME NEW t \in Threads, NEW c \in Closures, Fakes!With(t, Fakes!FromClosure(c))
        PROVE  FakeInv'
    <2>1. /\ Fakes!FromClosure(c) \in Invocables
          /\ Callable(Fakes!FromClosure(c))
          /\ Fakes!Invoked(Fakes!FromClosure(c)) \in Functions \union Closures
      BY <1>3, UtilitiesAssumption DEF ConstantsFit, Fakes!FromClosure, Invocables, Callable, Fakes!Invoked
    <2> QED
      BY <1>3, <2>1, WithKeeps
  <1>4. ASSUME NEW t \in Threads, Fakes!EndScope(t) PROVE FakeInv'
    BY <1>4, EndScopeKeeps
  <1>5. ASSUME NEW t \in Threads, Fakes!CallFake(t) PROVE FakeInv'
    BY <1>1, <1>5 DEF Fakes!CallFake
  <1> QED
    BY <1>1, <1>2, <1>3, <1>4, <1>5 DEF Fakes!Next, fakeVars

\* and it says what FakeExact does.
LEMMA FakeRight == FakeInv => Fakes!FakeExact
  <1> SUFFICES ASSUME FakeInv, NEW t \in Threads
               PROVE  IF installed[t] = <<>> THEN fake[t].invoker = Nothing
                      ELSE /\ fake[t].invoker # Nothing
                           /\ Fakes!Invoked(fake[t]) = installed[t][Len(installed[t])]
    BY DEF Fakes!FakeExact
  <1> DEFINE n == Len(resetters[t])
  <1>1. /\ installed[t] \in Seq(Functions \union Closures) /\ Len(installed[t]) = n
        /\ n \in Nat
    BY DEF FakeInv
  <1>2. InPlace(t, n + 1) = fake[t]
    BY <1>1 DEF InPlace
  <1>3. CASE installed[t] = <<>>
    BY <1>1, <1>2, <1>3 DEF FakeInv, Callable
  <1>4. CASE installed[t] # <<>>
    <2>1. n \in DOMAIN installed[t] /\ installed[t][Len(installed[t])] = installed[t][n]
      BY <1>1, <1>4
    <2> QED
      BY <1>2, <1>4, <2>1 DEF FakeInv, Callable
  <1> QED
    BY <1>3, <1>4

-----------------------------------------------------------------------------
(* Benchmarks.                                                             *)

\* The types.
Blocks == [iteration : Nat, took : Nat]
Timed == /\ run \in Nat /\ sampling \in BOOLEAN /\ count \in Nat
         /\ registered \in Seq(Timers)
         /\ sampler \in [Timers -> Nat] /\ ready \in [Timers -> BOOLEAN]
         /\ samples \in [Timers -> Seq(Nat)] /\ taken \in [Timers -> Seq(Blocks)]

\* The timers that refer to the Sampler there is are those registered with it.
Here(t) == run > 0 /\ sampler[t] = run
Registered ==
    /\ sampling => run > 0
    /\ \A t \in Timers : sampler[t] <= run
    /\ \A k \in DOMAIN registered : Here(registered[k])
    /\ \A t \in Timers : Here(t) => \E k \in DOMAIN registered : registered[k] = t
    /\ \A j, k \in DOMAIN registered : registered[j] = registered[k] => j = k

\* A block is executed in an iteration, and one that refers to the Sampler there
\* is has collected what it took after the warm-up.
Collected ==
    \A t \in Timers :
       /\ sampler[t] = 0 => samples[t] = <<>> /\ taken[t] = <<>>
       /\ ready[t] => sampling /\ ~ Benchmarks!done /\ sampler[t] # 0
       /\ \A k \in DOMAIN taken[t] : taken[t][k].iteration <= count
       /\ Here(t) => ready[t] \/ taken[t] # <<>>
       /\ Here(t) /\ sampling => samples[t] = Benchmarks!Sampled(t)

\* The inductive invariant of benchmarks.
BenchmarkInv == Timed /\ Registered /\ Collected /\ Benchmarks!ReportsExact

\* Timers are counted as the library does.
LEMMA TimersCounted == \A S : Benchmarks!Cardinality(S) = Cardinality(S)
  BY Zenon DEF Cardinality, Benchmarks!Cardinality

\* The blocks of the warm-up are among those there are.
LEMMA EarlyType ==
    ASSUME Timed, NEW t \in Timers
    PROVE  /\ Benchmarks!Early(t) \in 0 .. Len(taken[t])
           /\ (\A k \in DOMAIN taken[t] : taken[t][k].iteration < Warmups)
                 => Benchmarks!Early(t) = Len(taken[t])
<1> DEFINE n == Len(taken[t])
           early == {k \in DOMAIN taken[t] : taken[t][k].iteration < Warmups}
<1>1. n \in Nat /\ DOMAIN taken[t] = 1 .. n
  BY DEF Timed
<1>2. IsFiniteSet(1 .. n) /\ Cardinality(1 .. n) = n
  BY <1>1, FS_Interval
<1>3. early \subseteq 1 .. n
  BY <1>1
<1>4. Cardinality(early) \in Nat /\ Cardinality(early) <= n
  BY <1>1, <1>2, <1>3, FS_Subset, FS_CardinalityType
<1>5. (\A k \in DOMAIN taken[t] : taken[t][k].iteration < Warmups) => early = 1 .. n
  BY <1>1
<1>6. Benchmarks!Early(t) = Cardinality(early)
  BY TimersCounted DEF Benchmarks!Early
<1> HIDE DEF early
<1>7. Cardinality(early) \in 0 .. n
  BY <1>1, <1>2, <1>4
<1> QED
  BY <1>2, <1>5, <1>6, <1>7

\* A block that is over, before and after the warm-up.
LEMMA SampledAppend ==
    ASSUME UtilitiesAssumption, Timed, NEW t \in Timers, NEW elapsed \in Nat,
           \A k \in DOMAIN taken[t] : taken[t][k].iteration <= count,
           taken' = [taken EXCEPT ![t] = Append(@, [iteration |-> count, took |-> elapsed])]
    PROVE  Benchmarks!Sampled(t)' =
              IF Benchmarks!should_sample THEN Append(Benchmarks!Sampled(t), elapsed)
              ELSE Benchmarks!Sampled(t)
<1> DEFINE n == Len(taken[t])
           b == [iteration |-> count, took |-> elapsed]
           e == Benchmarks!Early(t)
<1>1. /\ n \in Nat /\ DOMAIN taken[t] = 1 .. n /\ b \in Blocks /\ count \in Nat /\ Warmups \in Nat
      /\ taken' \in [Timers -> Seq(Blocks)] /\ taken[t] \in Seq(Blocks)
  BY UtilitiesAssumption DEF ConstantsFit, Timed, Blocks
<1>2. /\ taken'[t] = Append(taken[t], b) /\ Len(taken'[t]) = n + 1
      /\ DOMAIN taken'[t] = 1 .. n + 1
      /\ \A k \in 1 .. n : taken'[t][k] = taken[t][k]
      /\ taken'[t][n + 1].iteration = count /\ taken'[t][n + 1].took = elapsed
  BY <1>1 DEF Timed
<1>3. e \in 0 .. n
  BY EarlyType
<1>7. n \in Nat
  BY <1>1
<1> HIDE DEF n, b, e
<1>8. \A k \in 1 .. n + 1 : k = n + 1 \/ k \in 1 .. n
  BY <1>7
<1>4. CASE Benchmarks!should_sample
  <2>1. {k \in DOMAIN taken'[t] : taken'[t][k].iteration < Warmups}
           = {k \in DOMAIN taken[t] : taken[t][k].iteration < Warmups}
    <3>0. ~ count < Warmups
      BY <1>1, <1>4 DEF Benchmarks!should_sample
    <3>1. ~ taken'[t][n + 1].iteration < Warmups
      BY <1>2, <3>0 DEF Benchmarks!should_sample
    <3>3. 1 .. n \subseteq 1 .. n + 1
      BY <1>1
    <3> QED
      BY <1>1, <1>2, <1>8, <3>1, <3>3
  <2>2. Benchmarks!Early(t)' = e
    BY <2>1, Zenon DEF Benchmarks!Early, e
  <2> DEFINE s == Benchmarks!Sampled(t)
             u == Benchmarks!Sampled(t)'
  <2>3. s = [k \in 1 .. n - e |-> taken[t][e + k].took]
    BY DEF Benchmarks!Sampled, n, e
  <2>4. u = [k \in 1 .. n + 1 - e |-> taken'[t][e + k].took]
    <3>1. Len(taken[t])' = n + 1
      BY <1>2
    <3>2. u = [k \in 1 .. Len(taken[t])' - Benchmarks!Early(t)' |->
                 taken[t]'[Benchmarks!Early(t)' + k].took]
      BY DEF Benchmarks!Sampled
    <3>3. 1 .. Len(taken[t])' - Benchmarks!Early(t)' = 1 .. n + 1 - e
      BY <1>3, <1>7, <2>2, <3>1
    <3>4. \A k : taken[t]'[Benchmarks!Early(t)' + k].took = taken'[t][e + k].took
      BY <2>2
    <3> HIDE DEF u
    <3> QED
      BY <3>2, <3>3, <3>4, Zenon
  <2>5. s \in Seq(Nat) /\ Len(s) = n - e
    <3>1. \A k \in 1 .. n - e : taken[t][e + k] \in Blocks
      <4> SUFFICES ASSUME NEW k \in 1 .. n - e PROVE taken[t][e + k] \in Blocks
        OBVIOUS
      <4>1. e + k \in 1 .. n
        BY <1>1, <1>3
      <4> QED
        BY <1>1, <4>1
    <3>2. n - e \in Nat
      BY <1>1, <1>3
    <3>3. s \in [1 .. n - e -> Nat]
      BY <2>3, <3>1 DEF Blocks
    <3> HIDE DEF s
    <3> QED
      BY <3>2, <3>3
  <2> HIDE DEF s, u
  <2>6. \A k \in 1 .. n + 1 - e : u[k] = Append(s, elapsed)[k]
    <3> SUFFICES ASSUME NEW k \in 1 .. n + 1 - e PROVE u[k] = Append(s, elapsed)[k]
      BY Zenon
    <3>1. u[k] = taken'[t][e + k].took
      BY <2>4, Zenon
    <3>2. CASE k \in 1 .. n - e
      <4>1. e + k \in 1 .. n /\ s[k] = taken[t][e + k].took
        BY <1>1, <1>3, <2>3, <3>2
      <4>2. Append(s, elapsed)[k] = s[k]
        BY <2>5, <3>2
      <4> QED
        BY <1>2, <3>1, <4>1, <4>2, Zenon
    <3>3. CASE k = n - e + 1
      <4>1. e + k = n + 1
        BY <1>1, <1>3, <3>3
      <4>2. Append(s, elapsed)[k] = elapsed
        BY <2>5, <3>3
      <4> QED
        BY <1>2, <3>1, <4>1, <4>2
    <3>4. k \in 1 .. n - e \/ k = n - e + 1
      BY <1>1, <1>3
    <3> QED
      BY <3>2, <3>3, <3>4, Zenon
  <2>7. /\ Append(s, elapsed) \in Seq(Nat) /\ Len(Append(s, elapsed)) = n + 1 - e
        /\ DOMAIN Append(s, elapsed) = 1 .. n + 1 - e
    <3>1. Append(s, elapsed) \in Seq(Nat) /\ Len(Append(s, elapsed)) = Len(s) + 1
      BY <2>5, AppendProperties, Zenon
    <3>2. Len(s) + 1 = n + 1 - e
      BY <1>1, <1>3, <2>5
    <3> QED
      BY <3>1, <3>2
  <2>8. \A k \in 1 .. n + 1 - e : Append(s, elapsed)[k] = taken'[t][e + k].took
    BY <2>4, <2>6, Zenon
  <2>9. Append(s, elapsed) = [k \in 1 .. n + 1 - e |-> Append(s, elapsed)[k]]
    <3> DEFINE a == Append(s, elapsed)
    <3>1. a \in Seq(Nat) /\ DOMAIN a = 1 .. n + 1 - e
      BY <2>7
    <3> HIDE DEF a
    <3>2. a = [k \in DOMAIN a |-> a[k]]
      BY <3>1
    <3>3. a = [k \in 1 .. n + 1 - e |-> a[k]]
      BY <3>1, <3>2
    <3> QED
      BY <3>3, Zenon DEF a
  <2>10. u = Append(s, elapsed)
    BY <2>4, <2>8, <2>9, Zenon
  <2> QED
    BY <1>4, <2>10 DEF u, s
<1>5. CASE ~ Benchmarks!should_sample
  <2>1. count < Warmups
    BY <1>1, <1>5 DEF Benchmarks!should_sample
  <2>2. \A k \in DOMAIN taken[t] : taken[t][k].iteration < Warmups
    <3> SUFFICES ASSUME NEW k \in DOMAIN taken[t] PROVE taken[t][k].iteration < Warmups
      OBVIOUS
    <3>1. taken[t][k] \in Blocks
      BY <1>1
    <3>2. taken[t][k].iteration \in Nat /\ taken[t][k].iteration <= count
      BY <3>1 DEF Blocks
    <3> QED
      BY <1>1, <2>1, <3>2
  <2>3. \A k \in DOMAIN taken'[t] : taken'[t][k].iteration < Warmups
    BY <1>1, <1>2, <1>8, <2>1, <2>2
  <2>4. {k \in DOMAIN taken'[t] : taken'[t][k].iteration < Warmups} = 1 .. n + 1
    BY <1>2, <2>3
  <2>5. n + 1 \in Nat /\ n + 1 = Cardinality(1 .. n + 1)
    BY <1>1, FS_Interval
  <2>9. Benchmarks!Cardinality(1 .. n + 1) = n + 1
    BY <2>5, TimersCounted
  <2>6. Benchmarks!Early(t)' = Len(taken'[t])
    BY <1>2, <2>4, <2>9, Zenon DEF Benchmarks!Early
  <2>7. e = n
    BY <2>2, EarlyType DEF n, e
  <2>8. 1 .. n - e = {} /\ 1 .. Len(taken'[t]) - Benchmarks!Early(t)' = {}
    BY <1>1, <1>2, <2>6, <2>7
  <2>11. Benchmarks!Sampled(t) = [k \in {} |-> taken[t][e + k].took]
    BY <2>8 DEF Benchmarks!Sampled, n, e
  <2>10. Benchmarks!Sampled(t)' = [k \in {} |-> taken'[t][Benchmarks!Early(t)' + k].took]
    BY <2>8, Zenon DEF Benchmarks!Sampled
  <2> QED
    BY <1>5, <2>11, <2>10
<1> QED
  BY <1>4, <1>5

\* BenchmarkInv holds at first.
LEMMA BenchmarkInit == Benchmarks!Init => BenchmarkInv
<1> SUFFICES ASSUME Benchmarks!Init PROVE BenchmarkInv
  OBVIOUS
<1>1. Timed
  <2>1. <<>> \in Seq(Timers) /\ <<>> \in Seq(Nat) /\ <<>> \in Seq(Blocks)
    OBVIOUS
  <2> QED
    BY <2>1, Zenon DEF Benchmarks!Init, Timed
<1>2. Registered /\ Collected /\ Benchmarks!ReportsExact
  BY DEF Benchmarks!Init, Registered, Here, Collected, Benchmarks!ReportsExact
<1> QED
  BY <1>1, <1>2 DEF BenchmarkInv

\* A benchmark begins, with no timer registered.
LEMMA MeasureKeeps ==
    ASSUME BenchmarkInv, Benchmarks!Measure
    PROVE  BenchmarkInv'
<1>1. /\ ~ sampling /\ run' = run + 1 /\ sampling' = TRUE /\ count' = 0
      /\ registered' = <<>> /\ taken' = [t \in Timers |-> <<>>]
      /\ sampler' = sampler /\ ready' = ready /\ samples' = samples
  BY DEF Benchmarks!Measure
<1>2. run \in Nat /\ \A t \in Timers : sampler[t] \in Nat /\ sampler[t] <= run
  BY DEF BenchmarkInv, Timed, Registered
<1>3. Timed'
  BY <1>1 DEF BenchmarkInv, Timed
<1>4. \A t \in Timers : ~ Here(t)' /\ sampler'[t] <= run'
  BY <1>1, <1>2 DEF Here
<1>5. Registered'
  BY <1>1, <1>2, <1>4 DEF Registered
<1>6. Collected'
  <2>1. \A t \in Timers : ~ ready[t] /\ (sampler[t] = 0 => samples[t] = <<>>)
    BY <1>1 DEF BenchmarkInv, Collected
  <2>2. \A t \in Timers : taken'[t] = <<>> /\ DOMAIN taken'[t] = {}
    BY <1>1
  <2> QED
    BY <1>1, <1>4, <2>1, <2>2 DEF Collected
<1> QED
  BY <1>1, <1>3, <1>5, <1>6 DEF BenchmarkInv, Benchmarks!ReportsExact

\* A timer that has no block has no sample.
LEMMA SampledNone ==
    ASSUME Timed, NEW t \in Timers, taken[t] = <<>>
    PROVE  Benchmarks!Sampled(t) = <<>>
<1>1. Len(taken[t]) = 0 /\ Benchmarks!Early(t) \in 0 .. Len(taken[t])
  BY EarlyType
<1>2. 1 .. Len(taken[t]) - Benchmarks!Early(t) = {}
  BY <1>1
<1>3. Benchmarks!Sampled(t) = [k \in {} |-> taken[t][Benchmarks!Early(t) + k].took]
  BY <1>2 DEF Benchmarks!Sampled
<1> QED
  BY <1>3

\* A block begins, and registers its timer if it is the first of the run.
LEMMA StartTimerKeeps ==
    ASSUME BenchmarkInv, NEW t \in Timers, Benchmarks!StartTimer(t)
    PROVE  BenchmarkInv'
<1>1. /\ sampling /\ ~ Benchmarks!done /\ ready' = [ready EXCEPT ![t] = TRUE]
      /\ UNCHANGED <<run, sampling, count, samples, taken>>
  BY DEF Benchmarks!StartTimer
<1>2. run \in Nat /\ run > 0
  BY <1>1 DEF BenchmarkInv, Timed, Registered
<1>3. ~ Benchmarks!done'
  BY <1>1 DEF Benchmarks!done
<1>4. \A u \in Timers : Benchmarks!Sampled(u)' = Benchmarks!Sampled(u)
  BY <1>1 DEF Benchmarks!Sampled, Benchmarks!Early
<1>5. ready' \in [Timers -> BOOLEAN] /\ ready'[t] = TRUE
      /\ \A u \in Timers : u # t => ready'[u] = ready[u]
  BY <1>1 DEF BenchmarkInv, Timed
<1>6. Benchmarks!ReportsExact'
  BY <1>1 DEF Benchmarks!ReportsExact
<1>7. CASE sampler[t] # 0
  <2>1. sampler' = sampler /\ registered' = registered
    BY <1>7 DEF Benchmarks!StartTimer
  <2>2. Timed' /\ Registered'
    BY <1>1, <1>5, <2>1 DEF BenchmarkInv, Timed, Registered, Here
  <2>3. Collected'
    BY <1>1, <1>3, <1>4, <1>5, <1>7, <2>1 DEF BenchmarkInv, Collected, Here
  <2> QED
    BY <1>6, <2>2, <2>3 DEF BenchmarkInv
<1>8. CASE sampler[t] = 0
  <2>1. sampler' = [sampler EXCEPT ![t] = run] /\ registered' = Append(registered, t)
    BY <1>8 DEF Benchmarks!StartTimer
  <2>2. /\ sampler' \in [Timers -> Nat] /\ sampler'[t] = run
        /\ \A u \in Timers : u # t => sampler'[u] = sampler[u]
    BY <1>2, <2>1 DEF BenchmarkInv, Timed
  <2>3. PICK n \in Nat : n = Len(registered) /\ DOMAIN registered = 1 .. n
    BY DEF BenchmarkInv, Timed
  <2>4. /\ registered' \in Seq(Timers) /\ DOMAIN registered' = 1 .. n + 1
        /\ registered'[n + 1] = t
        /\ \A k \in 1 .. n : registered'[k] = registered[k] /\ registered[k] \in Timers
    BY <2>1, <2>3 DEF BenchmarkInv, Timed
  <2>5. Timed'
    BY <1>1, <1>5, <2>2, <2>4, Zenon DEF BenchmarkInv, Timed
  <2>6. ~ Here(t) /\ Here(t)' /\ \A u \in Timers : u # t => Here(u)' = Here(u)
    BY <1>1, <1>2, <1>8, <2>2 DEF Here
  <2>7. \A k \in 1 .. n : registered[k] # t
    BY <2>3, <2>6 DEF BenchmarkInv, Registered
  <2>8. \A k \in 1 .. n + 1 : k = n + 1 \/ k \in 1 .. n
    OBVIOUS
  <2>9. 1 .. n \subseteq 1 .. n + 1 /\ n + 1 \in 1 .. n + 1
    OBVIOUS
  <2>10. Registered'
    <3>1. (sampling => run > 0)' /\ \A u \in Timers : sampler'[u] <= run'
      <4>1. \A u \in Timers : sampler[u] <= run
        BY DEF BenchmarkInv, Registered
      <4>2. sampler'[t] <= run'
        BY <1>1, <1>2, <2>2
      <4> QED
        BY <1>1, <1>2, <2>2, <4>1, <4>2
    <3>2. \A k \in DOMAIN registered' : Here(registered[k])'
      <4> SUFFICES ASSUME NEW k \in 1 .. n + 1 PROVE Here(registered[k])'
        BY <2>4
      <4>1. CASE k = n + 1
        BY <2>4, <2>6, <4>1
      <4>2. CASE k \in 1 .. n
        <5>1. Here(registered[k]) /\ registered[k] # t /\ registered[k] \in Timers
          BY <2>3, <2>4, <2>7, <4>2 DEF BenchmarkInv, Registered
        <5> QED
          BY <2>4, <2>6, <4>2, <5>1
      <4> QED
        BY <2>8, <4>1, <4>2
    <3>3. ASSUME NEW u \in Timers, Here(u)' PROVE \E k \in DOMAIN registered' : registered'[k] = u
      <4>1. CASE u = t
        BY <2>4, <2>9, <4>1
      <4>2. CASE u # t
        <5>1. Here(u)
          BY <2>6, <3>3, <4>2
        <5>2. PICK k \in 1 .. n : registered[k] = u
          BY <2>3, <5>1 DEF BenchmarkInv, Registered
        <5> QED
          BY <2>4, <2>9, <5>2
      <4> QED
        BY <4>1, <4>2
    <3>4. \A j, k \in DOMAIN registered' : registered'[j] = registered'[k] => j = k
      <4> SUFFICES ASSUME NEW j \in 1 .. n + 1, NEW k \in 1 .. n + 1,
                          registered'[j] = registered'[k]
                   PROVE  j = k
        BY <2>4
      <4>1. \A i, m \in 1 .. n : registered[i] = registered[m] => i = m
        BY <2>3 DEF BenchmarkInv, Registered
      <4>2. CASE j = n + 1 \/ k = n + 1
        BY <2>4, <2>7, <2>8, <4>2
      <4>3. CASE j \in 1 .. n /\ k \in 1 .. n
        BY <2>4, <4>1, <4>3
      <4> QED
        BY <2>8, <4>2, <4>3
    <3> QED
      BY <3>1, <3>2, <3>3, <3>4 DEF Registered
  <2>11. Collected'
    <3> SUFFICES ASSUME NEW u \in Timers
                 PROVE  /\ sampler'[u] = 0 => samples'[u] = <<>> /\ taken'[u] = <<>>
                        /\ ready'[u] => sampling' /\ ~ Benchmarks!done' /\ sampler'[u] # 0
                        /\ \A k \in DOMAIN taken'[u] : taken'[u][k].iteration <= count'
                        /\ Here(u)' => ready'[u] \/ taken'[u] # <<>>
                        /\ Here(u)' /\ sampling' => samples'[u] = Benchmarks!Sampled(u)'
      BY DEF Collected
    <3>1. CASE u = t
      <4>1. samples[t] = <<>> /\ taken[t] = <<>>
        BY <1>8 DEF BenchmarkInv, Collected
      <4>2. Benchmarks!Sampled(t) = <<>> /\ DOMAIN taken[t] = {}
        BY <4>1, SampledNone DEF BenchmarkInv
      <4> QED
        BY <1>1, <1>2, <1>3, <1>4, <1>5, <2>2, <3>1, <4>1, <4>2
    <3>2. CASE u # t
      BY <1>1, <1>3, <1>4, <1>5, <2>2, <2>6, <3>2 DEF BenchmarkInv, Collected
    <3> QED
      BY <3>1, <3>2
  <2> QED
    BY <1>6, <2>5, <2>10, <2>11 DEF BenchmarkInv
<1> QED
  BY <1>7, <1>8

\* A block ends, and its time is collected.
LEMMA StopTimerKeeps ==
    ASSUME UtilitiesAssumption, BenchmarkInv, NEW t \in Timers, NEW elapsed \in 1 .. Ticks,
           Benchmarks!StopTimer(t, elapsed)
    PROVE  BenchmarkInv'
<1> DEFINE b == [iteration |-> count, took |-> elapsed]
<1>1. PICK sampled \in (IF sampler[t] = run THEN {Benchmarks!should_sample} ELSE BOOLEAN) :
         samples' = [samples EXCEPT ![t] = IF sampled THEN Append(@, elapsed) ELSE @]
  BY Zenon DEF Benchmarks!StopTimer
<1>2. /\ sampling /\ ready[t] /\ ready' = [ready EXCEPT ![t] = FALSE]
      /\ taken' = [taken EXCEPT ![t] = Append(@, b)]
      /\ UNCHANGED <<run, sampling, count, registered, sampler, reports>>
  BY DEF Benchmarks!StopTimer
<1>3. elapsed \in Nat /\ count \in Nat /\ b \in Blocks /\ taken[t] \in Seq(Blocks)
      /\ samples[t] \in Seq(Nat)
  BY UtilitiesAssumption DEF ConstantsFit, BenchmarkInv, Timed, Blocks
<1>4. /\ ready' \in [Timers -> BOOLEAN] /\ ~ ready'[t]
      /\ \A u \in Timers : u # t => ready'[u] = ready[u]
  BY <1>2 DEF BenchmarkInv, Timed
<1>5. /\ samples' \in [Timers -> Seq(Nat)]
      /\ samples'[t] = IF sampled THEN Append(samples[t], elapsed) ELSE samples[t]
      /\ \A u \in Timers : u # t => samples'[u] = samples[u]
  BY <1>1, <1>3 DEF BenchmarkInv, Timed
<1>6. /\ taken' \in [Timers -> Seq(Blocks)] /\ taken'[t] = Append(taken[t], b)
      /\ \A u \in Timers : u # t => taken'[u] = taken[u]
  BY <1>2, <1>3 DEF BenchmarkInv, Timed
<1>7. Timed' /\ Registered'
  BY <1>2, <1>4, <1>5, <1>6, Zenon DEF BenchmarkInv, Timed, Registered, Here
<1>8. Benchmarks!ReportsExact'
  BY <1>2 DEF Benchmarks!ReportsExact
<1>9. Benchmarks!done' = Benchmarks!done /\ \A u \in Timers : Here(u)' = Here(u)
  BY <1>2 DEF Benchmarks!done, Here
<1>10. Collected'
  <2> SUFFICES ASSUME NEW u \in Timers
               PROVE  /\ sampler'[u] = 0 => samples'[u] = <<>> /\ taken'[u] = <<>>
                      /\ ready'[u] => sampling' /\ ~ Benchmarks!done' /\ sampler'[u] # 0
                      /\ \A k \in DOMAIN taken'[u] : taken'[u][k].iteration <= count'
                      /\ Here(u)' => ready'[u] \/ taken'[u] # <<>>
                      /\ Here(u)' /\ sampling' => samples'[u] = Benchmarks!Sampled(u)'
    BY DEF Collected
  <2>1. CASE u # t
    <3>1. Benchmarks!Sampled(u)' = Benchmarks!Sampled(u)
      BY <1>6, <2>1, Zenon DEF Benchmarks!Sampled, Benchmarks!Early
    <3> QED
      BY <1>2, <1>4, <1>5, <1>6, <1>9, <2>1, <3>1, Zenon DEF BenchmarkInv, Collected
  <2>2. CASE u = t
    <3>1. sampler[t] # 0 /\ \A k \in DOMAIN taken[t] : taken[t][k].iteration <= count
      BY <1>2 DEF BenchmarkInv, Collected
    <3>2. taken'[t] # <<>> /\ \A k \in DOMAIN taken'[t] : taken'[t][k].iteration <= count
      <4> HIDE DEF b
      <4>1. PICK n \in Nat : n = Len(taken[t]) /\ DOMAIN taken[t] = 1 .. n
        BY <1>3
      <4>2. /\ DOMAIN taken'[t] = 1 .. n + 1 /\ taken'[t][n + 1] = b /\ taken'[t] # <<>>
            /\ \A k \in 1 .. n : taken'[t][k] = taken[t][k]
        <5>1. /\ Len(Append(taken[t], b)) = n + 1 /\ Append(taken[t], b)[n + 1] = b
              /\ Append(taken[t], b) \in Seq(Blocks) /\ Append(taken[t], b) # <<>>
              /\ \A k \in 1 .. n : Append(taken[t], b)[k] = taken[t][k]
          <6>1. b \in Blocks /\ taken[t] \in Seq(Blocks)
            BY <1>3
          <6>2. /\ Append(taken[t], b) \in Seq(Blocks) /\ Append(taken[t], b) # <<>>
                /\ Len(Append(taken[t], b)) = Len(taken[t]) + 1
                /\ \A k \in 1 .. Len(taken[t]) : Append(taken[t], b)[k] = taken[t][k]
                /\ Append(taken[t], b)[Len(taken[t]) + 1] = b
            BY <6>1, AppendProperties, ZenonT(30)
          <6> QED
            BY <4>1, <6>2
        <5> QED
          BY <1>6, <5>1
      <4>3. b.iteration <= count
        BY <1>3 DEF b
      <4>4. \A k \in 1 .. n + 1 : k = n + 1 \/ k \in 1 .. n
        OBVIOUS
      <4> QED
        BY <3>1, <4>1, <4>2, <4>3, <4>4, Zenon
    <3>3. Here(t) => samples'[t] = Benchmarks!Sampled(t)'
      <4> SUFFICES ASSUME Here(t) PROVE samples'[t] = Benchmarks!Sampled(t)'
        OBVIOUS
      <4>1. sampled = Benchmarks!should_sample /\ samples[t] = Benchmarks!Sampled(t)
        BY <1>1, <1>2 DEF Here, BenchmarkInv, Collected
      <4>2. Benchmarks!Sampled(t)' =
               IF Benchmarks!should_sample THEN Append(Benchmarks!Sampled(t), elapsed)
               ELSE Benchmarks!Sampled(t)
        BY <1>2, <1>3, <3>1, SampledAppend, Zenon DEF BenchmarkInv
      <4> QED
        BY <1>5, <4>1, <4>2
    <3> QED
      BY <1>2, <1>4, <1>9, <2>2, <3>1, <3>2, <3>3
  <2> QED
    BY <2>1, <2>2
<1> QED
  BY <1>7, <1>8, <1>10 DEF BenchmarkInv

\* An iteration ends.
LEMMA NextIterationKeeps ==
    ASSUME BenchmarkInv, Benchmarks!NextIteration
    PROVE  BenchmarkInv'
<1>1. /\ \A t \in Timers : ~ ready[t]
      /\ sampling /\ count' = count + 1
      /\ UNCHANGED <<run, sampling, reports, registered, sampler, ready, samples, taken>>
  BY DEF Benchmarks!NextIteration, Benchmarks!timers
<1>2. Timed' /\ Registered' /\ Benchmarks!ReportsExact'
  BY <1>1 DEF BenchmarkInv, Timed, Registered, Here, Benchmarks!ReportsExact,
     Benchmarks!Stale
<1>3. \A t \in Timers : \A k \in DOMAIN taken[t] : taken[t][k].iteration <= count + 1
  <2> SUFFICES ASSUME NEW t \in Timers, NEW k \in DOMAIN taken[t]
               PROVE  taken[t][k].iteration <= count + 1
    OBVIOUS
  <2>1. taken[t][k] \in Blocks /\ taken[t][k].iteration <= count /\ count \in Nat
    BY DEF BenchmarkInv, Collected, Timed
  <2>2. taken[t][k].iteration \in Nat
    BY <2>1 DEF Blocks
  <2> QED
    BY <2>1, <2>2
<1>4. \A t \in Timers : Benchmarks!Sampled(t)' = Benchmarks!Sampled(t)
  BY <1>1 DEF Benchmarks!Sampled, Benchmarks!Early
<1>5. Collected'
  BY <1>1, <1>3, <1>4 DEF BenchmarkInv, Collected, Here
<1> QED
  BY <1>2, <1>5 DEF BenchmarkInv

\* A run ends: those registered, and no others, were come to in it.
LEMMA FinishKeeps ==
    ASSUME BenchmarkInv, Benchmarks!Finish
    PROVE  BenchmarkInv'
<1> DEFINE here == {t \in Timers : taken[t] # <<>> /\ sampler[t] = run}
           n == Len(registered)
<1>1. /\ sampling /\ Benchmarks!done /\ sampling' = FALSE
      /\ reports' = [k \in DOMAIN registered |->
                       [timer |-> registered[k], values |-> samples[registered[k]]]]
      /\ samples' = [t \in Timers |->
                       IF \E k \in DOMAIN registered : registered[k] = t THEN <<>> ELSE samples[t]]
      /\ UNCHANGED <<run, count, registered, sampler, ready, taken>>
  BY DEF Benchmarks!Finish
<1>2. run \in Nat /\ run > 0 /\ n \in Nat /\ DOMAIN registered = 1 .. n
      /\ registered \in Seq(Timers)
  BY <1>1 DEF BenchmarkInv, Timed, Registered
<1>3. samples' \in [Timers -> Seq(Nat)]
  BY <1>1 DEF BenchmarkInv, Timed
<1>4. Timed' /\ Registered'
  BY <1>1, <1>3, Zenon DEF BenchmarkInv, Timed, Registered, Here
<1>5. \A t \in Timers : ~ ready[t]
  BY <1>1 DEF BenchmarkInv, Collected
<1>6. Collected'
  BY <1>1, <1>5 DEF BenchmarkInv, Collected, Here
<1>7. \A k \in 1 .. n : registered[k] \in here
  <2> SUFFICES ASSUME NEW k \in 1 .. n PROVE registered[k] \in here
    OBVIOUS
  <2>1. registered[k] \in Timers /\ Here(registered[k])
    BY <1>2 DEF BenchmarkInv, Registered
  <2> QED
    BY <1>5, <2>1 DEF BenchmarkInv, Collected, Here
<1>8. \A t \in here : \E k \in 1 .. n : registered[k] = t
  BY <1>2 DEF BenchmarkInv, Registered, Here
<1>9. Benchmarks!Cardinality(here) = n
  <2>1. registered \in [1 .. n -> here]
    BY <1>2, <1>7
  <2>2. registered \in Bijection(1 .. n, here)
    <3>1. \A j, k \in 1 .. n : registered[j] = registered[k] => j = k
      BY <1>2 DEF BenchmarkInv, Registered
    <3> HIDE DEF here, n
    <3> QED
      BY <1>2, <1>8, <2>1, <3>1 DEF Bijection, Injection, Surjection, IsInjective
  <2>3. ExistsBijection(1 .. n, here)
    BY <2>2 DEF ExistsBijection
  <2> HIDE DEF here, n
  <2>4. Cardinality(here) = n
    BY <1>2, <2>3, FS_CountingElements
  <2> QED
    BY <2>4, TimersCounted
<1>10. Benchmarks!ReportsExact'
  <2> DEFINE r == reports'
  <2>1. /\ DOMAIN r = 1 .. n /\ Len(r) = n
        /\ \A k \in 1 .. n : r[k].timer = registered[k] /\ r[k].values = samples[registered[k]]
    BY <1>1, <1>2
  <2>2. /\ \A t \in here : taken'[t] # <<>>
        /\ \A t \in Timers : taken'[t] # <<>> => t \in here \/ Benchmarks!Stale(t)'
    <3>1. /\ \A t \in Timers : taken[t] # <<>> => sampler[t] # 0
          /\ UNCHANGED <<taken, sampler, run>>
      BY <1>1 DEF BenchmarkInv, Collected
    <3> QED
      BY <3>1 DEF Benchmarks!Stale
  <2>3. {r[k].timer : k \in DOMAIN r} = here
    BY <1>7, <1>8, <2>1
  <2>4. \A t \in Timers : Benchmarks!Sampled(t)' = Benchmarks!Sampled(t)
    BY <1>1 DEF Benchmarks!Sampled, Benchmarks!Early
  <2>5. (\A k \in DOMAIN reports : reports[k].values = Benchmarks!Sampled(reports[k].timer))'
    <3> SUFFICES ASSUME NEW k \in 1 .. n
                 PROVE  reports'[k].values = Benchmarks!Sampled(reports[k].timer)'
      BY <2>1
    <3>1. registered[k] \in Timers /\ Here(registered[k])
      BY <1>2 DEF BenchmarkInv, Registered
    <3>2. samples[registered[k]] = Benchmarks!Sampled(registered[k])
      BY <1>1, <3>1 DEF BenchmarkInv, Collected
    <3>3. reports'[k].timer = registered[k] /\ taken' = taken
      BY <1>1, <2>1
    <3>4. Benchmarks!Sampled(reports[k].timer)' = Benchmarks!Sampled(registered[k])
      BY <3>3 DEF Benchmarks!Sampled, Benchmarks!Early
    <3> QED
      BY <2>1, <3>2, <3>4
  <2>6. Len(r) = Benchmarks!Cardinality(here)
    BY <1>9, <2>1
  <2> HIDE DEF here
  <2> QED
    BY <2>2, <2>3, <2>5, <2>6, Zenon DEF Benchmarks!ReportsExact
<1> QED
  BY <1>4, <1>6, <1>10 DEF BenchmarkInv

\* Every step of a benchmark keeps BenchmarkInv.
LEMMA BenchmarkStep == UtilitiesAssumption /\ BenchmarkInv /\ [Benchmarks!Next]_benchmarkVars => BenchmarkInv'
<1> SUFFICES ASSUME UtilitiesAssumption, BenchmarkInv, [Benchmarks!Next]_benchmarkVars PROVE BenchmarkInv'
  OBVIOUS
<1>1. CASE UNCHANGED benchmarkVars
  <2>1. \A t : Benchmarks!Sampled(t)' = Benchmarks!Sampled(t)
    BY <1>1 DEF benchmarkVars, Benchmarks!Sampled, Benchmarks!Early
  <2>2. Timed' /\ Registered' /\ Collected'
    BY <1>1, <2>1
       DEF benchmarkVars, BenchmarkInv, Timed, Registered, Collected, Here, Benchmarks!done
  <2>3. Benchmarks!ReportsExact'
    BY <1>1, <2>1
       DEF benchmarkVars, BenchmarkInv, Benchmarks!ReportsExact, Benchmarks!Stale
  <2> QED
    BY <2>2, <2>3 DEF BenchmarkInv
<1>2. CASE Benchmarks!Next
  BY <1>2, MeasureKeeps, StartTimerKeeps, StopTimerKeeps, NextIterationKeeps, FinishKeeps
     DEF Benchmarks!Next
<1> QED
  BY <1>1, <1>2

-----------------------------------------------------------------------------
(* Remainders.                                                             *)

\* What the provers need of remainders, near the modulus.
LEMMA Remainder ==
    ASSUME NEW n \in Nat \ {0}, NEW x \in Int
    PROVE  /\ x % n \in 0 .. n - 1
           /\ 0 <= x /\ x < n => x % n = x
           /\ n <= x /\ x < 2 * n => x % n = x - n
           /\ - n <= x /\ x < 0 => x % n = x + n
<1>1. x % n \in 0 .. n - 1
  OBVIOUS
<1>2. 0 <= x /\ x < n => x % n = x
  OBVIOUS
<1>3. n <= x /\ x < 2 * n => x % n = x - n
  OBVIOUS
<1>4. - n <= x /\ x < 0 => x % n = x + n
  OBVIOUS
<1> QED
  BY <1>1, <1>2, <1>3, <1>4

\* In the width of an address; from here on only by what this says of it.
Wrapped(x) == x % Space
\* That is in range, and off by the width if at all.
LEMMA Wraps ==
    ASSUME UtilitiesAssumption
    PROVE  /\ Space \in Nat \ {0}
           /\ \A x \in Int : Wrapped(x) \in 0 .. Space - 1
           /\ \A x \in Int : 0 <= x /\ x < Space => Wrapped(x) = x
           /\ \A x \in Int : Space <= x /\ x < 2 * Space => Wrapped(x) = x - Space
           /\ \A x \in Int : - Space <= x /\ x < 0 => Wrapped(x) = x + Space
           /\ \A a, b : Offsets!Distance(a, b) = Wrapped(a - b)
<1>1. Space \in Nat \ {0}
  BY UtilitiesAssumption DEF ConstantsFit
<1>2. ASSUME NEW x \in Int
      PROVE  /\ Wrapped(x) \in 0 .. Space - 1
             /\ 0 <= x /\ x < Space => Wrapped(x) = x
             /\ Space <= x /\ x < 2 * Space => Wrapped(x) = x - Space
             /\ - Space <= x /\ x < 0 => Wrapped(x) = x + Space
  BY <1>1, Remainder, Zenon DEF Wrapped
<1>3. \A a, b : Offsets!Distance(a, b) = Wrapped(a - b)
  BY Zenon DEF Offsets!Distance, Wrapped
<1> QED
  BY <1>1, <1>2, <1>3

\* The same, as a choice of three.
LEMMA WrapsTo ==
    ASSUME UtilitiesAssumption, NEW x \in Int, - Space <= x, x < 2 * Space
    PROVE  /\ Wrapped(x) \in 0 .. Space - 1
           /\ Wrapped(x) = x \/ Wrapped(x) = x - Space \/ Wrapped(x) = x + Space
<1>1. x < 0 \/ (0 <= x /\ x < Space) \/ Space <= x
  BY Wraps
<1> QED
  BY <1>1, Wraps

\* What is off by the width from an address wraps to it.
LEMMA WrappedIs ==
    ASSUME UtilitiesAssumption, NEW x \in Int, NEW t \in 0 .. Space - 1,
           x = t \/ x = t - Space \/ x = t + Space
    PROVE  Wrapped(x) = t
<1>1. CASE x = t
  BY <1>1, Wraps
<1>2. CASE x = t - Space
  <2>1. - Space <= x /\ x < 0 /\ x + Space = t
    BY <1>2, Wraps
  <2> QED
    BY <2>1, Wraps
<1>3. CASE x = t + Space
  <2>1. Space <= x /\ x < 2 * Space /\ x - Space = t
    BY <1>3, Wraps
  <2> QED
    BY <2>1, Wraps
<1> QED
  BY <1>1, <1>2, <1>3

\* The offset of a pointer at p to what a pointer at q is f away from.
LEMMA OffsetsAdd ==
    ASSUME NEW n \in Nat \ {0}, NEW p \in 0 .. n - 1, NEW q \in 0 .. n - 1, NEW f \in 0 .. n - 1,
           NEW t \in 0 .. n - 1, NEW d \in 0 .. n - 1, NEW o \in 0 .. n - 1,
           d = p - q \/ d = p - q + n, t = q - f \/ t = q - f + n,
           o = d + f \/ o = d + f - n
    PROVE  p - o = t \/ p - o = t - n
<1>1. CASE o = d + f
  BY <1>1
<1>2. CASE o = d + f - n
  BY <1>2
<1> QED
  BY <1>1, <1>2

\* No remainder makes a multiple.
LEMMA Multiple ==
    ASSUME NEW n \in Nat \ {0}, NEW x \in Int, x % n = 0
    PROVE  \E k \in Int : x = n * k
<1>1. x = n * (x \div n)
  OBVIOUS
<1>2. x \div n \in Int
  OBVIOUS
<1> QED
  BY <1>1, <1>2

\* What is added to a multiple remains.
LEMMA RemainderOfSum ==
    ASSUME NEW n \in Nat \ {0}, NEW k \in Int, NEW r \in 0 .. n - 1
    PROVE  (n * k + r) % n = r
OBVIOUS

\* What an alignment divides, a smaller one does.
LEMMA Divides ==
    ASSUME NEW n \in Nat \ {0}, NEW a \in Nat \ {0}, NEW x \in Int, a % n = 0, x % a = 0
    PROVE  \E k \in Int : x = n * k
<1>1. PICK p \in Int : x = a * p
  BY Multiple
<1>2. PICK q \in Int : a = n * q
  BY Multiple
<1>3. x = n * (q * p) /\ q * p \in Int
  BY <1>1, <1>2
<1> QED
  BY <1>3

-----------------------------------------------------------------------------
(* Offset pointers.                                                        *)

AddressesOfSpace == 0 .. Space - 1
\* The inductive invariant of offset pointers is what is promised of them.
OffsetInv ==
    /\ offset \in [Places -> AddressesOfSpace] /\ target \in [Places -> AddressesOfSpace]
    /\ \A p \in Places : Offsets!get(p) = target[p]

\* A distance is again the distance from there.
LEMMA ThereAndBack ==
    ASSUME UtilitiesAssumption, NEW p \in AddressesOfSpace, NEW t \in AddressesOfSpace
    PROVE  /\ Offsets!Distance(p, t) \in AddressesOfSpace
           /\ Offsets!Distance(p, Offsets!Distance(p, t)) = t
<1> DEFINE d == Offsets!Distance(p, t)
<1>1. Space \in Nat \ {0} /\ p \in 0 .. Space - 1 /\ t \in 0 .. Space - 1
  BY UtilitiesAssumption DEF ConstantsFit, AddressesOfSpace
<1>2. d \in 0 .. Space - 1 /\ d = IF t <= p THEN p - t ELSE p - t + Space
  <2>1. p - t \in Int
    BY <1>1
  <2> QED
    BY <1>1, <2>1, Wraps
<1> HIDE DEF d
<1>3. Wrapped(p - d) = t
  <2>1. p - d \in Int
    BY <1>1, <1>2
  <2>2. CASE t <= p
    <3>1. p - d = t
      BY <1>1, <1>2, <2>2
    <3> QED
      BY <1>1, <3>1, Wraps
  <2>3. CASE ~ t <= p
    <3>1. p - d = t - Space
      BY <1>1, <1>2, <2>3
    <3>2. - Space <= p - d /\ p - d < 0
      BY <1>1, <3>1
    <3> QED
      BY <1>1, <2>1, <3>1, <3>2, Wraps
  <2> QED
    BY <2>2, <2>3
<1> QED
  BY <1>2, <1>3, Wraps DEF AddressesOfSpace, d

\* A pointer lies at an address that is not null.
LEMMA PlaceIsAddress ==
    ASSUME UtilitiesAssumption
    PROVE  Places \subseteq AddressesOfSpace /\ 0 \in AddressesOfSpace /\ 0 \notin Places
BY UtilitiesAssumption DEF ConstantsFit, AddressesOfSpace

\* A pointer whose offset leads to an address refers to it.
LEMMA RefersKeeps ==
    ASSUME UtilitiesAssumption, OffsetInv, NEW p \in Places, NEW o \in AddressesOfSpace,
           NEW t \in AddressesOfSpace, Offsets!Distance(p, o) = t, Offsets!Refers(p, o, t)
    PROVE  OffsetInv'
BY DEF OffsetInv, Offsets!Refers, Offsets!get, Offsets!Distance

\* Assigning, copying and moving keep where pointers lead.
LEMMA OffsetStep ==
    ASSUME UtilitiesAssumption, OffsetInv, [Offsets!Next]_offsetVars
    PROVE  OffsetInv'
<1> DEFINE A == AddressesOfSpace
<1> USE PlaceIsAddress
<1>1. CASE UNCHANGED offsetVars
  BY <1>1 DEF offsetVars, OffsetInv, Offsets!get, Offsets!Distance
<1>2. ASSUME NEW p \in Places, NEW t \in A, Offsets!FromPointer(p, t) PROVE OffsetInv'
  BY <1>2, ThereAndBack, RefersKeeps DEF Offsets!FromPointer
<1>3. ASSUME NEW p \in Places, Offsets!SetNull(p) PROVE OffsetInv'
  <2>1. Offsets!Distance(p, p) = 0
    <3>1. p - p = 0 /\ Space \in Nat \ {0}
      BY UtilitiesAssumption DEF ConstantsFit, AddressesOfSpace
    <3> QED
      BY <3>1, Wraps
  <2> QED
    BY <1>3, <2>1, RefersKeeps DEF Offsets!SetNull
<1>4. ASSUME NEW p \in Places, NEW q \in Places, Offsets!CopyConstruct(p, q) PROVE OffsetInv'
  <2>1. Offsets!get(q) \in A
    BY DEF OffsetInv
  <2> QED
    BY <1>2, <1>4, <2>1 DEF Offsets!CopyConstruct
<1>5. ASSUME NEW p \in Places, NEW o \in A, Offsets!FromOffset(p, o) PROVE OffsetInv'
  <2>1. Offsets!Distance(p, o) \in A
    BY ThereAndBack
  <2> QED
    BY <1>5, <2>1, RefersKeeps DEF Offsets!FromOffset
<1>6. ASSUME NEW p \in Places, NEW q \in Places, NEW a \in Places, Offsets!FromOffsetOf(p, q, a)
      PROVE  OffsetInv'
  <2>1. Offsets!Distance(a, Offsets!get(q)) \in A
    BY ThereAndBack DEF OffsetInv
  <2> QED
    BY <1>5, <1>6, <2>1 DEF Offsets!FromOffsetOf
<1>7. ASSUME NEW p \in Places, NEW q \in Places, Offsets!CopyAssign(p, q) PROVE OffsetInv'
  <2> DEFINE o == Wrapped(Offsets!Distance(p, q) + offset[q])
             d == Offsets!Distance(p, q)
             t == target[q]
  <2>1. /\ Space \in Nat \ {0} /\ p \in 0 .. Space - 1 /\ q \in 0 .. Space - 1
        /\ d \in 0 .. Space - 1 /\ offset[q] \in 0 .. Space - 1 /\ t \in 0 .. Space - 1
        /\ Wrapped(q - offset[q]) = t
    BY ThereAndBack, Wraps, Zenon, UtilitiesAssumption DEF ConstantsFit, AddressesOfSpace, OffsetInv, Offsets!get
  <2>2. d = p - q \/ d = p - q + Space
    <3>1. p - q \in Int
      BY <2>1
    <3> QED
      BY <2>1, <3>1, Wraps
  <2>3. t = q - offset[q] \/ t = q - offset[q] + Space
    <3>1. /\ q - offset[q] \in Int /\ - Space <= q - offset[q] /\ q - offset[q] < 2 * Space
          /\ q - offset[q] < Space
      BY <2>1
    <3>2. \/ t = q - offset[q] \/ t = q - offset[q] - Space \/ t = q - offset[q] + Space
      BY <2>1, <3>1, WrapsTo, Zenon
    <3> QED
      BY <2>1, <3>1, <3>2
  <2> HIDE DEF d, t
  <2>4. o \in 0 .. Space - 1 /\ (o = d + offset[q] \/ o = d + offset[q] - Space)
    <3>1. /\ d + offset[q] \in Int /\ 0 <= d + offset[q] /\ - Space <= d + offset[q]
          /\ d + offset[q] < 2 * Space
      BY <2>1
    <3>2. PICK x : x = d + offset[q]
      OBVIOUS
    <3>3. Wrapped(x) \in 0 .. Space - 1
          /\ (Wrapped(x) = x \/ Wrapped(x) = x - Space \/ Wrapped(x) = x + Space)
      BY <3>1, <3>2, WrapsTo, Zenon
    <3>4. o = Wrapped(x)
      BY <3>2 DEF d
    <3> HIDE DEF o
    <3> QED
      BY <2>1, <3>1, <3>2, <3>3, <3>4
  <2> HIDE DEF o
  <2>5. Wrapped(p - o) = t
    <3>1. p - o \in Int
      BY <2>1, <2>4
    <3>2. PICK f \in 0 .. Space - 1 : f = offset[q]
      BY <2>1
    <3>3. /\ p \in 0 .. Space - 1 /\ q \in 0 .. Space - 1 /\ Space \in Nat \ {0}
          /\ d \in 0 .. Space - 1 /\ t \in 0 .. Space - 1 /\ o \in 0 .. Space - 1
      BY <2>1, <2>4
    <3>4. t = q - f \/ t = q - f + Space
      BY <2>3, <3>2
    <3>5. o = d + f \/ o = d + f - Space
      BY <2>4, <3>2
    <3>6. p - o = t \/ p - o = t - Space
      BY <2>2, <3>3, <3>4, <3>5, OffsetsAdd
    <3> QED
      BY <2>1, <3>1, <3>6, WrappedIs
  <2> QED
    <3>1. Offsets!Refers(p, o, t)
      BY <1>7 DEF Offsets!CopyAssign, o, t, Wrapped
    <3>2. Offsets!Distance(p, o) = t
      BY <2>5, Wraps
    <3> QED
      BY <2>1, <2>4, <3>1, <3>2, RefersKeeps DEF AddressesOfSpace
<1>8. ASSUME NEW p \in Places, NEW q \in Places, Offsets!Relocate(p, q) PROVE OffsetInv'
  <2> DEFINE o == offset[p]
             s == target[p]
             t == Wrapped(target[p] + q - p)
  <2>1. /\ Space \in Nat \ {0} /\ p \in 0 .. Space - 1 /\ q \in 0 .. Space - 1
        /\ o \in 0 .. Space - 1 /\ s \in 0 .. Space - 1
        /\ Wrapped(p - o) = s
    BY Wraps, UtilitiesAssumption DEF ConstantsFit, AddressesOfSpace, OffsetInv, Offsets!get
  <2>2. s = p - o \/ s = p - o + Space
    <3>1. p - o \in Int
      BY <2>1
    <3> QED
      BY <2>1, <3>1, Wraps
  <2>3. /\ s + q - p \in Int /\ - Space <= s + q - p /\ s + q - p < 2 * Space
    BY <2>1
  <2>4. t \in 0 .. Space - 1 /\ \/ t = s + q - p
                                \/ t = s + q - p - Space
                                \/ t = s + q - p + Space
    <3>1. PICK x : x = s + q - p
      OBVIOUS
    <3>2. Wrapped(x) \in 0 .. Space - 1
          /\ (Wrapped(x) = x \/ Wrapped(x) = x - Space \/ Wrapped(x) = x + Space)
      BY <2>3, <3>1, WrapsTo
    <3>3. t = Wrapped(x)
      BY <3>1
    <3> HIDE DEF t, s
    <3> QED
      BY <2>1, <2>3, <3>1, <3>2, <3>3
  <2> HIDE DEF o, s, t
  <2>5. Wrapped(q - o) = t
    <3>1. q - o \in Int /\ q - o < Space /\ q - o > - Space
      BY <2>1
    <3>2. \/ q - o = t \/ q - o = t - Space \/ q - o = t + Space
          \/ q - o = t - 2 * Space \/ q - o = t + 2 * Space
      BY <2>1, <2>2, <2>4
    <3>3. q - o = t \/ q - o = t - Space
      BY <2>1, <2>4, <3>1, <3>2
    <3> QED
      BY <2>4, <3>1, <3>3, WrappedIs
  <2> QED
    <3>1. Offsets!Refers(q, o, t)
      BY <1>8 DEF Offsets!Relocate, o, t, Wrapped
    <3>2. Offsets!Distance(q, o) = t
      BY <2>5, Wraps
    <3> QED
      BY <2>1, <2>4, <3>1, <3>2, RefersKeeps DEF AddressesOfSpace
<1> QED
  BY <1>1, <1>2, <1>3, <1>4, <1>5, <1>6, <1>7, <1>8 DEF Offsets!Next, AddressesOfSpace

\* At first they are null.
LEMMA OffsetInit == UtilitiesAssumption /\ Offsets!Init => OffsetInv
<1> SUFFICES ASSUME UtilitiesAssumption, Offsets!Init PROVE OffsetInv
  OBVIOUS
<1>1. ASSUME NEW p \in Places PROVE Offsets!Distance(p, p) = 0
  <2>1. p - p = 0 /\ Space \in Nat \ {0}
    BY UtilitiesAssumption DEF ConstantsFit
  <2> QED
    BY <2>1, Wraps
<1> QED
  BY <1>1, PlaceIsAddress DEF Offsets!Init, OffsetInv, Offsets!get

\* The invariant says what PointersExact does.
LEMMA OffsetRight == OffsetInv => Offsets!PointersExact
BY DEF OffsetInv, Offsets!PointersExact, AddressesOfSpace

-----------------------------------------------------------------------------
(* Unions of pointers.                                                     *)

\* There is a smallest alignment.
LEMMA SmallestAlignment ==
    ASSUME NEW a, a \in Seq(Nat \ {0}), a # <<>>
    PROVE  LET S == {a[i] : i \in DOMAIN a}
           IN  Unions!Min(S) \in S /\ \A x \in S : Unions!Min(S) <= x
<1> DEFINE S == {a[i] : i \in DOMAIN a}
<1>1. S \subseteq Nat /\ S # {}
  <2>1. 1 \in DOMAIN a
    OBVIOUS
  <2> QED
    BY <2>1
<1> HIDE DEF S
<1>0. PICK R : R = {ss \in Nat \X Nat : ss[1] < ss[2]}
  BY Zenon
<1>2. IsWellFoundedOn(R, Nat)
  BY <1>0, NatLessThanWellFounded DEF OpToRel
<1>6. PICK x \in S : \A y \in S : ~ (<<y, x>> \in R)
  BY <1>1, <1>2, WFMin, Zenon
<1>3. \A y \in S : x <= y
  <2> SUFFICES ASSUME NEW y \in S
               PROVE  x <= y
    OBVIOUS
  <2>1. x \in Nat /\ y \in Nat /\ <<y, x>> \in Nat \X Nat
    BY <1>1, <1>6
  <2>2. ~ (<<y, x>> \in R)
    BY <1>6
  <2>3. <<y, x>>[1] = y /\ <<y, x>>[2] = x
    OBVIOUS
  <2>4. ~ (y < x)
    BY <1>0, <2>1, <2>2, <2>3
  <2> QED
    BY <2>1, <2>4
<1>4. \E z \in S : \A y \in S : z <= y
  BY <1>3
<1>5. Unions!Min(S) \in S /\ \A y \in S : Unions!Min(S) <= y
  BY <1>4 DEF Unions!Min
<1> QED
  BY <1>5, Zenon DEF S

\* A union that is constructed has bits that the mask can tell, unless it holds
\* a type past the mask.
UnionInv ==
    /\ alignments \in MCAlignments /\ Unions!Admitted(alignments)
    /\ held \in [type : Nat, address : Int]
    /\ held.type \in Unions!Types
    /\ Unions!Masked(held.type) => bits = held.address + held.type
    /\ \E k \in Int : held.address = Unions!RequiredAlignment * k

\* The powers of two up to 32.
LEMMA SmallPowers ==
    ASSUME NEW p \in 1 .. 32, Unions!PowerOfTwo(p)
    PROVE  p \in {1, 2, 4, 8, 16, 32}
<1>1. \A q \in {3, 5, 7, 11, 13, 17, 19, 23, 29, 31} : q <= p => p % q # 0
  BY DEF Unions!PowerOfTwo
<1> QED
  BY <1>1

\* The smallest alignment divides the others, and is one that an int can be
\* shifted by.
LEMMA UnionAligned ==
    ASSUME UtilitiesAssumption, alignments \in MCAlignments, Unions!Admitted(alignments)
    PROVE  /\ Unions!RequiredAlignment \in {1, 2, 4, 8, 16, 32}
           /\ Len(alignments) \in Nat \ {0} /\ DOMAIN alignments = 1 .. Len(alignments)
           /\ \A i \in DOMAIN alignments :
                 /\ alignments[i] \in Nat \ {0}
                 /\ alignments[i] % Unions!RequiredAlignment = 0
<1> DEFINE m == Unions!RequiredAlignment
<1>1. /\ alignments \in Seq(Nat \ {0}) /\ alignments # <<>>
      /\ \A i, j \in DOMAIN alignments :
            alignments[i] <= alignments[j] => alignments[j] % alignments[i] = 0
      /\ \A i \in DOMAIN alignments : Unions!PowerOfTwo(alignments[i])
  BY UtilitiesAssumption DEF ConstantsFit, Unions!PowerOfTwo
<1>2. /\ m \in {alignments[i] : i \in DOMAIN alignments}
      /\ \A x \in {alignments[i] : i \in DOMAIN alignments} : m <= x
  BY <1>1, SmallestAlignment, Zenon DEF Unions!RequiredAlignment
<1>3. m \in Nat \ {0} /\ Unions!PowerOfTwo(m)
  BY <1>1, <1>2
<1>4. m <= 32
  BY DEF Unions!Admitted, Unions!RequiredAlignment
<1>5. ASSUME NEW i \in DOMAIN alignments PROVE alignments[i] % m = 0
  <2>1. PICK j \in DOMAIN alignments : m = alignments[j]
    BY <1>2
  <2>2. alignments[j] <= alignments[i]
    BY <1>2, <2>1
  <2> HIDE DEF m
  <2> QED
    BY <1>1, <2>1, <2>2
<1>6. m \in {1, 2, 4, 8, 16, 32}
  <2> HIDE DEF m
  <2> QED
    BY <1>3, <1>4, SmallPowers
<1> QED
  BY <1>1, <1>5, <1>6

\* A sum of nothing.
LEMMA SumOfNone == Unions!SumSet({}) = 0
<1> DEFINE one(T) == CHOOSE x \in T : TRUE
           sum[T \in SUBSET {}] == IF T = {} THEN 0 ELSE one(T) + sum[T \ {one(T)}]
           g == [T \in SUBSET {} |-> 0]
<1>1. Unions!SumSet({}) = sum[{}]
  BY DEF Unions!SumSet, Unions!FoldSet, Unions!MapThenFoldSet
<1>2. g = [T \in SUBSET {} |-> IF T = {} THEN 0 ELSE one(T) + g[T \ {one(T)}]]
  OBVIOUS
<1>3. sum = [T \in SUBSET {} |-> IF T = {} THEN 0 ELSE one(T) + sum[T \ {one(T)}]]
  <2> HIDE DEF g, one
  <2> QED
    BY <1>2, Zenon
<1> HIDE DEF sum
<1>4. sum[{}] = 0
  BY <1>3
<1> QED
  BY <1>1, <1>4

\* An aligned address has no bit that an index below the alignment has.
LEMMA OrAligned ==
    ASSUME NEW m \in {1, 2, 4, 8, 16, 32}, NEW k \in Int, NEW y \in 0 .. m - 1
    PROVE  Unions!Or(m * k, y) = m * k + y
<1>1. ASSUME NEW p \in Unions!Bits(y) PROVE ((m * k) \div p) % 2 # 1
  <2>1. p \in 1 .. y /\ Unions!PowerOfTwo(p)
    BY DEF Unions!Bits
  <2>2. p \in {1, 2, 4, 8, 16} /\ p < m
    BY <2>1, SmallPowers
  <2>3. PICK r \in {1, 2, 4, 8, 16} : m = p * (2 * r)
    BY <2>2
  <2>4. m * k = p * (2 * (r * k))
    BY <2>2, <2>3
  <2>5. (m * k) \div p = 2 * (r * k)
    <3> DEFINE n == 2 * (r * k)
    <3>1. n \in Int
      OBVIOUS
    <3> HIDE DEF n
    <3>2. (p * n) \div p = n
      BY <2>2, <3>1
    <3> QED
      BY <2>4, <3>2 DEF n
  <2> DEFINE n == r * k
  <2>6. n \in Int
    BY <2>3
  <2>7. (m * k) \div p = 2 * n
    BY <2>5
  <2> HIDE DEF n
  <2> QED
    BY <2>6, <2>7
<1>2. {p \in Unions!Bits(y) : ((m * k) \div p) % 2 = 1} = {}
  BY <1>1, Zenon
<1>3. Unions!Or(m * k, y) = (m * k) + y - 0
  BY <1>2, SumOfNone, Zenon DEF Unions!Or
<1>4. m * k \in Int
  OBVIOUS
<1> QED
  BY <1>3, <1>4

\* UnionInv holds at first,
LEMMA UnionInit ==
    ASSUME UtilitiesAssumption, Unions!Init PROVE UnionInv
<1>1. alignments \in MCAlignments /\ Unions!Admitted(alignments) /\ bits = 0
      /\ held = [type |-> 0, address |-> 0]
  BY DEF Unions!Init
<1>2. 0 \in Unions!Types /\ Unions!RequiredAlignment \in Nat \ {0}
  BY <1>1, UnionAligned DEF Unions!Types
<1>3. 0 = Unions!RequiredAlignment * 0
  BY <1>2
<1> QED
  BY <1>1, <1>2, <1>3 DEF UnionInv

\* construction keeps it,
LEMMA UnionStep ==
    ASSUME UtilitiesAssumption, UnionInv, [Unions!Next]_unionVars
    PROVE  UnionInv'
<1>1. CASE UNCHANGED unionVars
  BY <1>1, Zenon DEF unionVars, UnionInv, Unions!Admitted, Unions!Types,
     Unions!RequiredAlignment, Unions!Masked
<1>2. ASSUME NEW type \in Unions!Types, NEW ptr \in Unions!Pointees(type),
             Unions!Construct(type, ptr)
      PROVE  UnionInv'
  <2>1. /\ alignments' = alignments /\ bits' = Unions!Or(ptr, type)
        /\ held' = [type |-> type, address |-> ptr]
    BY <1>2 DEF Unions!Construct
  <2>2. /\ Unions!Admitted(alignments)' /\ Unions!Types' = Unions!Types
        /\ Unions!RequiredAlignment' = Unions!RequiredAlignment
    BY <2>1 DEF UnionInv, Unions!Admitted, Unions!Types, Unions!RequiredAlignment
  <2>3. type \in Nat /\ type + 1 \in DOMAIN alignments
    BY UnionAligned DEF Unions!Types, UnionInv
  <2>4. ptr \in Int /\ ptr % alignments[type + 1] = 0
    BY DEF Unions!Pointees
  <2>5. PICK k \in Int : ptr = Unions!RequiredAlignment * k
    <3>1. /\ Unions!RequiredAlignment \in Nat \ {0}
          /\ alignments[type + 1] \in Nat \ {0}
          /\ alignments[type + 1] % Unions!RequiredAlignment = 0
      BY <2>3, UnionAligned DEF UnionInv
    <3> QED
      BY <2>4, <3>1, Divides, Zenon
  <2>6. type < Unions!RequiredAlignment => bits' = ptr + type
    <3> SUFFICES ASSUME type < Unions!RequiredAlignment PROVE bits' = ptr + type
      OBVIOUS
    <3>1. Unions!RequiredAlignment \in {1, 2, 4, 8, 16, 32}
      BY UnionAligned DEF UnionInv
    <3>2. type \in 0 .. Unions!RequiredAlignment - 1
      BY <2>3, <3>1
    <3> QED
      BY <2>1, <2>5, <3>1, <3>2, OrAligned, Zenon
  <2>7. Unions!Masked(held.type)' => bits' = ptr + type
    BY <2>1, <2>2, <2>6 DEF Unions!Masked
  <2>8. held' \in [type : Nat, address : Int] /\ held'.type = type /\ held'.address = ptr
    BY <2>1, <2>3, <2>4
  <2> QED
    BY <2>1, <2>2, <2>5, <2>7, <2>8 DEF UnionInv
<1> QED
  BY <1>1, <1>2 DEF Unions!Next

\* and under it the mask takes tag and address apart.
LEMMA UnionRight ==
    ASSUME UtilitiesAssumption, UnionInv PROVE Unions!HeldExact
<1> SUFFICES ASSUME Unions!Masked(held.type)
             PROVE  \A type \in Unions!Types :
                      /\ (Unions!Tag = type) <=> held.type = type
                      /\ Unions!Tag = type => Unions!Address = held.address
  BY DEF Unions!HeldExact
<1> DEFINE m == Unions!RequiredAlignment
<1>1. PICK k \in Int : held.address = m * k
  BY DEF UnionInv
<1>2. m \in Nat \ {0} /\ held.type \in 0 .. m - 1 /\ held.address \in Int
  BY UnionAligned DEF UnionInv, Unions!Types, Unions!Masked
<1>3. bits = m * k + held.type
  BY <1>1 DEF UnionInv
<1> HIDE DEF m
<1>4. bits % m = held.type
  BY <1>2, <1>3, RemainderOfSum, Zenon
<1>5. Unions!Tag = held.type
  BY <1>4 DEF Unions!Tag, m
<1>6. Unions!Address = held.address
  BY <1>2, <1>5 DEF Unions!Address, UnionInv
<1> QED
  BY <1>5, <1>6

-----------------------------------------------------------------------------
(* Projected spans.                                                        *)

\* The element that a range has at its n-th place, seen from where it begins.
Walk(first, n) == Spans!Plus(iters.kind, first, n)
\* A span refers to what it was cut down to, and its iterators are as far from
\* where they began as they were advanced.
SpanInv ==
    /\ span \in [ptr : Int, size : Nat]
    /\ viewed = Spans!Consecutive(span.ptr, span.size)
    /\ iters \in [kind : Spans!Kinds, ptr : [{1, 2} -> Int]]
    /\ walked.by \in [{1, 2} -> Nat] /\ walked.over \in Seq(Int)
    /\ walked = [over |-> walked.over, by |-> walked.by]
    /\ \A i \in {1, 2} : walked.by[i] <= Len(walked.over)
    /\ \E first \in Int :
          /\ \A n \in 1 .. Len(walked.over) : walked.over[n] = Walk(first, n - 1)
          /\ \A i \in {1, 2} : iters.ptr[i] = Walk(first, walked.by[i])

\* The places of a span.
LEMMA PlacesType ==
    ASSUME NEW ptr \in Int, NEW n \in Nat
    PROVE  /\ Spans!Consecutive(ptr, n) \in Seq(Int) /\ Len(Spans!Consecutive(ptr, n)) = n
           /\ DOMAIN Spans!Consecutive(ptr, n) = 1 .. n
           /\ \A i \in 1 .. n : Spans!Consecutive(ptr, n)[i] = ptr + i - 1
<1> DEFINE p == Spans!Consecutive(ptr, n)
<1>1. p = [i \in 1 .. n |-> ptr + i - 1]
  BY DEF Spans!Consecutive
<1>2. p \in [1 .. n -> Int]
  BY <1>1
<1> HIDE DEF p
<1>3. p \in Seq(Int) /\ Len(p) = n
  BY <1>2
<1> QED
  BY <1>1, <1>3 DEF p

\* A part of the places is the places of a part.
LEMMA PartOfPlaces ==
    ASSUME NEW ptr \in Int, NEW n \in Nat, NEW m \in 0 .. n
    PROVE  /\ SubSeq(Spans!Consecutive(ptr, n), m + 1, Len(Spans!Consecutive(ptr, n)))
                 = Spans!Consecutive(ptr + m, n - m)
           /\ SubSeq(Spans!Consecutive(ptr, n), 1, Len(Spans!Consecutive(ptr, n)) - m)
                 = Spans!Consecutive(ptr, n - m)
<1> DEFINE p == Spans!Consecutive(ptr, n)
           q == Spans!Consecutive(ptr + m, n - m)
           r == Spans!Consecutive(ptr, n - m)
<1>1. p \in Seq(Int) /\ Len(p) = n /\ \A i \in 1 .. n : p[i] = ptr + i - 1
  BY PlacesType
<1>2. n - m \in Nat /\ ptr + m \in Int
  OBVIOUS
<1>3. /\ q \in Seq(Int) /\ Len(q) = n - m /\ DOMAIN q = 1 .. n - m
      /\ \A i \in 1 .. n - m : q[i] = ptr + m + i - 1
  BY <1>2, PlacesType
<1>4. /\ r \in Seq(Int) /\ Len(r) = n - m /\ DOMAIN r = 1 .. n - m
      /\ \A i \in 1 .. n - m : r[i] = ptr + i - 1
  BY <1>2, PlacesType
<1> HIDE DEF p, q, r
<1>5. SubSeq(p, m + 1, n) = q
  <2> DEFINE s == SubSeq(p, m + 1, n)
  <2>1. s \in Seq(Int) /\ Len(s) = n - m
    BY <1>1
  <2>2. \A i \in 1 .. n - m : s[i] = p[m + i]
    BY <1>1
  <2>3. \A i \in 1 .. n - m : m + i \in 1 .. n /\ ptr + (m + i) - 1 = ptr + m + i - 1
    OBVIOUS
  <2>4. \A i \in 1 .. n - m : s[i] = q[i]
    BY <1>1, <1>3, <2>2, <2>3
  <2> HIDE DEF s
  <2>5. s = q
    BY <1>3, <2>1, <2>4, SeqEqual
  <2> QED
    BY <2>5 DEF s
<1>6. SubSeq(p, 1, n - m) = r
  <2> DEFINE s == SubSeq(p, 1, n - m)
  <2>1. s \in Seq(Int) /\ Len(s) = n - m
    BY <1>1
  <2>2. \A i \in 1 .. n - m : s[i] = p[i] /\ i \in 1 .. n
    BY <1>1
  <2>4. \A i \in 1 .. n - m : s[i] = r[i]
    BY <1>1, <1>4, <2>2
  <2> HIDE DEF s
  <2>5. s = r
    BY <1>4, <2>1, <2>4, SeqEqual
  <2> QED
    BY <2>5 DEF s
<1> QED
  BY <1>1, <1>5, <1>6 DEF p, q, r

\* The span changes, and the iterators do not.
LEMMA SpanChanges ==
    ASSUME SpanInv, NEW ptr \in Int, NEW n \in Nat, span' = [ptr |-> ptr, size |-> n],
           viewed' = Spans!Consecutive(ptr, n), UNCHANGED <<iters, walked>>
    PROVE  SpanInv'
<1>1. span' \in [ptr : Int, size : Nat] /\ viewed' = Spans!Consecutive(span'.ptr, span'.size)
  OBVIOUS
<1>2. \A first, n2 : Walk(first, n2)' = Walk(first, n2)
  BY DEF Walk
<1> QED
  BY <1>1, <1>2, Zenon DEF SpanInv, Spans!Consecutive

\* begin and end, or rbegin and rend, are called.
LEMMA IterateKeeps ==
    ASSUME SpanInv, NEW kind \in Spans!Kinds, Spans!Iterate(kind)
    PROVE  SpanInv'
<1> DEFINE n == span.size
           first == Spans!Begin(kind)
           over == IF kind = "iterator" THEN viewed
                   ELSE [i \in 1 .. Spans!size |-> viewed[Spans!size + 1 - i]]
<1>1. /\ iters' = [kind |-> kind, ptr |-> <<first, Spans!End(kind)>>]
      /\ walked' = [over |-> over, by |-> <<0, n>>]
      /\ span' = span /\ viewed' = viewed
  BY DEF Spans!Iterate, Spans!size
<1>2. /\ span.ptr \in Int /\ n \in Nat /\ viewed = Spans!Consecutive(span.ptr, n)
      /\ span \in [ptr : Int, size : Nat]
  BY DEF SpanInv
<1>3. /\ viewed \in Seq(Int) /\ Len(viewed) = n /\ DOMAIN viewed = 1 .. n
      /\ \A i \in 1 .. n : viewed[i] = span.ptr + i - 1
  BY <1>2, PlacesType, Zenon
<1>4. /\ first \in Int /\ Spans!End(kind) \in Int
      /\ first = IF kind = "iterator" THEN span.ptr ELSE span.ptr + (n - 1)
      /\ Spans!End(kind) = Spans!Plus(kind, first, n)
      /\ first = Spans!Plus(kind, first, 0)
  BY <1>2 DEF Spans!Begin, Spans!End, Spans!Plus, Spans!size
<1>5. over \in Seq(Int) /\ Len(over) = n /\ \A i \in 1 .. n : over[i] = Spans!Plus(kind, first, i - 1)
  <2>1. CASE kind = "iterator"
    <3>1. over = viewed
      BY <2>1
    <3> HIDE DEF over, first
    <3> QED
      BY <1>2, <1>3, <1>4, <2>1, <3>1 DEF Spans!Plus
  <2>2. CASE kind # "iterator"
    <3>1. over = [i \in 1 .. n |-> viewed[n + 1 - i]]
      BY <2>2 DEF Spans!size
    <3>2. \A i \in 1 .. n : n + 1 - i \in 1 .. n /\ viewed[n + 1 - i] = (span.ptr + (n - 1)) - (i - 1)
      <4> SUFFICES ASSUME NEW i \in 1 .. n
                   PROVE  n + 1 - i \in 1 .. n /\ viewed[n + 1 - i] = (span.ptr + (n - 1)) - (i - 1)
        OBVIOUS
      <4>1. n + 1 - i \in 1 .. n
        BY <1>2
      <4>2. viewed[n + 1 - i] = span.ptr + (n + 1 - i) - 1
        BY <1>3, <4>1
      <4> QED
        BY <1>2, <4>1, <4>2
    <3> HIDE DEF over, first, n
    <3>6. /\ over = [i \in 1 .. n |-> over[i]]
          /\ \A i \in 1 .. n : over[i] = viewed[n + 1 - i]
      BY <3>1
    <3>7. \A i \in 1 .. n : over[i] \in Int
      <4> SUFFICES ASSUME NEW i \in 1 .. n
                   PROVE  over[i] \in Int
        OBVIOUS
      <4>1. over[i] = (span.ptr + (n - 1)) - (i - 1) /\ i \in Int
        BY <3>2, <3>6
      <4> QED
        BY <1>2, <4>1
    <3>3. over \in [1 .. n -> Int]
      BY <3>6, <3>7
    <3>4. over \in Seq(Int) /\ Len(over) = n
      BY <1>2, <3>3
    <3>5. \A i \in 1 .. n : over[i] = (span.ptr + (n - 1)) - (i - 1)
      BY <3>1, <3>2
    <3>8. first = span.ptr + (n - 1)
      BY <1>4, <2>2
    <3>9. \A i \in 1 .. n : Spans!Plus(kind, first, i - 1) = first - (i - 1)
      BY <2>2 DEF Spans!Plus
    <3>10. \A i \in 1 .. n : over[i] = Spans!Plus(kind, first, i - 1)
      <4> SUFFICES ASSUME NEW i \in 1 .. n
                   PROVE  over[i] = Spans!Plus(kind, first, i - 1)
        OBVIOUS
      <4>1. over[i] = (span.ptr + (n - 1)) - (i - 1)
        BY <3>5
      <4> QED
        BY <3>8, <3>9, <4>1
    <3> QED
      BY <3>4, <3>10
  <2> QED
    BY <2>1, <2>2, Zenon
<1> HIDE DEF first, over, n
<1>6. iters' \in [kind : Spans!Kinds, ptr : [{1, 2} -> Int]]
  <2>1. <<first, Spans!End(kind)>> \in [{1, 2} -> Int]
    <3>1. /\ DOMAIN <<first, Spans!End(kind)>> = {1, 2}
      OBVIOUS
    <3> QED
      BY <1>4, <3>1
  <2> QED
    BY <1>1, <2>1
<1>7. /\ walked'.by = <<0, n>> /\ walked'.over = over
      /\ walked' = [over |-> walked'.over, by |-> walked'.by]
  BY <1>1
<1>8. <<0, n>> \in [{1, 2} -> Nat] /\ \A i \in {1, 2} : <<0, n>>[i] <= n
  <2>1. DOMAIN <<0, n>> = {1, 2}
    OBVIOUS
  <2> QED
    BY <1>2, <2>1 DEF n
<1>10. /\ \A m \in 1 .. Len(walked'.over) : walked'.over[m] = Spans!Plus(kind, first, m - 1)
       /\ \A i \in {1, 2} : iters'.ptr[i] = Spans!Plus(kind, first, walked'.by[i])
  BY <1>1, <1>4, <1>5, <1>7
<1>11. iters'.kind = kind
  BY <1>1
<1> QED
  BY <1>1, <1>2, <1>4, <1>5, <1>6, <1>7, <1>8, <1>10, <1>11, Zenon DEF SpanInv, Walk, Spans!Consecutive, n

\* An iterator is advanced.
LEMMA AdvanceKeeps ==
    ASSUME SpanInv, NEW i \in {1, 2}, NEW n \in Int, Spans!Advance(i, n)
    PROVE  SpanInv'
<1>1. /\ walked.by[i] + n \in 0 .. Len(walked.over)
      /\ iters' = [iters EXCEPT !.ptr[i] = Spans!Plus(iters.kind, @, n)]
      /\ walked' = [walked EXCEPT !.by[i] = @ + n]
      /\ span' = span /\ viewed' = viewed
  BY DEF Spans!Advance
<1>2. /\ iters \in [kind : Spans!Kinds, ptr : [{1, 2} -> Int]]
      /\ walked.by \in [{1, 2} -> Nat] /\ walked.over \in Seq(Int)
      /\ walked = [over |-> walked.over, by |-> walked.by]
  BY DEF SpanInv
<1>3. PICK first \in Int :
          /\ \A m \in 1 .. Len(walked.over) : walked.over[m] = Walk(first, m - 1)
          /\ \A j \in {1, 2} : iters.ptr[j] = Walk(first, walked.by[j])
  BY DEF SpanInv
<1>4. /\ iters'.kind = iters.kind
      /\ iters'.ptr = [iters.ptr EXCEPT ![i] = Spans!Plus(iters.kind, @, n)]
      /\ iters' = [kind |-> iters'.kind, ptr |-> iters'.ptr]
  BY <1>1, <1>2, Zenon
<1>5. /\ walked'.over = walked.over
      /\ walked'.by = [walked.by EXCEPT ![i] = @ + n]
      /\ walked' = [over |-> walked'.over, by |-> walked'.by]
  BY <1>1, <1>2, Zenon
<1>6. walked'.by \in [{1, 2} -> Nat] /\ \A j \in {1, 2} : walked'.by[j] <= Len(walked.over)
  BY <1>1, <1>2, <1>5 DEF SpanInv
<1>7. iters'.ptr \in [{1, 2} -> Int]
  BY <1>2, <1>4 DEF Spans!Plus
<1>8. \A m : Walk(first, m)' = Walk(first, m)
  BY <1>4 DEF Walk
<1>9. \A j \in {1, 2} : iters'.ptr[j] = Walk(first, walked'.by[j])
  <2> SUFFICES ASSUME NEW j \in {1, 2} PROVE iters'.ptr[j] = Walk(first, walked'.by[j])
    OBVIOUS
  <2>1. CASE j = i
    <3>1. iters'.ptr[j] = Spans!Plus(iters.kind, Walk(first, walked.by[i]), n)
      BY <1>2, <1>3, <1>4, <2>1
    <3>2. walked'.by[j] = walked.by[i] + n /\ walked.by[i] \in Nat
      BY <1>2, <1>5, <2>1
    <3>3. Spans!Plus(iters.kind, Walk(first, walked.by[i]), n) = Walk(first, walked.by[i] + n)
      BY <3>2 DEF Walk, Spans!Plus
    <3> QED
      BY <3>1, <3>2, <3>3
  <2>2. CASE j # i
    BY <1>2, <1>3, <1>4, <1>5, <2>2
  <2> QED
    BY <2>1, <2>2
<1> QED
  BY <1>1, <1>2, <1>3, <1>4, <1>5, <1>6, <1>7, <1>8, <1>9, Zenon DEF SpanInv, Spans!Consecutive, Walk

\* SpanInv holds at first,
LEMMA SpanInit == Spans!Init => SpanInv
<1> SUFFICES ASSUME Spans!Init PROVE SpanInv
  OBVIOUS
<1>1. span = [ptr |-> 0, size |-> 0] /\ viewed = <<>>
      /\ iters = [kind |-> "iterator", ptr |-> <<0, 0>>]
      /\ walked = [over |-> <<>>, by |-> <<0, 0>>]
  BY DEF Spans!Init
<1>2. Spans!Consecutive(0, 0) = <<>>
  BY PlacesType
<1>3. <<0, 0>> \in [{1, 2} -> Nat] /\ <<0, 0>> \in [{1, 2} -> Int]
  <2>1. DOMAIN <<0, 0>> = {1, 2}
    OBVIOUS
  <2> QED
    BY <2>1
<1>4. iters.ptr[1] = 0 /\ iters.ptr[2] = 0 /\ walked.by[1] = 0 /\ walked.by[2] = 0
      /\ walked.over = <<>> /\ iters.kind = "iterator"
  BY <1>1
<1>5. \A i \in {1, 2} : iters.ptr[i] = Walk(0, walked.by[i])
  BY <1>4 DEF Walk, Spans!Plus
<1> QED
  BY <1>1, <1>2, <1>3, <1>4, <1>5 DEF SpanInv, Spans!Kinds

\* every step of a span keeps it,
LEMMA SpanStep ==
    ASSUME UtilitiesAssumption, SpanInv, [Spans!Next]_spanVars
    PROVE  SpanInv'
<1>1. CASE UNCHANGED spanVars
  BY <1>1, Zenon DEF spanVars, SpanInv, Walk
<1>2. span.ptr \in Int /\ span.size \in Nat /\ span = [ptr |-> span.ptr, size |-> span.size]
      /\ viewed = Spans!Consecutive(span.ptr, span.size)
  BY DEF SpanInv
<1>3. ASSUME NEW b \in Cells, NEW e \in Cells, Spans!Construct(b, e) PROVE SpanInv'
  <2>1. b \in Int /\ e - b \in Nat
    BY <1>3, UtilitiesAssumption DEF ConstantsFit, Spans!Construct
  <2> QED
    BY <1>3, <2>1, SpanChanges DEF Spans!Construct
<1>4. ASSUME NEW n \in {0} \union Cells, Spans!RemovePrefix(n) PROVE SpanInv'
  <2>1. n \in 0 .. span.size
    BY <1>2, <1>4, UtilitiesAssumption DEF ConstantsFit, Spans!RemovePrefix, Spans!size
  <2>2. span.ptr + n \in Int /\ span.size - n \in Nat
    BY <1>2, <2>1
  <2>3. /\ span' = [ptr |-> span.ptr + n, size |-> span.size - n]
        /\ viewed' = Spans!Consecutive(span.ptr + n, span.size - n)
        /\ UNCHANGED <<iters, walked>>
    BY <1>2, <1>4, <2>1, PartOfPlaces, Zenon DEF Spans!RemovePrefix, Spans!size
  <2> QED
    BY <2>2, <2>3, SpanChanges
<1>5. ASSUME NEW n \in {0} \union Cells, Spans!RemoveSuffix(n) PROVE SpanInv'
  <2>1. n \in 0 .. span.size
    BY <1>2, <1>5, UtilitiesAssumption DEF ConstantsFit, Spans!RemoveSuffix, Spans!size
  <2>2. span.size - n \in Nat
    BY <1>2, <2>1
  <2>3. /\ span' = [ptr |-> span.ptr, size |-> span.size - n]
        /\ viewed' = Spans!Consecutive(span.ptr, span.size - n)
        /\ UNCHANGED <<iters, walked>>
    BY <1>2, <1>5, <2>1, PartOfPlaces, Zenon DEF Spans!RemoveSuffix, Spans!size
  <2> QED
    BY <1>2, <2>2, <2>3, SpanChanges
<1>6. ASSUME NEW kind \in Spans!Kinds, Spans!Iterate(kind) PROVE SpanInv'
  BY <1>6, IterateKeeps
<1>7. ASSUME NEW i \in {1, 2}, NEW n \in Cells, Spans!Advance(i, n) \/ Spans!Advance(i, - n)
      PROVE  SpanInv'
  <2>1. n \in Int /\ - n \in Int
    BY UtilitiesAssumption DEF ConstantsFit
  <2> QED
    BY <1>7, <2>1, AdvanceKeeps
<1> QED
  BY <1>1, <1>3, <1>4, <1>5, <1>6, <1>7 DEF Spans!Next

\* and it says what ViewExact and IterationExact do.
LEMMA SpanRight == SpanInv => Spans!ViewExact /\ Spans!IterationExact
<1> SUFFICES ASSUME SpanInv PROVE Spans!ViewExact /\ Spans!IterationExact
  OBVIOUS
<1>1. /\ span.ptr \in Int /\ span.size \in Nat
      /\ viewed = Spans!Consecutive(span.ptr, span.size)
  BY DEF SpanInv
<1>2. /\ Len(viewed) = span.size
      /\ \A i \in 1 .. span.size : viewed[i] = span.ptr + i - 1
  BY <1>1, PlacesType, Zenon
<1>3. Spans!ViewExact
  <2>1. ASSUME span.size # 0
        PROVE  /\ viewed[1] = span.ptr /\ viewed[Len(viewed)] = span.ptr + (span.size - 1)
               /\ \A n \in 0 .. span.size - 1 : viewed[n + 1] = span.ptr + n
    <3>1. 1 \in 1 .. span.size /\ span.size \in 1 .. span.size
      BY <1>1, <2>1
    <3>2. \A n \in 0 .. span.size - 1 : n + 1 \in 1 .. span.size /\ span.ptr + (n + 1) - 1 = span.ptr + n
      BY <1>1
    <3> QED
      BY <1>1, <1>2, <3>1, <3>2
  <2> QED
    BY <1>1, <1>2, <2>1
       DEF Spans!ViewExact, Spans!size, Spans!empty, Spans!front, Spans!back, Spans!At,
           Spans!Begin, Spans!Deref
<1>4. PICK first \in Int :
          /\ \A n \in 1 .. Len(walked.over) : walked.over[n] = Walk(first, n - 1)
          /\ \A i \in {1, 2} : iters.ptr[i] = Walk(first, walked.by[i])
  BY DEF SpanInv
<1>5. Spans!IterationExact
  <2> SUFFICES ASSUME NEW i \in {1, 2}, NEW j \in {1, 2}
               PROVE  LET a == walked.by[i]
                          b == walked.by[j]
                      IN  /\ a < Len(walked.over) =>
                                /\ Spans!Deref(iters.ptr[i]) = Halved(walked.over[a + 1])
                                /\ Spans!Subscript(j, a - b) = Halved(walked.over[a + 1])
                          /\ Spans!Minus(iters.kind, iters.ptr[i], iters.ptr[j]) = a - b
                          /\ Spans!Less(iters.kind, iters.ptr[i], iters.ptr[j]) <=> a < b
                          /\ iters.ptr[i] = iters.ptr[j] <=> a = b
    BY DEF Spans!IterationExact
  <2> DEFINE a == walked.by[i]
             b == walked.by[j]
             x == iters.ptr[i]
             y == iters.ptr[j]
  <2>1. a \in Nat /\ b \in Nat /\ Len(walked.over) \in Nat /\ x = Walk(first, a) /\ y = Walk(first, b)
    BY <1>4 DEF SpanInv
  <2>2. a < Len(walked.over) => walked.over[a + 1] = Walk(first, a)
    BY <1>4, <2>1
  <2> HIDE DEF a, b, x, y
  <2>3. Spans!Plus(iters.kind, y, a - b) = Walk(first, a)
    BY <2>1 DEF Walk, Spans!Plus
  <2>4. /\ Spans!Minus(iters.kind, x, y) = a - b
        /\ Spans!Less(iters.kind, x, y) <=> a < b
        /\ x = y <=> a = b
    BY <2>1 DEF Walk, Spans!Plus, Spans!Minus, Spans!Less
  <2> QED
    BY <2>1, <2>2, <2>3, <2>4 DEF a, b, x, y, Spans!Deref, Spans!Subscript
<1> QED
  BY <1>3, <1>5

-----------------------------------------------------------------------------
(* Files.                                                                  *)

\* The types; a zero is a hole, or a byte that was reserved.
Contents == Seq(Bytes \union {0})
StreamRecords ==
    [path : Paths, pos : Nat, buffer : Seq(Bytes), open : BOOLEAN, writing : BOOLEAN]

\* The file of a stream was not written behind its back.
Sole(s) == streams[s].path \notin spoiled

\* The disk, the streams and their histories.
StreamTypes ==
    /\ disk \in [Paths -> Contents]
    /\ streams \in Seq(StreamRecords)
    /\ accepted \in Seq(Seq(Bytes)) /\ Len(accepted) = Len(streams)
    /\ got \in Seq(Contents) /\ Len(got) = Len(streams)
    /\ \A s \in DOMAIN streams : ~ streams[s].writing => streams[s].buffer = <<>>
    /\ faulty \subseteq DOMAIN streams

\* An object has a stream of its own kind, open unless closing it failed, and
\* only readers share one.
Owned ==
    /\ writer \in [Writers -> Nat] /\ reader \in [Readers -> Nat]
    /\ handle \in [Handles -> Nat]
    /\ \A w \in Writers : writer[w] # 0 =>
          /\ writer[w] \in DOMAIN streams /\ streams[writer[w]].writing
          /\ streams[writer[w]].open \/ crashed
    /\ \A r \in Readers : reader[r] # 0 =>
          reader[r] \in DOMAIN streams /\ streams[reader[r]].open /\ ~ streams[reader[r]].writing
    /\ \A h \in Handles : handle[h] # 0 =>
          /\ handle[h] \in DOMAIN streams /\ ~ streams[handle[h]].writing
          /\ streams[handle[h]].open \/ handle[h] \in faulty
    /\ \A v, w \in Writers : v # w /\ writer[v] # 0 => writer[v] # writer[w]
    /\ \A g, h \in Handles : g # h /\ handle[g] # 0 => handle[g] # handle[h]
    /\ \A h \in Handles, r \in Readers : handle[h] # 0 => handle[h] # reader[r]

\* While a stream is open for a file that is not spoiled, nobody who opened it
\* later writes it, or if that stream does, uses it.
Alone ==
    \A s, t \in DOMAIN streams :
       s < t /\ streams[s].path = streams[t].path /\ streams[s].open /\ Sole(s) =>
          ~ streams[s].writing /\ ~ streams[t].writing

\* What a stream did, against what its file holds now.
InFile(s) ==
    LET file == disk[streams[s].path]
    IN  IF streams[s].writing
          THEN /\ streams[s].pos = Len(file)
               /\ s \notin faulty => accepted[s] = file \o streams[s].buffer
          ELSE /\ streams[s].pos <= Len(file)
               /\ s \notin faulty => got[s] = SubSeq(file, 1, streams[s].pos)
\* That holds of the streams that nobody disturbs.
AllInFile == \A s \in DOMAIN streams : Disk!Undisturbed(s) => InFile(s)

\* A file has no holes but those of a file that is spoiled.
NoHoles == \A p \in Paths : p \notin spoiled => disk[p] \in Seq(Bytes)

\* No file that is read was disturbed, and no call failed that reads.
Sound == spoiled = {} /\ Disk!ReadsWell

\* What a string has reserved, its reader can still read.
Reservation == [reader : Readers, at : Nat, size : Nat]
Reserved ==
    /\ string \in Contents
    /\ reserved = <<>> \/ \E r \in Reservation : reserved = <<r>>
    /\ \A r \in Reservation : reserved = <<r>> =>
          /\ reader[r.reader] # 0
          /\ r.at + r.size = Len(string)
          /\ streams[reader[r.reader]].path \notin spoiled =>
                streams[reader[r.reader]].pos + r.size = Len(disk[streams[reader[r.reader]].path])
          /\ Sound => \A i \in 1 .. r.at : string[i] # 0
    /\ Sound /\ reserved = <<>> => string \in Seq(Bytes)

\* The inductive invariant of files.
FilesInv ==
    /\ StreamTypes /\ Owned /\ Alone /\ AllInFile /\ NoHoles /\ Reserved

\* Sequences.
LEMMA Written ==
    ASSUME NEW S, NEW c \in Seq(S), NEW d \in Seq(S)
    PROVE  Disk!Overwritten(c, Len(c), d) = c \o d
<1>1. CASE d = <<>>
  BY <1>1 DEF Disk!Overwritten
<1>2. CASE d # <<>>
  <2>1. Len(c) + Len(d) > Len(c) /\ Len(c) \in Nat /\ Len(d) \in Nat
    BY <1>2
  <2> DEFINE w == [i \in 1 .. Len(c) + Len(d) |->
                    IF i \in Len(c) + 1 .. Len(c) + Len(d) THEN d[i - Len(c)]
                    ELSE IF i <= Len(c) THEN c[i] ELSE 0]
  <2>2. Disk!Overwritten(c, Len(c), d) = w
    BY <1>2, <2>1 DEF Disk!Overwritten
  <2>3. /\ c \o d \in Seq(S) /\ Len(c \o d) = Len(c) + Len(d)
        /\ \A i \in 1 .. Len(c) + Len(d) :
              (c \o d)[i] = IF i <= Len(c) THEN c[i] ELSE d[i - Len(c)]
    BY ConcatProperties
  <2>4. c \o d \in [1 .. Len(c) + Len(d) -> S]
    BY <2>3, LenProperties, Zenon
  <2>5. \A i \in 1 .. Len(c) + Len(d) : w[i] = (c \o d)[i]
    BY <2>1, <2>3
  <2>6. w = c \o d
    BY <2>4, <2>5, Zenon
  <2> QED
    BY <2>2, <2>6
<1> QED
  BY <1>1, <1>2

\* A file stays a file when it is written.
LEMMA WrittenType ==
    ASSUME NEW c \in Contents, NEW d \in Contents, NEW n \in Nat
    PROVE  Disk!Overwritten(c, n, d) \in Contents
<1>1. CASE d = <<>>
  BY <1>1 DEF Disk!Overwritten
<1>2. CASE d # <<>>
  <2> DEFINE m == IF n + Len(d) > Len(c) THEN n + Len(d) ELSE Len(c)
  <2> DEFINE w == [i \in 1 .. m |-> IF i \in n + 1 .. n + Len(d) THEN d[i - n]
                                   ELSE IF i <= Len(c) THEN c[i] ELSE 0]
  <2>1. Disk!Overwritten(c, n, d) = w
    BY <1>2 DEF Disk!Overwritten
  <2>2. m \in Nat
    BY DEF Contents
  <2>3. \A i \in 1 .. m : w[i] \in Bytes \union {0}
    BY <2>2 DEF Contents
  <2>4. w \in Seq(Bytes \union {0})
    <3> HIDE DEF m
    <3> DEFINE f(i) == IF i \in n + 1 .. n + Len(d) THEN d[i - n]
                                   ELSE IF i <= Len(c) THEN c[i] ELSE 0
    <3>1. \A i \in 1 .. m : f(i) \in Bytes \union {0}
      BY <2>3
    <3> HIDE DEF f
    <3>2. [i \in 1 .. m |-> f(i)] \in Seq(Bytes \union {0})
      BY <2>2, <3>1
    <3> QED
      BY <3>2 DEF f
  <2> QED
    BY <2>1, <2>4 DEF Contents
<1> QED
  BY <1>1, <1>2

\* fread: what it takes, and how much that is.
LEMMA Taken ==
    ASSUME NEW S, NEW c \in Seq(S), NEW a \in Nat, NEW n \in Nat
    PROVE  LET m == Disk!Least(Len(c), a + n)
               d == SubSeq(c, a + 1, m)
           IN  /\ d \in Seq(S)
               /\ a <= Len(c) => /\ a + Len(d) = m
                                 /\ SubSeq(c, 1, a) \o d = SubSeq(c, 1, m)
<1> DEFINE m == Disk!Least(Len(c), a + n)
           d == SubSeq(c, a + 1, m)
<1>1. m \in Nat /\ m <= Len(c) /\ Len(c) \in Nat /\ (a <= Len(c) => a <= m)
  BY DEF Disk!Least
<1> HIDE DEF m
<1>2. d \in Seq(S)
  BY <1>1
<1>3. ASSUME a <= Len(c)
      PROVE  a + Len(d) = m /\ SubSeq(c, 1, a) \o d = SubSeq(c, 1, m)
  <2>1. a <= m
    BY <1>1, <1>3
  <2> QED
    BY <1>1, <1>3, <2>1, ConcatAdjacentSubSeq
<1> QED
  BY <1>2, <1>3, Zenon DEF m

-----------------------------------------------------------------------------
(* Steps of a stream.                                                      *)

\* A file is opened.
LEMMA OpenedTypes ==
    ASSUME FilesInv, NEW p \in Paths, NEW writing \in BOOLEAN, Disk!Fopen(p, writing)
    PROVE  /\ StreamTypes' /\ Len(streams') = Len(streams) + 1 /\ Len(streams) \in Nat
           /\ \A s \in DOMAIN streams :
                 /\ s \in DOMAIN streams' /\ streams'[s] = streams[s]
                 /\ accepted'[s] = accepted[s] /\ got'[s] = got[s]
           /\ streams'[Len(streams) + 1] =
                 [path |-> p, pos |-> 0, buffer |-> <<>>, open |-> TRUE, writing |-> writing]
           /\ accepted'[Len(streams) + 1] = <<>> /\ got'[Len(streams) + 1] = <<>>
           /\ \A q \in Paths : q # p \/ ~ writing => disk'[q] = disk[q]
           /\ writing => disk'[p] = <<>>
<1> DEFINE new == [path |-> p, pos |-> 0, buffer |-> <<>>, open |-> TRUE, writing |-> writing]
<1>1. /\ streams' = Append(streams, new)
      /\ accepted' = Append(accepted, <<>>) /\ got' = Append(got, <<>>)
      /\ disk' = IF writing THEN [disk EXCEPT ![p] = <<>>] ELSE disk
  BY DEF Disk!Fopen
<1>2. new \in StreamRecords /\ new.buffer = <<>>
  BY DEF StreamRecords
<1> HIDE DEF new
<1>3. StreamTypes
  BY DEF FilesInv
<1>4. /\ streams' \in Seq(StreamRecords) /\ accepted' \in Seq(Seq(Bytes)) /\ got' \in Seq(Contents)
      /\ Len(streams') = Len(streams) + 1 /\ Len(streams) \in Nat
      /\ Len(accepted') = Len(streams) + 1 /\ Len(got') = Len(streams) + 1
      /\ \A s \in 1 .. Len(streams) : /\ s \in DOMAIN streams' /\ streams'[s] = streams[s]
                                      /\ accepted'[s] = accepted[s] /\ got'[s] = got[s]
      /\ streams'[Len(streams) + 1] = new
      /\ accepted'[Len(streams) + 1] = <<>> /\ got'[Len(streams) + 1] = <<>>
  BY <1>1, <1>2, <1>3 DEF StreamTypes, Contents
<1>5. disk' \in [Paths -> Contents]
  BY <1>1, <1>3 DEF StreamTypes, Contents
<1>6. \A s \in DOMAIN streams' : ~ streams'[s].writing => streams'[s].buffer = <<>>
  <2> TAKE s \in DOMAIN streams'
  <2>1. s \in 1 .. Len(streams) \/ s = Len(streams) + 1
    BY <1>4
  <2> QED
    <3>1. CASE s \in 1 .. Len(streams)
      <4>1. streams'[s] = streams[s] /\ s \in DOMAIN streams
        BY <1>3, <1>4, <3>1 DEF StreamTypes
      <4>2. ~ streams[s].writing => streams[s].buffer = <<>>
        BY <1>3, <4>1 DEF StreamTypes
      <4> QED
        BY <4>1, <4>2
    <3>2. CASE s = Len(streams) + 1
      BY <1>2, <1>4, <3>2
    <3> QED
      BY <2>1, <3>1, <3>2
<1>7. StreamTypes'
  <2>1. faulty' = faulty /\ faulty \subseteq DOMAIN streams /\ DOMAIN streams = 1 .. Len(streams)
    BY <1>3 DEF StreamTypes, Disk!Fopen
  <2>2. faulty' \subseteq DOMAIN streams'
    BY <1>4, <2>1
  <2> QED
    BY <1>4, <1>5, <1>6, <2>2 DEF StreamTypes
<1>8. DOMAIN streams = 1 .. Len(streams)
  BY <1>3 DEF StreamTypes
<1>9. /\ \A q \in Paths : q # p \/ ~ writing => disk'[q] = disk[q]
      /\ writing => disk'[p] = <<>>
  BY <1>1, <1>3 DEF StreamTypes
<1> QED
  BY <1>4, <1>7, <1>8, <1>9 DEF new

\* A file is opened, and emptied if it is to be written.
LEMMA OpenedKeeps ==
    ASSUME FilesInv, NEW p \in Paths, NEW writing \in BOOLEAN, Disk!Fopen(p, writing),
           \A r \in Reservation : reserved = <<r>> => reader'[r.reader] = reader[r.reader]
    PROVE  Alone' /\ AllInFile' /\ NoHoles' /\ Reserved'
<1> DEFINE n == Len(streams) + 1
<1>1. /\ StreamTypes' /\ Len(streams') = n /\ Len(streams) \in Nat
      /\ \A s \in DOMAIN streams :
            /\ s \in DOMAIN streams' /\ streams'[s] = streams[s]
            /\ accepted'[s] = accepted[s] /\ got'[s] = got[s]
      /\ streams'[n] = [path |-> p, pos |-> 0, buffer |-> <<>>, open |-> TRUE, writing |-> writing]
      /\ accepted'[n] = <<>> /\ got'[n] = <<>>
      /\ \A q \in Paths : q # p \/ ~ writing => disk'[q] = disk[q]
      /\ writing => disk'[p] = <<>>
  BY OpenedTypes
<1>2. /\ DOMAIN streams' = 1 .. n /\ DOMAIN streams = 1 .. Len(streams)
      /\ \A s \in DOMAIN streams' : s \in DOMAIN streams \/ s = n
      /\ \A s \in DOMAIN streams : s < n /\ streams[s] \in StreamRecords
  <2>1. streams \in Seq(StreamRecords) /\ streams' \in Seq(StreamRecords)
    BY <1>1 DEF StreamTypes, FilesInv
  <2> HIDE DEF n
  <2>2. Len(streams') = n /\ Len(streams) \in Nat
    BY <1>1
  <2>3. n = Len(streams) + 1
    BY DEF n
  <2> QED
    BY <2>1, <2>2, <2>3
<1> HIDE DEF n
<1>3. /\ spoiled \subseteq spoiled'
      /\ \A s \in DOMAIN streams :
            streams[s].path = p /\ streams[s].open /\ (writing \/ streams[s].writing) =>
               p \in spoiled'
      /\ string' = string /\ reserved' = reserved /\ faulty' = faulty
      /\ faulty \subseteq DOMAIN streams
  BY DEF Disk!Fopen, Disk!Streams, FilesInv, StreamTypes
<1>4. Alone'
  <2> SUFFICES ASSUME NEW s \in DOMAIN streams', NEW t \in DOMAIN streams', s < t,
                      streams'[s].path = streams'[t].path, streams'[s].open, Sole(s)'
               PROVE  ~ streams'[s].writing /\ ~ streams'[t].writing
    BY DEF Alone
  <2>1. s \in DOMAIN streams /\ streams'[s] = streams[s] /\ Sole(s)
    BY <1>1, <1>2, <1>3 DEF Sole
  <2>2. CASE t \in DOMAIN streams
    BY <1>1, <2>1, <2>2 DEF FilesInv, Alone
  <2>3. CASE t = n
    BY <1>1, <1>3, <2>1, <2>3 DEF Sole
  <2> QED
    BY <1>2, <2>2, <2>3
<1>5. AllInFile'
  <2> SUFFICES ASSUME NEW s \in DOMAIN streams', Disk!Undisturbed(s)'
               PROVE  InFile(s)'
    BY DEF AllInFile
  <2>1. CASE s = n
    <3>0. /\ streams'[n].path = p /\ streams'[n].writing = writing
          /\ streams'[n].pos = 0 /\ streams'[n].buffer = <<>>
      BY <1>1
    <3>1. disk'[p] \in Seq(Bytes \union {0}) /\ SubSeq(disk'[p], 1, 0) = <<>>
      BY <1>1 DEF StreamTypes, Contents
    <3>2. CASE writing
      <4>1. accepted'[n] = disk'[p] \o <<>> /\ Len(disk'[p]) = 0
        BY <1>1, <3>2
      <4> QED
        BY <2>1, <3>0, <3>2, <4>1 DEF InFile
    <3>3. CASE ~ writing
      <4>1. Len(disk'[p]) >= 0 /\ got'[n] = <<>>
        BY <1>1, <3>1
      <4> QED
        BY <2>1, <3>0, <3>1, <3>3, <4>1 DEF InFile
    <3> QED
      BY <3>2, <3>3
  <2>2. CASE s \in DOMAIN streams
    <3>1. streams'[s] = streams[s] /\ streams[s].path \in Paths
      BY <1>1, <1>2, <2>2 DEF StreamRecords
    <3>2. Sole(s)
      BY <1>3, <3>1 DEF Sole, Disk!Undisturbed
    <3>3. \A t \in s + 1 .. Len(streams') :
             streams'[t].path = streams[s].path => ~ streams'[t].writing
      BY <3>1 DEF Disk!Undisturbed
    <3>4. \A t \in s + 1 .. Len(streams) :
             streams[t].path = streams[s].path => ~ streams[t].writing
      BY <1>1, <1>2, <2>2, <3>3
    <3>5. InFile(s)
      BY <2>2, <3>2, <3>4 DEF Disk!Undisturbed, Sole, FilesInv, AllInFile
    <3>6. ~ (writing /\ streams[s].path = p)
      BY <1>1, <1>2, <2>2, <3>3
    <3>7. disk'[streams[s].path] = disk[streams[s].path]
      BY <1>1, <3>1, <3>6
    <3> QED
      BY <1>1, <1>3, <2>2, <3>1, <3>5, <3>7, Zenon DEF InFile
  <2> QED
    BY <1>2, <2>1, <2>2
<1>6. NoHoles'
  <2> SUFFICES ASSUME NEW q \in Paths, q \notin spoiled' PROVE disk'[q] \in Seq(Bytes)
    BY DEF NoHoles
  <2>1. disk[q] \in Seq(Bytes)
    BY <1>3 DEF FilesInv, NoHoles
  <2>2. disk'[q] = disk[q] \/ disk'[q] = <<>>
    BY <1>1
  <2>3. <<>> \in Seq(Bytes)
    OBVIOUS
  <2> QED
    BY <2>1, <2>2, <2>3, Zenon
<1>7. Reserved'
  <2>1. Reserved /\ Owned
    BY DEF FilesInv
  <2>2. ASSUME NEW r \in Reservation, reserved = <<r>>, reader'[r.reader] = reader[r.reader],
               streams'[reader[r.reader]].path \notin spoiled'
        PROVE  streams'[reader[r.reader]].pos + r.size =
                  Len(disk'[streams'[reader[r.reader]].path])
    <3>1. reader[r.reader] # 0 /\ r.reader \in Readers
      BY <2>1, <2>2 DEF Reserved, Reservation
    <3> DEFINE s == reader[r.reader]
    <3>2. s \in DOMAIN streams /\ streams[s].open /\ streams'[s] = streams[s]
          /\ streams[s].path \in Paths
      BY <1>1, <1>2, <2>1, <3>1 DEF Owned, StreamRecords
    <3>3. streams[s].path \notin spoiled /\ ~ (writing /\ streams[s].path = p)
      BY <1>3, <2>2, <3>2
    <3>4. disk'[streams[s].path] = disk[streams[s].path]
      BY <1>1, <3>2, <3>3
    <3> QED
      BY <2>1, <2>2, <3>2, <3>3, <3>4 DEF Reserved
  <2>3. \A r \in Reservation : reserved = <<r>> =>
           reader[r.reader] # 0 /\ reader'[r.reader] = reader[r.reader]
    BY <2>1 DEF Reserved, Reservation
  <2>4. Sound' => Sound
    BY <1>1, <1>3 DEF Sound, Disk!ReadsWell
  <2>5. \A r \in Reservation : reserved' = <<r>> =>
          /\ reader'[r.reader] # 0
          /\ r.at + r.size = Len(string')
          /\ streams'[reader'[r.reader]].path \notin spoiled' =>
                streams'[reader'[r.reader]].pos + r.size =
                   Len(disk'[streams'[reader'[r.reader]].path])
          /\ Sound' => \A i \in 1 .. r.at : string'[i] # 0
    <3> TAKE r \in Reservation
    <3> HAVE reserved' = <<r>>
    <3>1. reserved = <<r>> /\ reader[r.reader] # 0 /\ reader'[r.reader] = reader[r.reader]
      BY <1>3, <2>3
    <3>2. streams'[reader'[r.reader]].path \notin spoiled' =>
                streams'[reader'[r.reader]].pos + r.size =
                   Len(disk'[streams'[reader'[r.reader]].path])
      BY <2>2, <3>1
    <3> QED
      BY <1>3, <2>1, <2>4, <3>1, <3>2 DEF Reserved
  <2>6. /\ string' \in Contents
        /\ reserved' = <<>> \/ \E r \in Reservation : reserved' = <<r>>
        /\ Sound' /\ reserved' = <<>> => string' \in Seq(Bytes)
    BY <1>3, <2>1, <2>4 DEF Reserved
  <2> QED
    BY <2>5, <2>6 DEF Reserved
<1> QED
  BY <1>4, <1>5, <1>6, <1>7

\* A stream that is open changes, in all but its path and whether it writes.
Changes(s, new) ==
    /\ streams' = [streams EXCEPT ![s] = new]
    /\ new \in StreamRecords
    /\ new.path = streams[s].path /\ new.writing = streams[s].writing
    /\ new.open => streams[s].open
    /\ ~ new.writing => new.buffer = <<>>
    /\ spoiled' = spoiled
    /\ faulty \subseteq faulty' /\ faulty' \subseteq faulty \union {s}

\* What such a change leaves alone.
LEMMA Changed ==
    ASSUME FilesInv, NEW s \in DOMAIN streams, NEW new, Changes(s, new)
    PROVE  /\ streams' \in Seq(StreamRecords)
           /\ Len(streams') = Len(streams) /\ DOMAIN streams' = DOMAIN streams
           /\ DOMAIN streams = 1 .. Len(streams) /\ Len(streams) \in Nat
           /\ streams'[s] = new /\ \A x \in DOMAIN streams : x # s => streams'[x] = streams[x]
           /\ \A x \in DOMAIN streams : ~ streams'[x].writing => streams'[x].buffer = <<>>
           /\ \A x \in DOMAIN streams : /\ streams[x] \in StreamRecords
                                        /\ streams'[x].path = streams[x].path
                                        /\ streams'[x].writing = streams[x].writing
                                        /\ streams'[x].open => streams[x].open
           /\ \A x \in DOMAIN streams : Disk!Undisturbed(x)' => Disk!Undisturbed(x)
           /\ faulty' \subseteq DOMAIN streams' /\ (Sound' => Sound)
           /\ Alone'
<1>1. /\ streams \in Seq(StreamRecords) /\ new \in StreamRecords
      /\ streams' = [streams EXCEPT ![s] = new]
  BY DEF FilesInv, StreamTypes, Changes
<1>2. /\ streams' \in Seq(StreamRecords)
      /\ Len(streams') = Len(streams) /\ DOMAIN streams' = DOMAIN streams
      /\ DOMAIN streams = 1 .. Len(streams) /\ Len(streams) \in Nat
      /\ streams'[s] = new /\ \A x \in DOMAIN streams : x # s => streams'[x] = streams[x]
      /\ \A t \in DOMAIN streams : streams[t] \in StreamRecords
  BY <1>1
<1>3. \A x \in DOMAIN streams : /\ streams'[x].path = streams[x].path
                                /\ streams'[x].writing = streams[x].writing
                                /\ streams'[x].open => streams[x].open
  <2> TAKE t \in DOMAIN streams
  <2>1. CASE t = s
    BY <1>2, <2>1 DEF Changes
  <2>2. CASE t # s
    BY <1>2, <2>2
  <2> QED
    BY <2>1, <2>2
<1>4. \A x \in DOMAIN streams : ~ streams'[x].writing => streams'[x].buffer = <<>>
  <2> TAKE t \in DOMAIN streams
  <2>1. CASE t = s
    BY <1>2, <2>1 DEF Changes
  <2>2. CASE t # s
    BY <1>2, <2>2 DEF FilesInv, StreamTypes
  <2> QED
    BY <2>1, <2>2
<1>5. ASSUME NEW t \in DOMAIN streams, Disk!Undisturbed(t)' PROVE Disk!Undisturbed(t)
  <2>1. streams[t].path \notin spoiled
    BY <1>3, <1>5 DEF Disk!Undisturbed, Changes
  <2>2. ASSUME NEW u \in t + 1 .. Len(streams), streams[u].path = streams[t].path
        PROVE  ~ streams[u].writing
    <3>1. u \in DOMAIN streams /\ u \in t + 1 .. Len(streams')
      BY <1>2
    <3>2. /\ streams'[u].path = streams[u].path /\ streams'[t].path = streams[t].path
          /\ streams'[u].writing = streams[u].writing
      BY <1>3, <1>5, <3>1
    <3>3. ~ streams'[u].writing
      BY <1>5, <2>2, <3>1, <3>2 DEF Disk!Undisturbed
    <3> QED
      BY <3>2, <3>3
  <2> QED
    BY <2>1, <2>2 DEF Disk!Undisturbed
<1>6. Alone'
  BY <1>2, <1>3 DEF Alone, FilesInv, Sole, Changes
<1>7. faulty' \subseteq DOMAIN streams' /\ (Sound' => Sound)
  BY <1>2, <1>3 DEF FilesInv, StreamTypes, Changes, Sound, Disk!ReadsWell
<1> QED
  BY <1>2, <1>3, <1>4, <1>5, <1>6, <1>7

\* What a stream that is open and writes may change no other refers to.
LEMMA Spared ==
    ASSUME FilesInv, NEW s \in DOMAIN streams, streams[s].open, streams[s].writing,
           NEW t \in DOMAIN streams, t # s, streams[t].path = streams[s].path,
           streams[s].path \notin spoiled
    PROVE  ~ streams[t].open /\ ~ Disk!Undisturbed(t)
<1>1. DOMAIN streams = 1 .. Len(streams) /\ Len(streams) \in Nat
  BY DEF FilesInv, StreamTypes
<1>2. t < s \/ s < t
  BY <1>1
<1>3. CASE s < t
  BY <1>3 DEF FilesInv, Alone, Sole
<1>4. CASE t < s
  <2>1. ~ streams[t].open
    BY <1>4 DEF FilesInv, Alone, Sole
  <2>2. s \in t + 1 .. Len(streams)
    BY <1>1, <1>4
  <2> QED
    BY <2>1, <2>2 DEF Disk!Undisturbed
<1> QED
  BY <1>2, <1>3, <1>4

\* Some of the buffer is written, all of it unless that fails, and then the
\* stream may be closed.
LEMMA FlushKeeps ==
    ASSUME FilesInv, NEW s \in DOMAIN streams, NEW new, Changes(s, new),
           streams[s].writing => streams[s].open,
           NEW n \in 0 .. Len(streams[s].buffer),
           s \notin faulty' => n = Len(streams[s].buffer) /\ new.buffer = <<>>,
           new.pos = streams[s].pos + n,
           disk' = [disk EXCEPT ![streams[s].path] =
                      Disk!Overwritten(@, streams[s].pos, SubSeq(streams[s].buffer, 1, n))],
           UNCHANGED <<accepted, got, reader, string, reserved>>,
           \A r \in Readers : reader[r] # s
    PROVE  StreamTypes' /\ Alone' /\ AllInFile' /\ NoHoles' /\ Reserved'
<1> DEFINE p == streams[s].path
           data == SubSeq(streams[s].buffer, 1, n)
           file == disk[p]
           at == streams[s].pos
<1>1. /\ p \in Paths /\ data \in Seq(Bytes) /\ at \in Nat /\ file \in Contents /\ Len(data) = n
      /\ n = Len(streams[s].buffer) => data = streams[s].buffer
      /\ disk \in [Paths -> Contents] /\ streams[s].writing \in BOOLEAN
  <2>1. streams[s] \in StreamRecords /\ disk \in [Paths -> Contents]
    BY DEF FilesInv, StreamTypes
  <2>2. /\ p \in Paths /\ streams[s].buffer \in Seq(Bytes) /\ at \in Nat
        /\ streams[s].writing \in BOOLEAN
    BY <2>1 DEF StreamRecords
  <2>3. /\ data \in Seq(Bytes) /\ Len(data) = n
        /\ n = Len(streams[s].buffer) => data = streams[s].buffer
    BY <2>2
  <2> QED
    BY <2>1, <2>2, <2>3
<1>2. /\ streams' \in Seq(StreamRecords)
      /\ Len(streams') = Len(streams) /\ DOMAIN streams' = DOMAIN streams
      /\ DOMAIN streams = 1 .. Len(streams) /\ Len(streams) \in Nat
      /\ streams'[s] = new /\ \A x \in DOMAIN streams : x # s => streams'[x] = streams[x]
      /\ \A x \in DOMAIN streams : ~ streams'[x].writing => streams'[x].buffer = <<>>
      /\ \A x \in DOMAIN streams : /\ streams[x] \in StreamRecords
                                   /\ streams'[x].path = streams[x].path
                                   /\ streams'[x].writing = streams[x].writing
                                   /\ streams'[x].open => streams[x].open
      /\ \A x \in DOMAIN streams : Disk!Undisturbed(x)' => Disk!Undisturbed(x)
      /\ faulty' \subseteq DOMAIN streams' /\ (Sound' => Sound)
      /\ Alone'
  BY Changed, Zenon
<1>3. disk' = [disk EXCEPT ![p] = Disk!Overwritten(file, at, data)]
  OBVIOUS
<1>4. data \in Contents
  BY <1>1, SeqMonotonic DEF Contents
<1>5. Disk!Overwritten(file, at, data) \in Contents
  BY <1>1, <1>4, WrittenType, Zenon
<1>6. /\ disk' \in [Paths -> Contents] /\ \A q \in Paths : q # p => disk'[q] = disk[q]
      /\ disk'[p] = Disk!Overwritten(file, at, data)
  BY <1>1, <1>3, <1>5
<1>7. ~ streams[s].writing => disk' = disk /\ data = <<>>
  <2> SUFFICES ASSUME ~ streams[s].writing PROVE disk' = disk /\ data = <<>>
    OBVIOUS
  <2>1. streams[s].buffer = <<>> /\ data \in Seq(Bytes) /\ Len(data) = n /\ n = 0
    BY <1>1 DEF FilesInv, StreamTypes
  <2>0. data = <<>>
    BY <2>1
  <2>2. Disk!Overwritten(file, at, data) = file
    BY <2>0 DEF Disk!Overwritten
  <2> QED
    BY <1>1, <1>3, <2>0, <2>2
<1>8. StreamTypes'
  BY <1>2, <1>6 DEF FilesInv, StreamTypes
<1>14. streams'[s] = new /\ new.path = p /\ new.writing = streams[s].writing
  BY <1>2 DEF Changes
<1>15. /\ new.pos = at + Len(data)
       /\ s \notin faulty' => new.buffer = <<>> /\ data = streams[s].buffer
       /\ faulty \subseteq faulty' /\ faulty' \subseteq faulty \union {s}
  BY <1>1 DEF Changes
<1> HIDE DEF p, data, file, at
\* A stream that writes a file of its own is at its end.
<1>9. ASSUME streams[s].writing, p \notin spoiled
      PROVE  /\ at = Len(file) /\ disk'[p] = file \o data
             /\ s \notin faulty => accepted[s] = file \o streams[s].buffer
  <2>1. Disk!Undisturbed(s)
    <3> SUFFICES ASSUME NEW u \in s + 1 .. Len(streams), streams[u].path = streams[s].path
                 PROVE  ~ streams[u].writing
      BY <1>9 DEF Disk!Undisturbed, p
    <3>1. u \in DOMAIN streams /\ s < u
      BY DEF FilesInv, StreamTypes
    <3> QED
      BY <1>9, <3>1 DEF FilesInv, Alone, Sole, p
  <2>2. at = Len(file) /\ (s \notin faulty => accepted[s] = file \o streams[s].buffer)
    BY <1>9, <2>1, Zenon DEF FilesInv, AllInFile, InFile, p, at, file
  <2>3. Disk!Overwritten(file, at, data) = file \o data
    BY <1>1, <1>4, <2>2, Written DEF Contents
  <2> QED
    BY <1>6, <2>2, <2>3
<1>10. \A t \in DOMAIN streams : t # s /\ streams[t].path \notin spoiled
                                /\ (streams[t].open \/ Disk!Undisturbed(t)) =>
          disk'[streams[t].path] = disk[streams[t].path]
  <2> TAKE t \in DOMAIN streams
  <2> HAVE t # s /\ streams[t].path \notin spoiled /\ (streams[t].open \/ Disk!Undisturbed(t))
  <2>0. streams[t] \in StreamRecords
    BY <1>2
  <2>1. streams[t].path \in Paths
    BY <2>0 DEF StreamRecords
  <2>2. CASE ~ streams[s].writing
    BY <1>7, <2>2
  <2>3. CASE streams[s].writing /\ streams[t].path = p
    BY <2>3, Spared DEF p
  <2>4. CASE streams[t].path # p
    BY <1>6, <2>1, <2>4
  <2> QED
    BY <1>1, <2>2, <2>3, <2>4
<1>11. AllInFile'
  <2> SUFFICES ASSUME NEW t \in DOMAIN streams, Disk!Undisturbed(t)' PROVE InFile(t)'
    BY <1>2 DEF AllInFile
  <2>1. Disk!Undisturbed(t) /\ streams[t].path \notin spoiled /\ InFile(t)
    BY <1>2 DEF Disk!Undisturbed, FilesInv, AllInFile
  <2>2. CASE t # s
    <3>1. disk'[streams[t].path] = disk[streams[t].path] /\ streams'[t] = streams[t]
      BY <1>2, <1>10, <2>1, <2>2
    <3>2. t \notin faulty' => t \notin faulty
      BY <1>15
    <3> QED
      BY <2>1, <3>1, <3>2, Zenon DEF InFile
  <2>3. CASE t = s /\ streams[s].writing
    <3>1. /\ at = Len(file) /\ disk'[p] = file \o data
          /\ s \notin faulty' => accepted[s] = file \o data
      BY <1>9, <1>15, <2>1, <2>3 DEF p
    <3>2. /\ streams'[s].path = p /\ streams'[s].writing
          /\ streams'[s].pos = at + Len(data)
          /\ s \notin faulty' => streams'[s].buffer = <<>>
      BY <1>14, <1>15, <2>3
    <3>3. /\ file \o data \in Contents /\ (file \o data) \o <<>> = file \o data
          /\ Len(file \o data) = Len(file) + Len(data)
      <4>1. file \in Seq(Bytes \union {0}) /\ data \in Seq(Bytes \union {0})
        BY <1>1, <1>4 DEF Contents
      <4> QED
        BY <4>1, ConcatProperties, ConcatEmptySeq DEF Contents
    <3> QED
      BY <2>3, <3>1, <3>2, <3>3, Zenon DEF InFile
  <2>4. CASE t = s /\ ~ streams[s].writing
    <3>1. disk' = disk /\ Len(data) = 0
      BY <1>7, <2>4
    <3>2. /\ streams'[s].path = streams[s].path /\ ~ streams'[s].writing
          /\ streams'[s].pos = streams[s].pos
      BY <1>1, <1>14, <1>15, <2>4, <3>1 DEF at, p
    <3> QED
      BY <1>15, <2>1, <2>4, <3>1, <3>2 DEF InFile
  <2> QED
    BY <2>2, <2>3, <2>4
<1>12. NoHoles'
  <2> SUFFICES ASSUME NEW q \in Paths, q \notin spoiled PROVE disk'[q] \in Seq(Bytes)
    BY DEF NoHoles, Changes
  <2>1. disk[q] \in Seq(Bytes)
    BY DEF FilesInv, NoHoles
  <2>2. CASE q # p
    BY <1>6, <2>1, <2>2
  <2>3. CASE q = p /\ streams[s].writing
    <3>1. file \in Seq(Bytes) /\ disk'[p] = file \o data
      BY <1>9, <2>1, <2>3 DEF file
    <3> QED
      <4>1. data \in Seq(Bytes)
        BY <1>1
      <4>2. file \o data \in Seq(Bytes)
        BY <3>1, <4>1, ConcatProperties
      <4> QED
        BY <2>3, <3>1, <4>2
  <2>4. CASE ~ streams[s].writing
    BY <1>7, <2>1, <2>4
  <2> QED
    BY <2>2, <2>3, <2>4
<1>13. Reserved'
  <2>1. Reserved /\ Owned
    BY DEF FilesInv
  <2>2. ASSUME NEW r \in Reservation, reserved = <<r>>,
               streams'[reader[r.reader]].path \notin spoiled
        PROVE  streams'[reader[r.reader]].pos + r.size =
                  Len(disk'[streams'[reader[r.reader]].path])
    <3> DEFINE t == reader[r.reader]
    <3>1. t # 0 /\ r.reader \in Readers
      BY <2>1, <2>2 DEF Reserved, Reservation
    <3>2. t \in DOMAIN streams /\ streams[t].open /\ t # s /\ streams'[t] = streams[t]
      BY <1>2, <2>1, <3>1 DEF Owned
    <3>3. streams[t].path \notin spoiled
      BY <2>2, <3>2
    <3>4. disk'[streams[t].path] = disk[streams[t].path]
      BY <1>10, <3>2, <3>3
    <3> QED
      BY <2>1, <2>2, <3>2, <3>3, <3>4 DEF Reserved
  <2> QED
    BY <1>2, <2>1, <2>2 DEF Reserved, Changes
<1> QED
  BY <1>2, <1>8, <1>11, <1>12, <1>13

\* write: what a stream took is in its buffer.
LEMMA WriteKeeps ==
    ASSUME FilesInv, ~ crashed, NEW w \in Writers, NEW data \in Seq(Bytes), Disk!Write(w, data)
    PROVE  StreamTypes' /\ Alone' /\ AllInFile' /\ NoHoles' /\ Reserved' /\ Owned'
<1> DEFINE s == writer[w]
<1>1. /\ s \in DOMAIN streams /\ streams[s].open /\ streams[s].writing
      /\ DOMAIN streams = 1 .. Len(streams) /\ Len(accepted) = Len(streams)
      /\ accepted \in Seq(Seq(Bytes)) /\ streams[s] \in StreamRecords /\ accepted[s] \in Seq(Bytes)
      /\ streams \in Seq(StreamRecords)
  BY DEF FilesInv, Owned, StreamTypes, Disk!Write
<1>2. PICK n \in 0 .. Len(data) :
         /\ streams' = [streams EXCEPT ![writer[w]].buffer = @ \o SubSeq(data, 1, n)]
         /\ accepted' = [accepted EXCEPT ![writer[w]] = @ \o SubSeq(data, 1, n)]
  BY Zenon DEF Disk!Write
<1> DEFINE more == SubSeq(data, 1, n)
           new == [streams[s] EXCEPT !.buffer = @ \o more]
<1>3. more \in Seq(Bytes)
  BY <1>2
<1>4. /\ streams[s].buffer \in Seq(Bytes) /\ streams[s].buffer \o more \in Seq(Bytes)
      /\ accepted[s] \o more \in Seq(Bytes)
  BY <1>1, <1>3, ConcatProperties, Zenon DEF StreamRecords
<1> HIDE DEF more, s
<1>5. /\ new \in StreamRecords
      /\ new.path = streams[s].path /\ new.pos = streams[s].pos
      /\ new.writing = streams[s].writing /\ new.open = streams[s].open
      /\ new.buffer = streams[s].buffer \o more
  BY <1>1, <1>4, Zenon DEF StreamRecords
<1>6. streams' = [streams EXCEPT ![s] = new] /\ accepted' = [accepted EXCEPT ![s] = accepted[s] \o more]
  BY <1>1, <1>2 DEF s, more
<1> HIDE DEF new
<1>7. UNCHANGED <<disk, writer, reader, handle, string, reserved, got, spoiled, faulty, crashed>>
  BY DEF Disk!Write, Disk!objects
<1>8. Changes(s, new)
  BY <1>1, <1>5, <1>6, <1>7 DEF Changes
<1>9. /\ streams' \in Seq(StreamRecords)
      /\ Len(streams') = Len(streams) /\ DOMAIN streams' = DOMAIN streams
      /\ streams'[s] = new /\ \A x \in DOMAIN streams : x # s => streams'[x] = streams[x]
      /\ \A x \in DOMAIN streams : ~ streams'[x].writing => streams'[x].buffer = <<>>
      /\ \A x \in DOMAIN streams :
            /\ streams[x] \in StreamRecords
            /\ streams'[x].path = streams[x].path
            /\ streams'[x].writing = streams[x].writing
      /\ \A x \in DOMAIN streams : Disk!Undisturbed(x)' => Disk!Undisturbed(x)
      /\ Alone'
  BY <1>1, <1>8, Changed
<1>10. /\ accepted' \in Seq(Seq(Bytes)) /\ Len(accepted') = Len(streams)
       /\ accepted'[s] = accepted[s] \o more
       /\ \A x \in DOMAIN streams : x # s => accepted'[x] = accepted[x]
  BY <1>1, <1>4, <1>6
<1>11. StreamTypes'
  BY <1>7, <1>9, <1>10 DEF FilesInv, StreamTypes
<1>12. AllInFile'
  <2> SUFFICES ASSUME NEW t \in DOMAIN streams, Disk!Undisturbed(t)' PROVE InFile(t)'
    BY <1>9 DEF AllInFile
  <2>1. InFile(t)
    BY <1>9 DEF FilesInv, AllInFile
  <2>2. CASE t # s
    BY <1>7, <1>9, <1>10, <2>1, <2>2, Zenon DEF InFile
  <2>3. CASE t = s
    <3> DEFINE file == disk[streams[s].path]
    <3>1. /\ streams[s].pos = Len(file)
          /\ s \notin faulty => accepted[s] = file \o streams[s].buffer
      BY <1>1, <2>1, <2>3, Zenon DEF InFile
    <3>2. file \in Seq(Bytes)
      <4>1. streams[s].path \in Paths /\ streams[s].path \notin spoiled
        BY <1>1, <1>9, <2>3, Zenon DEF StreamRecords, Disk!Undisturbed
      <4> QED
        BY <4>1 DEF FilesInv, NoHoles
    <3>3. s \notin faulty => accepted'[s] = file \o (streams[s].buffer \o more)
      <4>1. (file \o streams[s].buffer) \o more = file \o (streams[s].buffer \o more)
        <5> HIDE DEF file
        <5>1. /\ file \in Seq(Bytes) /\ streams[s].buffer \in Seq(Bytes) /\ more \in Seq(Bytes)
          BY <1>3, <1>4, <3>2
        <5>2. \A a, b, c \in Seq(Bytes) : (a \o b) \o c = a \o (b \o c)
          BY ConcatAssociative
        <5> QED
          BY <5>1, <5>2, Zenon
      <4> QED
        BY <1>10, <3>1, <4>1
    <3>4. disk'[streams'[s].path] = file /\ streams'[s].writing /\ streams'[s].pos = Len(file)
          /\ streams'[s].buffer = streams[s].buffer \o more
      BY <1>1, <1>5, <1>7, <1>9, <3>1, Zenon
    <3> QED
      BY <1>7, <2>3, <3>3, <3>4 DEF InFile
  <2> QED
    BY <2>2, <2>3
<1>13. NoHoles'
  BY <1>7 DEF FilesInv, NoHoles
<1>14. Owned'
  <2>1. \A x \in DOMAIN streams : /\ streams'[x].writing = streams[x].writing
                                 /\ streams'[x].open = streams[x].open
    BY <1>5, <1>9
  <2> QED
    BY <1>7, <1>9, <2>1, ZenonT(30) DEF FilesInv, Owned
<1>15. Reserved'
  <2>1. Reserved /\ Owned
    BY DEF FilesInv
  <2>2. ASSUME NEW r \in Reservation, reserved = <<r>>
        PROVE  streams'[reader[r.reader]] = streams[reader[r.reader]]
    <3>1. r.reader \in Readers /\ reader[r.reader] # 0
      BY <2>1, <2>2 DEF Reserved, Reservation
    <3>2. reader[r.reader] \in DOMAIN streams /\ reader[r.reader] # s
      BY <1>1, <2>1, <3>1 DEF Owned
    <3> QED
      BY <1>9, <3>2
  <2> QED
    <3>1. Sound' => Sound
      BY <1>1, <1>8, Changed
    <3> QED
      BY <1>7, <2>1, <2>2, <3>1 DEF Reserved
<1> QED
  BY <1>9, <1>11, <1>12, <1>13, <1>14, <1>15 

\* fread: what a stream gave is what comes next in the file.
LEMMA ReadKeeps ==
    ASSUME FilesInv, NEW s \in DOMAIN streams, ~ streams[s].writing, NEW n \in Nat,
           Disk!Fread(s, n), UNCHANGED <<disk, accepted, spoiled>>
    PROVE  /\ StreamTypes' /\ Alone' /\ AllInFile' /\ NoHoles'
           /\ DOMAIN streams' = DOMAIN streams
           /\ faulty \subseteq faulty' /\ (Sound' => Sound)
           /\ \A x \in DOMAIN streams :
                 /\ streams'[x].open = streams[x].open
                 /\ streams'[x].writing = streams[x].writing
                 /\ streams'[x].path = streams[x].path
                 /\ x # s => streams'[x] = streams[x]
<1> DEFINE file == disk[streams[s].path]
           at == streams[s].pos
           Coming(z) == SubSeq(file, at + 1, Disk!Least(Len(file), at + z))
<1>0. PICK k \in 0 .. n :
         /\ streams' = [streams EXCEPT ![s].pos = @ + Len(Coming(k))]
         /\ got' = [got EXCEPT ![s] = @ \o Coming(k)]
         /\ faulty' = IF Coming(k) = Coming(n) THEN faulty ELSE faulty \union {s}
  BY Zenon DEF Disk!Fread
<1> DEFINE m == Disk!Least(Len(file), at + k)
           data == SubSeq(file, at + 1, m)
           new == [streams[s] EXCEPT !.pos = @ + Len(data)]
<1>1. /\ streams \in Seq(StreamRecords) /\ streams[s] \in StreamRecords
      /\ got \in Seq(Contents) /\ Len(got) = Len(streams) /\ got[s] \in Contents
      /\ DOMAIN streams = 1 .. Len(streams) /\ disk \in [Paths -> Contents]
  BY DEF FilesInv, StreamTypes
<1>2. streams[s].path \in Paths /\ at \in Nat /\ file \in Contents
  BY <1>1 DEF StreamRecords
<1>3. streams' = [streams EXCEPT ![s].pos = @ + Len(data)] /\ got' = [got EXCEPT ![s] = @ \o data]
  BY <1>0
<1>15. faulty \subseteq faulty' /\ faulty' \subseteq faulty \union {s} /\ k \in Nat
  BY <1>0
<1> HIDE DEF at, file, Coming
<1>4. /\ data \in Contents
      /\ at <= Len(file) => at + Len(data) = m /\ SubSeq(file, 1, at) \o data = SubSeq(file, 1, m)
  BY <1>2, <1>15, Taken, Zenon DEF Contents
<1>5. m <= Len(file) /\ Len(data) \in Nat
  BY <1>2, <1>4, <1>15 DEF Contents, Disk!Least
<1> HIDE DEF m, data
<1>6. /\ new \in StreamRecords
      /\ new.path = streams[s].path /\ new.pos = at + Len(data)
      /\ new.writing = streams[s].writing /\ new.open = streams[s].open
      /\ new.buffer = streams[s].buffer
  <2>1. at = streams[s].pos /\ at + Len(data) \in Nat
    BY <1>2, <1>5 DEF at
  <2> DEFINE sum == streams[s].pos + Len(data)
  <2>2. sum \in Nat /\ sum = at + Len(data)
    BY <2>1
  <2>3. new = [streams[s] EXCEPT !.pos = sum]
    OBVIOUS
  <2> HIDE DEF sum, new
  <2> QED
    BY <1>1, <2>2, <2>3, Zenon DEF StreamRecords
<1>7. streams' = [streams EXCEPT ![s] = new]
  BY <1>1, <1>3
<1> HIDE DEF new
<1>8. Changes(s, new)
  BY <1>6, <1>7, <1>15 DEF Changes, FilesInv, StreamTypes
<1>9. /\ streams' \in Seq(StreamRecords)
      /\ Len(streams') = Len(streams) /\ DOMAIN streams' = DOMAIN streams
      /\ streams'[s] = new /\ \A x \in DOMAIN streams : x # s => streams'[x] = streams[x]
      /\ \A x \in DOMAIN streams : ~ streams'[x].writing => streams'[x].buffer = <<>>
      /\ \A x \in DOMAIN streams : Disk!Undisturbed(x)' => Disk!Undisturbed(x)
      /\ faulty' \subseteq DOMAIN streams' /\ (Sound' => Sound)
      /\ Alone'
  BY <1>8, Changed
<1>10. /\ got' \in Seq(Contents) /\ Len(got') = Len(streams)
       /\ got'[s] = got[s] \o data
       /\ \A x \in DOMAIN streams : x # s => got'[x] = got[x]
  <2>1. got[s] \o data \in Contents
    BY <1>1, <1>4, ConcatProperties DEF Contents
  <2> QED
    BY <1>1, <1>3, <2>1
<1>11. StreamTypes'
  BY <1>9, <1>10 DEF FilesInv, StreamTypes
<1>12. AllInFile'
  <2> SUFFICES ASSUME NEW t \in DOMAIN streams, Disk!Undisturbed(t)' PROVE InFile(t)'
    BY <1>9 DEF AllInFile
  <2>1. InFile(t)
    BY <1>9 DEF FilesInv, AllInFile
  <2>2. CASE t # s
    <3>1. t \notin faulty' => t \notin faulty
      BY <1>15
    <3> QED
      BY <1>9, <1>10, <2>1, <2>2, <3>1, Zenon DEF InFile
  <2>3. CASE t = s
    <3>1. at <= Len(file) /\ (s \notin faulty => got[s] = SubSeq(file, 1, at))
      BY <2>1, <2>3 DEF InFile, file, at
    <3>2. /\ at + Len(data) <= Len(file)
          /\ s \notin faulty => got'[s] = SubSeq(file, 1, at + Len(data))
      BY <1>4, <1>5, <1>10, <3>1, Zenon
    <3>3. disk'[streams'[s].path] = file /\ ~ streams'[s].writing /\ streams'[s].pos = at + Len(data)
      BY <1>6, <1>9 DEF file
    <3> QED
      BY <1>15, <2>3, <3>2, <3>3 DEF InFile
  <2> QED
    BY <2>2, <2>3
<1>13. NoHoles'
  BY DEF FilesInv, NoHoles
<1>14. \A x \in DOMAIN streams :
          /\ streams'[x].open = streams[x].open
          /\ streams'[x].writing = streams[x].writing
          /\ streams'[x].path = streams[x].path
          /\ x # s => streams'[x] = streams[x]
  BY <1>6, <1>9
<1> QED
  BY <1>9, <1>11, <1>12, <1>13, <1>14, <1>15

\* What is read may be what a string has reserved.
LEMMA ReadReservedKeeps ==
    ASSUME FilesInv, Disk!ReadReserved
    PROVE  FilesInv'
<1>1. PICK r \in Reservation : reserved = <<r>>
  BY DEF FilesInv, Reserved, Disk!ReadReserved
<1> DEFINE s == reader[r.reader]
           file == disk[streams[s].path]
           at == streams[s].pos
           Coming(z) == SubSeq(file, at + 1, Disk!Least(Len(file), at + z))
<1>2. /\ r.reader \in Readers /\ r.at \in Nat /\ r.size \in Nat /\ Head(reserved) = r
  BY <1>1 DEF Reservation
<1>3. /\ reader[r.reader] # 0 /\ r.at + r.size = Len(string) /\ string \in Contents
      /\ streams[s].path \notin spoiled => at + r.size = Len(file)
      /\ Sound => \A i \in 1 .. r.at : string[i] # 0
  BY <1>1 DEF FilesInv, Reserved
<1>4. s \in DOMAIN streams /\ ~ streams[s].writing
  BY <1>2, <1>3 DEF FilesInv, Owned
<1>5. /\ Disk!Fread(s, r.size) /\ reserved' = <<>>
      /\ string' = Disk!Overwritten(string, r.at, SubSeq(got'[s], Len(got[s]) + 1, Len(got'[s])))
      /\ UNCHANGED <<disk, writer, reader, handle, accepted, spoiled, crashed>>
  BY <1>1, <1>2 DEF Disk!ReadReserved, Disk!objects
<1>6. /\ StreamTypes' /\ Alone' /\ AllInFile' /\ NoHoles'
      /\ DOMAIN streams' = DOMAIN streams /\ faulty \subseteq faulty' /\ (Sound' => Sound)
      /\ \A x \in DOMAIN streams :
            /\ streams'[x].open = streams[x].open
            /\ streams'[x].writing = streams[x].writing
            /\ streams'[x].path = streams[x].path
            /\ x # s => streams'[x] = streams[x]
  BY <1>2, <1>4, <1>5, ReadKeeps
<1>7. Owned'
  BY <1>5, <1>6, SMTT(30) DEF FilesInv, Owned
<1>8. /\ streams \in Seq(StreamRecords) /\ streams[s] \in StreamRecords
      /\ got \in Seq(Contents) /\ Len(got) = Len(streams) /\ got[s] \in Contents
      /\ disk \in [Paths -> Contents]
  BY <1>4 DEF FilesInv, StreamTypes
<1>9. streams[s].path \in Paths /\ at \in Nat /\ file \in Contents
  BY <1>8 DEF StreamRecords
<1>16. PICK k \in 0 .. r.size :
          /\ got' = [got EXCEPT ![s] = @ \o Coming(k)]
          /\ faulty' = IF Coming(k) = Coming(r.size) THEN faulty ELSE faulty \union {s}
  BY <1>5, Zenon DEF Disk!Fread
<1> DEFINE data == Coming(k)
<1>10. got' = [got EXCEPT ![s] = @ \o data] /\ k \in Nat
  BY <1>2, <1>16
<1>17. Sound' => data = Coming(r.size)
  <2>1. Sound' => s \notin faulty'
    BY <1>4, <1>6 DEF Sound, Disk!ReadsWell
  <2> QED
    BY <1>16, <2>1
<1> HIDE DEF s, file, at
<1>11. data \in Contents
  BY <1>9, <1>10, Taken, Zenon DEF Contents
<1> HIDE DEF data
<1>12. SubSeq(got'[s], Len(got[s]) + 1, Len(got'[s])) = data
  <2>1. got'[s] = got[s] \o data
    BY <1>4, <1>8, <1>10 DEF FilesInv, StreamTypes
  <2> DEFINE g == got[s]
  <2>2. g \in Seq(Bytes \union {0}) /\ data \in Seq(Bytes \union {0})
    BY <1>8, <1>11 DEF Contents
  <2> HIDE DEF g
  <2>3. SubSeq(g \o data, Len(g) + 1, Len(g \o data)) = data
    BY <2>2
  <2> QED
    BY <2>1, <2>3, Zenon DEF g
<1>13. string' = Disk!Overwritten(string, r.at, data) /\ string' \in Contents
  BY <1>2, <1>3, <1>5, <1>11, <1>12, WrittenType, Zenon
<1>14. ASSUME Sound' PROVE string' \in Seq(Bytes)
  <2>0. Sound /\ spoiled = {} /\ data = Coming(r.size)
    BY <1>6, <1>14, <1>17 DEF Sound
  <2> DEFINE m == Disk!Least(Len(file), at + r.size)
  <2>1. streams[s].path \notin spoiled /\ file \in Seq(Bytes) /\ at + r.size = Len(file)
    BY <1>3, <1>9, <2>0 DEF FilesInv, NoHoles, file, at
  <2>2. m = Len(file)
    BY <1>2, <1>9, <2>1 DEF Disk!Least
  <2>3. data \in Seq(Bytes) /\ Len(data) = r.size
    BY <1>2, <1>9, <2>0, <2>1, <2>2, Taken
  <2>4. \A i \in 1 .. r.at : string[i] \in Bytes
    BY <1>2, <1>3, <2>0 DEF Contents
  <2>5. CASE data = <<>>
    <3>1. string' = string /\ r.at = Len(string)
      BY <1>2, <1>3, <1>13, <2>3, <2>5 DEF Disk!Overwritten
    <3> QED
      BY <1>3, <2>4, <3>1 DEF Contents
  <2>6. CASE data # <<>>
    <3>1. Len(string) \in Nat
      BY <1>3 DEF Contents
    <3> DEFINE n == Len(string)
               whole == [i \in 1 .. n |-> IF i \in r.at + 1 .. n THEN data[i - r.at]
                                          ELSE IF i <= n THEN string[i] ELSE 0]
    <3>2. string' = whole
      <4>1. r.at + Len(data) = n /\ ~ (n > n)
        BY <1>2, <1>3, <2>3, <3>1
      <4> QED
        BY <1>13, <2>6, <4>1 DEF Disk!Overwritten
    <3>3. \A i \in 1 .. n : whole[i] \in Bytes
      <4> TAKE i \in 1 .. n
      <4>1. CASE i \in r.at + 1 .. n
        <5>1. i - r.at \in 1 .. Len(data)
          BY <1>2, <1>3, <2>3, <3>1, <4>1
        <5> QED
          BY <2>3, <4>1, <5>1
      <4>2. CASE i \notin r.at + 1 .. n
        BY <1>2, <1>3, <2>4, <3>1, <4>2
      <4> QED
        BY <4>1, <4>2
    <3>4. whole \in [1 .. n -> Bytes] /\ n \in Nat
      BY <3>1, <3>3
    <3> HIDE DEF whole, n
    <3> QED
      BY <3>2, <3>4
  <2> QED
    BY <2>5, <2>6
<1>15. Reserved'
  BY <1>5, <1>13, <1>14 DEF Reserved
<1> QED
  BY <1>6, <1>7, <1>15 DEF FilesInv

\* When neither the string nor the stream of its reader changes, nor the file,
\* what is reserved can still be read.
LEMMA ReservedStays ==
    ASSUME FilesInv, UNCHANGED <<disk, string, reserved, spoiled>>, Sound' => Sound,
           \A r \in Reservation : reserved = <<r>> =>
              /\ reader'[r.reader] = reader[r.reader]
              /\ streams'[reader[r.reader]] = streams[reader[r.reader]]
    PROVE  Reserved'
<1>1. Reserved
  BY DEF FilesInv
<1> QED
  BY <1>1 DEF Reserved

\* A writer, a reader or a file is opened.
LEMMA OpenKeeps ==
    ASSUME FilesInv, ~ crashed, NEW p \in Paths, NEW n, n = Disk!Opened,
           \/ \E w \in Writers : /\ writer[w] = 0 /\ Disk!Fopen(p, TRUE)
                                /\ writer' = [writer EXCEPT ![w] = n]
                                /\ UNCHANGED <<reader, handle>>
           \/ \E r \in Readers : /\ reader[r] = 0 /\ Disk!Fopen(p, FALSE)
                                /\ reader' = [reader EXCEPT ![r] = n]
                                /\ UNCHANGED <<writer, handle>>
           \/ \E h \in Handles : /\ handle[h] = 0 /\ Disk!Fopen(p, FALSE)
                                /\ handle' = [handle EXCEPT ![h] = n]
                                /\ UNCHANGED <<writer, reader>>
    PROVE  FilesInv'
<1>1. PICK writing \in BOOLEAN :
         /\ Disk!Fopen(p, writing)
         /\ \/ writing /\ \E w \in Writers : /\ writer[w] = 0 /\ writer' = [writer EXCEPT ![w] = n]
                                           /\ UNCHANGED <<reader, handle>>
            \/ ~ writing /\ \E r \in Readers : /\ reader[r] = 0 /\ reader' = [reader EXCEPT ![r] = n]
                                             /\ UNCHANGED <<writer, handle>>
            \/ ~ writing /\ \E h \in Handles : /\ handle[h] = 0 /\ handle' = [handle EXCEPT ![h] = n]
                                             /\ UNCHANGED <<writer, reader>>
  BY Zenon
<1>2. Owned
  BY DEF FilesInv
<1>3. \A r \in Readers : reader[r] # 0 => reader'[r] = reader[r]
  BY <1>1, <1>2 DEF Owned
<1>9. \A r \in Reservation : reserved = <<r>> => reader'[r.reader] = reader[r.reader]
  BY <1>3 DEF FilesInv, Reserved, Reservation
<1>4. Alone' /\ AllInFile' /\ NoHoles' /\ Reserved'
  BY <1>1, <1>9, OpenedKeeps
<1>5. /\ StreamTypes' /\ Len(streams') = Len(streams) + 1 /\ Len(streams) \in Nat
      /\ \A s \in DOMAIN streams : s \in DOMAIN streams' /\ streams'[s] = streams[s]
      /\ streams'[Len(streams) + 1] =
            [path |-> p, pos |-> 0, buffer |-> <<>>, open |-> TRUE, writing |-> writing]
  BY <1>1, OpenedTypes
<1>6. /\ n \in Nat /\ n # 0 /\ n \in DOMAIN streams' /\ n \notin DOMAIN streams
      /\ streams'[n].open /\ streams'[n].writing = writing
      /\ \A s \in DOMAIN streams : s \in DOMAIN streams' /\ streams'[s] = streams[s]
  BY <1>5 DEF Disk!Opened, StreamTypes, FilesInv
<1>7. faulty' = faulty /\ crashed' = crashed
  BY <1>1 DEF Disk!Fopen
<1>8. Owned'
  <2>1. CASE writing /\ \E w \in Writers : /\ writer[w] = 0 /\ writer' = [writer EXCEPT ![w] = n]
                                         /\ UNCHANGED <<reader, handle>>
    <3>1. PICK w \in Writers : writer[w] = 0 /\ writer' = [writer EXCEPT ![w] = n]
      BY <2>1, Zenon
    <3>2. /\ writer'[w] = n /\ writer' \in [Writers -> Nat]
          /\ \A v \in Writers : v # w => writer'[v] = writer[v]
      BY <1>2, <1>6, <3>1 DEF Owned
    <3>3. \A v \in Writers : writer'[v] # 0 =>
             writer'[v] \in DOMAIN streams' /\ streams'[writer'[v]].open /\ streams'[writer'[v]].writing
      <4> TAKE v \in Writers
      <4> HAVE writer'[v] # 0
      <4>1. CASE v = w
        BY <1>6, <2>1, <3>2, <4>1, Zenon
      <4>2. CASE v # w
        <5>1. /\ writer'[v] = writer[v] /\ writer[v] \in DOMAIN streams
              /\ streams[writer[v]].open /\ streams[writer[v]].writing
          BY <1>2, <3>2, <4>2 DEF Owned
        <5> QED
          BY <1>6, <5>1
      <4> QED
        BY <4>1, <4>2
    <3>4. \A u, v \in Writers : u # v /\ writer'[u] # 0 => writer'[u] # writer'[v]
      BY <1>2, <1>6, <3>2 DEF Owned
    <3>5. UNCHANGED <<reader, handle>>
      BY <2>1
    <3> QED
      BY <1>2, <1>6, <1>7, <3>2, <3>3, <3>4, <3>5 DEF Owned
  <2>2. CASE ~ writing /\ \E r \in Readers : /\ reader[r] = 0 /\ reader' = [reader EXCEPT ![r] = n]
                                           /\ UNCHANGED <<writer, handle>>
    BY <1>2, <1>6, <1>7, <2>2 DEF Owned
  <2>3. CASE ~ writing /\ \E h \in Handles : /\ handle[h] = 0 /\ handle' = [handle EXCEPT ![h] = n]
                                           /\ UNCHANGED <<writer, reader>>
    BY <1>2, <1>6, <1>7, <2>3 DEF Owned
  <2> QED
    BY <1>1, <2>1, <2>2, <2>3
<1> QED
  BY <1>4, <1>5, <1>8 DEF FilesInv

\* fflush or fclose of a stream that is open and that no reader has.
LEMMA WritesOutKeeps ==
    ASSUME FilesInv, NEW s \in DOMAIN streams, streams[s].open,
           NEW open \in BOOLEAN, NEW okay \in BOOLEAN, Disk!WritesOut(s, open, okay),
           UNCHANGED <<accepted, got, spoiled, reader, string, reserved>>,
           \A r \in Readers : reader[r] # s
    PROVE  /\ StreamTypes' /\ Alone' /\ AllInFile' /\ NoHoles' /\ Reserved'
           /\ DOMAIN streams' = DOMAIN streams
           /\ streams'[s].open = open /\ streams'[s].writing = streams[s].writing
           /\ \A x \in DOMAIN streams : x # s => streams'[x] = streams[x]
           /\ faulty \subseteq faulty' /\ (~ okay => s \in faulty')
<1> DEFINE buffer == streams[s].buffer
<1> DEFINE WrittenOut(n, left) ==
             /\ okay => n = Len(buffer)
             /\ disk' = [disk EXCEPT ![streams[s].path] =
                           Disk!Overwritten(@, streams[s].pos, SubSeq(buffer, 1, n))]
             /\ streams' = [streams EXCEPT ![s] = Disk!After(s, n, left, open)]
             /\ faulty' = IF okay THEN faulty ELSE faulty \union {s}
<1>0. PICK n \in 0 .. Len(buffer) :
         \E left \in {<<>>, SubSeq(buffer, n + 1, Len(buffer))} : WrittenOut(n, left)
  BY Zenon DEF Disk!WritesOut
<1>1. PICK left \in {<<>>, SubSeq(buffer, n + 1, Len(buffer))} : WrittenOut(n, left)
  BY <1>0
<1> DEFINE new == Disk!After(s, n, left, open)
<1>2. streams[s] \in StreamRecords
  BY DEF FilesInv, StreamTypes
<1>3. /\ buffer \in Seq(Bytes) /\ n \in Nat /\ streams[s].pos \in Nat /\ streams[s].pos + n \in Nat
      /\ left \in Seq(Bytes)
      /\ n = Len(buffer) => left = <<>>
      /\ buffer = <<>> => left = <<>>
  <2>1. buffer \in Seq(Bytes) /\ streams[s].pos \in Nat
    BY <1>2 DEF StreamRecords
  <2>2. n \in Nat /\ left \in {<<>>, SubSeq(buffer, n + 1, Len(buffer))}
    BY <1>0, <1>1
  <2> HIDE DEF buffer, WrittenOut
  <2>3. SubSeq(buffer, n + 1, Len(buffer)) \in Seq(Bytes)
    BY <2>1, <2>2
  <2>4. n = Len(buffer) => SubSeq(buffer, n + 1, Len(buffer)) = <<>>
    BY <2>1, <2>2
  <2>5. buffer = <<>> => SubSeq(buffer, n + 1, Len(buffer)) = <<>>
    BY <2>1, <2>2
  <2>6. <<>> \in Seq(Bytes)
    OBVIOUS
  <2>7. streams[s].pos + n \in Nat
    BY <2>1, <2>2
  <2> QED
    BY <2>1, <2>2, <2>3, <2>4, <2>5, <2>6, <2>7, Zenon
<1>4. new \in StreamRecords
  BY <1>2, <1>3 DEF StreamRecords, Disk!After
<1>5. /\ new.path = streams[s].path /\ new.writing = streams[s].writing /\ new.open = open
      /\ new.buffer = left /\ new.pos = streams[s].pos + n
  BY DEF Disk!After
<1>6. ~ streams[s].writing => buffer = <<>>
  BY DEF FilesInv, StreamTypes
<1>7. streams' = [streams EXCEPT ![s] = new]
  BY <1>1
<1> HIDE DEF new
<1>8. faulty \subseteq faulty' /\ faulty' \subseteq faulty \union {s} /\ (~ okay => s \in faulty')
  BY <1>1
<1>9. Changes(s, new)
  BY <1>3, <1>4, <1>5, <1>6, <1>7, <1>8 DEF Changes
<1>10. s \notin faulty' => n = Len(buffer) /\ new.buffer = <<>>
  BY <1>1, <1>3, <1>5, <1>8
<1>11. StreamTypes' /\ Alone' /\ AllInFile' /\ NoHoles' /\ Reserved'
  BY <1>1, <1>5, <1>9, <1>10, FlushKeeps
<1>12. /\ DOMAIN streams' = DOMAIN streams
       /\ streams'[s] = new /\ \A x \in DOMAIN streams : x # s => streams'[x] = streams[x]
  BY <1>9, Changed
<1> QED
  BY <1>5, <1>8, <1>11, <1>12

\* Flush, and the end of a writer.
LEMMA WriterFlushKeeps ==
    ASSUME FilesInv, ~ crashed, NEW w \in Writers, Disk!Flush(w) \/ Disk!DestroyWriter(w)
    PROVE  FilesInv'
<1> DEFINE s == writer[w]
<1>1. /\ s \in DOMAIN streams /\ streams[s].open /\ streams[s].writing
      /\ \A r \in Readers : reader[r] # s
      /\ \A h \in Handles : handle[h] # s
      /\ \A v \in Writers : v # w => writer[v] # s
  BY DEF FilesInv, Owned, Disk!Flush, Disk!DestroyWriter
<1>2. PICK open \in BOOLEAN, okay \in BOOLEAN :
         /\ Disk!WritesOut(s, open, okay)
         /\ UNCHANGED <<accepted, got, reader, handle, string, reserved, spoiled>>
         /\ \/ open /\ writer' = writer /\ crashed' = crashed
            \/ okay /\ writer' = [writer EXCEPT ![w] = 0]
            \/ writer' = writer /\ crashed'
  <2>1. CASE Disk!Flush(w)
    <3>1. /\ \E okay \in BOOLEAN : Disk!WritesOut(s, TRUE, okay)
          /\ UNCHANGED <<accepted, got, writer, reader, handle, string, reserved, spoiled, crashed>>
      BY <2>1, Zenon DEF Disk!Flush, Disk!objects
    <3> QED
      BY <3>1, Zenon
  <2>2. CASE Disk!DestroyWriter(w)
    <3>1. PICK okay \in BOOLEAN :
             /\ Disk!WritesOut(s, FALSE, okay)
             /\ writer' = IF okay THEN [writer EXCEPT ![w] = 0] ELSE writer
             /\ crashed' = ~ okay
      BY <2>2, Zenon DEF Disk!DestroyWriter
    <3>2. UNCHANGED <<accepted, got, reader, handle, string, reserved, spoiled>>
      BY <2>2, Zenon DEF Disk!DestroyWriter
    <3>3. (okay /\ writer' = [writer EXCEPT ![w] = 0]) \/ (writer' = writer /\ crashed')
      BY <3>1
    <3> QED
      BY <3>1, <3>2, <3>3, Zenon
  <2> QED
    BY <2>1, <2>2
<1>3. /\ StreamTypes' /\ Alone' /\ AllInFile' /\ NoHoles' /\ Reserved'
      /\ DOMAIN streams' = DOMAIN streams
      /\ streams'[s].open = open /\ streams'[s].writing = streams[s].writing
      /\ \A x \in DOMAIN streams : x # s => streams'[x] = streams[x]
      /\ faulty \subseteq faulty'
  BY <1>1, <1>2, WritesOutKeeps
<1> HIDE DEF s
<1>4. Owned'
  <2>1. CASE open /\ writer' = writer /\ crashed' = crashed
    <3>1. \A x \in DOMAIN streams : /\ streams'[x].open = streams[x].open
                                   /\ streams'[x].writing = streams[x].writing
      BY <1>1, <1>3, <2>1
    <3> QED
      BY <1>2, <1>3, <2>1, <3>1 DEF FilesInv, Owned
  <2>2. CASE okay /\ writer' = [writer EXCEPT ![w] = 0]
    BY <1>1, <1>2, <1>3, <2>2 DEF FilesInv, Owned
  <2>3. CASE writer' = writer /\ crashed'
    <3>1. \A x \in DOMAIN streams : streams'[x].writing = streams[x].writing
      BY <1>1, <1>3
    <3> QED
      BY <1>1, <1>2, <1>3, <2>3, <3>1 DEF FilesInv, Owned
  <2> QED
    BY <1>2, <2>1, <2>2, <2>3
<1> QED
  BY <1>3, <1>4 DEF FilesInv

\* A file is closed, or fails to be.
LEMMA CloseKeeps ==
    ASSUME FilesInv, ~ crashed, NEW h \in Handles, Disk!Close(h)
    PROVE  FilesInv'
<1> DEFINE s == handle[h]
<1>1. /\ s \in DOMAIN streams /\ streams[s].open /\ ~ streams[s].writing
      /\ \A r \in Readers : reader[r] # s
      /\ \A w \in Writers : writer[w] # s
      /\ \A k \in Handles : k # h => handle[k] # s
  BY DEF FilesInv, Owned, Disk!Close
<1>2. UNCHANGED <<accepted, got, reader, writer, string, reserved, spoiled, crashed>>
  BY DEF Disk!Close
<1>3. PICK okay \in BOOLEAN :
         /\ Disk!WritesOut(s, FALSE, okay)
         /\ handle' = IF okay THEN [handle EXCEPT ![h] = 0] ELSE handle
  BY DEF Disk!Close
<1>4. /\ StreamTypes' /\ Alone' /\ AllInFile' /\ NoHoles' /\ Reserved'
      /\ DOMAIN streams' = DOMAIN streams
      /\ streams'[s].writing = streams[s].writing
      /\ \A x \in DOMAIN streams : x # s => streams'[x] = streams[x]
      /\ faulty \subseteq faulty' /\ (~ okay => s \in faulty')
  BY <1>1, <1>2, <1>3, WritesOutKeeps
<1>5. Owned'
  <2>1. CASE okay
    <3>1. handle' = [handle EXCEPT ![h] = 0]
      BY <1>3, <2>1
    <3> HIDE DEF s
    <3> QED
      BY <1>1, <1>2, <1>4, <3>1 DEF FilesInv, Owned
  <2>2. CASE ~ okay
    <3>1. handle' = handle /\ s \in faulty'
      BY <1>3, <1>4, <2>2
    <3>2. \A x \in DOMAIN streams : streams'[x].writing = streams[x].writing
      BY <1>1, <1>4
    <3>3. \A k \in Handles : k # h => handle'[k] = handle[k] /\ handle[k] # s
      BY <1>1, <3>1
    <3>4. handle'[h] = s
      BY <3>1
    <3> HIDE DEF s
    <3> QED
      BY <1>1, <1>2, <1>4, <3>1, <3>2, <3>3, <3>4 DEF FilesInv, Owned
  <2> QED
    BY <2>1, <2>2
<1> QED
  BY <1>4, <1>5 DEF FilesInv

\* Bytes are read.
LEMMA ReaderKeeps ==
    ASSUME FilesInv, ~ crashed, NEW n \in Nat,
           \/ \E r \in Readers : Disk!Read(r, n)
           \/ \E h \in Handles : Disk!ReadInto(h, n)
    PROVE  FilesInv'
<1>1. PICK s \in DOMAIN streams :
         /\ ~ streams[s].writing /\ Disk!Fread(s, n)
         /\ \A x \in Reservation : reserved = <<x>> => reader[x.reader] # s
  <2>1. CASE \E r \in Readers : Disk!Read(r, n)
    BY <2>1 DEF FilesInv, Owned, Disk!Read
  <2>2. CASE \E h \in Handles : Disk!ReadInto(h, n)
    BY <2>2 DEF FilesInv, Owned, Reservation, Disk!ReadInto
  <2> QED
    BY <2>1, <2>2
<1>2. UNCHANGED <<disk, writer, reader, handle, string, reserved, accepted, spoiled, crashed>>
  BY DEF Disk!Read, Disk!ReadInto, Disk!objects
<1>3. /\ StreamTypes' /\ Alone' /\ AllInFile' /\ NoHoles'
      /\ DOMAIN streams' = DOMAIN streams /\ faulty \subseteq faulty' /\ (Sound' => Sound)
      /\ \A x \in DOMAIN streams :
            /\ streams'[x].open = streams[x].open
            /\ streams'[x].writing = streams[x].writing
            /\ streams'[x].path = streams[x].path
            /\ x # s => streams'[x] = streams[x]
  BY <1>1, <1>2, ReadKeeps
<1>4. Owned'
  BY <1>2, <1>3 DEF FilesInv, Owned
<1>5. Reserved'
  <2>1. \A x \in Reservation : reserved = <<x>> => streams'[reader[x.reader]] = streams[reader[x.reader]]
    BY <1>1, <1>3 DEF FilesInv, Owned, Reserved, Reservation
  <2> QED
    BY <1>2, <1>3, <2>1, ReservedStays
<1> QED
  BY <1>3, <1>4, <1>5 DEF FilesInv

\* A file goes to its start, and what it read is forgotten; or size() leaves it
\* at its end.
LEMMA RewindKeeps ==
    ASSUME FilesInv, ~ crashed, NEW h \in Handles, Disk!Rewind(h) \/ Disk!SizeStays(h)
    PROVE  FilesInv'
<1> DEFINE s == handle[h]
           file == disk[streams[s].path]
<1>1. /\ s \in DOMAIN streams /\ ~ streams[s].writing /\ \A r \in Readers : reader[r] # s
      /\ streams[s] \in StreamRecords /\ streams \in Seq(StreamRecords)
      /\ got \in Seq(Contents) /\ Len(got) = Len(streams)
      /\ disk \in [Paths -> Contents]
  BY DEF FilesInv, Owned, StreamTypes, Disk!Rewind, Disk!SizeStays
<1>14. file \in Seq(Bytes \union {0}) /\ Len(file) \in Nat /\ SubSeq(file, 1, 0) = <<>>
  <2>1. file \in Seq(Bytes \union {0})
    BY <1>1 DEF StreamRecords, Contents
  <2> QED
    BY <2>1
<1>2. /\ UNCHANGED <<disk, writer, reader, handle, string, reserved, accepted, spoiled, crashed>>
      /\ \E to \in {0, Len(file)} : streams' = [streams EXCEPT ![s].pos = to]
      /\ faulty \subseteq faulty' /\ faulty' \subseteq faulty \union {s}
      /\ got' \in Seq(Contents) /\ Len(got') = Len(streams)
      /\ \A x \in DOMAIN streams : x # s => got'[x] = got[x]
      /\ s \notin faulty' => got'[s] = <<>> /\ streams' = [streams EXCEPT ![s].pos = 0]
  <2>1. CASE Disk!Rewind(h)
    <3>1. /\ streams' = [streams EXCEPT ![s].pos = 0] /\ got' = [got EXCEPT ![s] = <<>>]
          /\ UNCHANGED <<disk, writer, reader, handle, string, reserved, accepted, spoiled, faulty,
                         crashed>>
      BY <2>1 DEF Disk!Rewind, Disk!objects
    <3> HIDE DEF s
    <3>2. /\ got' \in Seq(Contents) /\ Len(got') = Len(streams) /\ got'[s] = <<>>
          /\ \A x \in DOMAIN streams : x # s => got'[x] = got[x]
      BY <1>1, <3>1 DEF Contents
    <3> QED
      BY <3>1, <3>2
  <2>2. CASE Disk!SizeStays(h)
    BY <1>1, <2>2, Zenon DEF Disk!SizeStays, Disk!objects
  <2> QED
    BY <2>1, <2>2
<1>15. PICK to \in {0, Len(file)} :
          /\ streams' = [streams EXCEPT ![s].pos = to]
          /\ s \notin faulty' => got'[s] = <<>> /\ to = 0
  <2>1. CASE s \in faulty'
    BY <1>2, <2>1, Zenon
  <2>2. CASE s \notin faulty'
    BY <1>2, <2>2, Zenon
  <2> QED
    BY <2>1, <2>2
<1> DEFINE new == [streams[s] EXCEPT !.pos = to]
<1>3. /\ new \in StreamRecords
      /\ new.path = streams[s].path /\ new.pos = to
      /\ new.writing = streams[s].writing /\ new.open = streams[s].open
      /\ new.buffer = streams[s].buffer
  <2>1. to \in Nat
    BY <1>14, <1>15
  <2> QED
    BY <1>1, <2>1, Zenon DEF StreamRecords
<1>16. streams' = [streams EXCEPT ![s] = new]
  BY <1>15
<1>17. to \in Nat /\ to <= Len(file)
  BY <1>14, <1>15
<1> HIDE DEF new, s
<1>4. Changes(s, new)
  BY <1>1, <1>2, <1>3, <1>16 DEF Changes, FilesInv, StreamTypes
<1>5. /\ streams' \in Seq(StreamRecords)
      /\ Len(streams') = Len(streams) /\ DOMAIN streams' = DOMAIN streams
      /\ streams'[s] = new /\ \A x \in DOMAIN streams : x # s => streams'[x] = streams[x]
      /\ \A x \in DOMAIN streams : ~ streams'[x].writing => streams'[x].buffer = <<>>
      /\ \A x \in DOMAIN streams : Disk!Undisturbed(x)' => Disk!Undisturbed(x)
      /\ faulty' \subseteq DOMAIN streams' /\ (Sound' => Sound)
      /\ Alone'
  BY <1>1, <1>4, Changed
<1>7. StreamTypes'
  BY <1>2, <1>5 DEF FilesInv, StreamTypes
<1>8. AllInFile'
  <2> SUFFICES ASSUME NEW t \in DOMAIN streams, Disk!Undisturbed(t)' PROVE InFile(t)'
    BY <1>5 DEF AllInFile
  <2>1. CASE t # s
    <3>1. InFile(t)
      BY <1>5 DEF FilesInv, AllInFile
    <3>2. t \notin faulty' => t \notin faulty
      BY <1>2
    <3> QED
      BY <1>2, <1>5, <2>1, <3>1, <3>2, Zenon DEF InFile
  <2>2. CASE t = s
    <3>1. /\ streams'[s].path = streams[s].path /\ ~ streams'[s].writing /\ streams'[s].pos = to
          /\ disk'[streams[s].path] = file
      BY <1>1, <1>2, <1>3, <1>5
    <3>2. s \notin faulty' => got'[s] = SubSeq(file, 1, to)
      BY <1>14, <1>15
    <3> HIDE DEF file
    <3> QED
      BY <1>17, <2>2, <3>1, <3>2, Zenon DEF InFile
  <2> QED
    BY <2>1, <2>2
<1>9. NoHoles'
  BY <1>2 DEF FilesInv, NoHoles
<1>10. \A x \in DOMAIN streams : /\ streams'[x].writing = streams[x].writing
                                /\ streams'[x].open = streams[x].open
  BY <1>3, <1>5
<1>11. Owned'
  BY <1>2, <1>5, <1>10 DEF FilesInv, Owned
<1>12. \A x \in Reservation : reserved = <<x>> => streams'[reader[x.reader]] = streams[reader[x.reader]]
  BY <1>1, <1>5 DEF FilesInv, Owned, Reserved, Reservation
<1>13. Reserved'
  BY <1>2, <1>5, <1>12, ReservedStays
<1> QED
  BY <1>5, <1>7, <1>8, <1>9, <1>11, <1>13 DEF FilesInv

\* A string reserves what its reader has left.
LEMMA ReserveKeeps ==
    ASSUME FilesInv, NEW r \in Readers, Disk!Reserve(r), ~ Disk!Abort
    PROVE  FilesInv'
<1> DEFINE s == reader[r]
           n == Disk!Remaining(s)
           file == disk[streams[s].path]
           held_back == [reader |-> r, at |-> Len(string), size |-> n]
           zeros == [i \in 1 .. n |-> 0]
<1>1. /\ s # 0 /\ reserved = <<>> /\ streams[s].pos <= Len(file)
      /\ reserved' = <<held_back>> /\ string' = string \o zeros
      /\ UNCHANGED <<disk, streams, writer, reader, handle, accepted, got, spoiled, faulty, crashed>>
  BY DEF Disk!Reserve, Disk!objects, Disk!histories
<1>2. /\ StreamTypes' /\ Alone' /\ AllInFile' /\ NoHoles' /\ Owned'
  BY <1>1, ZenonT(30) DEF FilesInv, StreamTypes, Alone, Sole, AllInFile, InFile, NoHoles, Owned,
     Disk!Undisturbed
<1>3. s \in DOMAIN streams
  BY <1>1 DEF FilesInv, Owned
<1>4. streams[s] \in StreamRecords /\ disk \in [Paths -> Contents]
  BY <1>3 DEF FilesInv, StreamTypes
<1>5. streams[s].pos \in Nat /\ file \in Contents /\ n = Len(file) - streams[s].pos
  BY <1>4 DEF StreamRecords, Disk!Remaining
<1>6. n \in Nat /\ Len(file) \in Nat
  BY <1>1, <1>5 DEF Contents
<1>7. string \in Seq(Bytes \union {0}) /\ Len(string) \in Nat
  BY DEF FilesInv, Reserved, Contents
<1> HIDE DEF n, file
<1>8. zeros \in Seq(Bytes \union {0}) /\ Len(zeros) = n
  BY <1>6
<1> HIDE DEF zeros
<1>9. /\ string' \in Contents /\ Len(string') = Len(string) + n
      /\ \A i \in 1 .. Len(string) : string'[i] = string[i]
  BY <1>1, <1>7, <1>8, ConcatProperties DEF Contents
<1>10. held_back \in Reservation
  BY <1>6, <1>7 DEF Reservation
<1>11. /\ held_back.reader = r /\ held_back.at = Len(string) /\ held_back.size = n
  OBVIOUS
<1> HIDE DEF held_back
<1>14. Sound' => Sound
  BY <1>1 DEF Sound, Disk!ReadsWell
<1>12. Sound => \A i \in 1 .. Len(string) : string[i] # 0
  BY <1>1, <1>7, UtilitiesAssumption DEF ConstantsFit, FilesInv, Reserved
<1>13. Reserved'
  <2>1. \A x \in Reservation : reserved' = <<x>> => x = held_back
    BY <1>1
  <2>2. /\ reader'[r] # 0
        /\ held_back.at + held_back.size = Len(string')
        /\ streams'[reader'[r]].pos + n = Len(disk'[streams'[reader'[r]].path])
        /\ Sound' => \A i \in 1 .. held_back.at : string'[i] # 0
    BY <1>1, <1>5, <1>6, <1>9, <1>11, <1>12, <1>14, SMTT(30) DEF file
  <2>3. reserved' # <<>>
    BY <1>1
  <2> QED
    BY <1>1, <1>9, <1>10, <1>11, <2>1, <2>2, <2>3, Zenon DEF Reserved
<1> QED
  BY <1>2, <1>13 DEF FilesInv

\* A writer or a file is moved, or a reader copied.
LEMMA MoveKeeps ==
    ASSUME FilesInv,
           \/ \E w, from \in Writers : Disk!MoveWriter(w, from)
           \/ \E r, from \in Readers : Disk!CopyReader(r, from)
           \/ \E h, from \in Handles : Disk!MoveFile(h, from) /\ ~ Disk!Abort
    PROVE  FilesInv'
<1>1. /\ UNCHANGED <<disk, streams, string, reserved, accepted, got, spoiled, faulty, crashed>>
      /\ \A x \in Reservation : reserved = <<x>> => reader'[x.reader] = reader[x.reader]
  <2>1. CASE \E w, from \in Writers : Disk!MoveWriter(w, from)
    BY <2>1 DEF Disk!MoveWriter, Disk!histories
  <2>2. CASE \E r, from \in Readers : Disk!CopyReader(r, from)
    <3>1. PICK r, from \in Readers : Disk!CopyReader(r, from)
      BY <2>2
    <3>2. \A x \in Reservation : reserved = <<x>> => x.reader # r
      BY <3>1 DEF Disk!CopyReader
    <3> QED
      BY <3>1, <3>2 DEF Disk!CopyReader, Disk!histories, FilesInv, Owned, Reservation
  <2>3. CASE \E h, from \in Handles : Disk!MoveFile(h, from) /\ ~ Disk!Abort
    BY <2>3 DEF Disk!MoveFile, Disk!histories
  <2> QED
    BY <2>1, <2>2, <2>3
<1>2. /\ StreamTypes' /\ Alone' /\ AllInFile' /\ NoHoles'
  BY <1>1, Zenon DEF FilesInv, StreamTypes, Alone, Sole, AllInFile, InFile, NoHoles,
     Disk!Undisturbed
<1>6. Reserved'
  BY <1>1, ReservedStays DEF Sound, Disk!ReadsWell
<1>3. CASE \E w, from \in Writers : Disk!MoveWriter(w, from)
  <2>1. PICK w, from \in Writers : Disk!MoveWriter(w, from)
    BY <1>3
  <2>2. /\ w # from /\ UNCHANGED <<reader, handle>>
        /\ writer' = [writer EXCEPT ![w] = writer[from], ![from] = 0]
    BY <2>1 DEF Disk!MoveWriter
  <2>3. writer \in [Writers -> Nat]
    BY DEF FilesInv, Owned
  <2>4. /\ writer' \in [Writers -> Nat]
        /\ writer'[w] = writer[from] /\ writer'[from] = 0
        /\ \A v \in Writers : v # w /\ v # from => writer'[v] = writer[v]
    BY <2>2, <2>3
  <2>5. Owned'
    BY <1>1, <2>2, <2>4 DEF FilesInv, Owned
  <2> QED
    BY <1>2, <1>6, <2>5 DEF FilesInv
<1>4. CASE \E h, from \in Handles : Disk!MoveFile(h, from) /\ ~ Disk!Abort
  <2>1. PICK h, from \in Handles : Disk!MoveFile(h, from) /\ ~ Disk!Abort
    BY <1>4
  <2>2. /\ handle[h] = 0 /\ UNCHANGED <<writer, reader>>
        /\ handle' = [handle EXCEPT ![h] = handle[from], ![from] = 0]
    BY <2>1 DEF Disk!MoveFile
  <2>3. handle \in [Handles -> Nat]
    BY DEF FilesInv, Owned
  <2>4. /\ handle' \in [Handles -> Nat]
        /\ handle'[h] = handle[from] /\ handle'[from] = 0
        /\ \A g \in Handles : g # h /\ g # from => handle'[g] = handle[g]
    BY <2>2, <2>3
  <2>5. Owned'
    BY <1>1, <2>2, <2>4 DEF FilesInv, Owned
  <2> QED
    BY <1>2, <1>6, <2>5 DEF FilesInv
<1>5. CASE \E r, from \in Readers : Disk!CopyReader(r, from)
  <2>1. PICK r, from \in Readers : Disk!CopyReader(r, from)
    BY <1>5
  <2>2. /\ reader[from] # 0 /\ UNCHANGED <<writer, handle>>
        /\ reader' = [reader EXCEPT ![r] = reader[from]]
    BY <2>1 DEF Disk!CopyReader
  <2>3. reader \in [Readers -> Nat]
    BY DEF FilesInv, Owned
  <2>4. /\ reader' \in [Readers -> Nat]
        /\ \A x \in Readers : reader'[x] = reader[x] \/ reader'[x] = reader[from]
    BY <2>2, <2>3
  <2>5. Owned'
    BY <1>1, <2>2, <2>4 DEF FilesInv, Owned
  <2> QED
    BY <1>2, <1>6, <2>5 DEF FilesInv
<1> QED
  BY <1>3, <1>4, <1>5

\* The process is aborted.
LEMMA AbortKeeps ==
    ASSUME FilesInv, Disk!Abort
    PROVE  FilesInv'
<1>1. /\ crashed'
      /\ UNCHANGED <<disk, streams, writer, reader, handle, string, reserved, accepted, got, spoiled,
                     faulty>>
  BY DEF Disk!Abort, Disk!objects, Disk!histories
<1>2. /\ StreamTypes' /\ Alone' /\ AllInFile' /\ NoHoles'
  BY <1>1, Zenon DEF FilesInv, StreamTypes, Alone, Sole, AllInFile, InFile, NoHoles,
     Disk!Undisturbed
<1>3. Reserved'
  BY <1>1, ReservedStays DEF Sound, Disk!ReadsWell
<1>4. Owned'
  BY <1>1 DEF FilesInv, Owned
<1> QED
  BY <1>2, <1>3, <1>4 DEF FilesInv

\* FilesInv holds at first,
LEMMA FilesInit == Disk!Init => FilesInv
  <1> SUFFICES ASSUME Disk!Init PROVE FilesInv
    OBVIOUS
  <1>1. StreamTypes
    BY DEF Disk!Init, StreamTypes, Contents
  <1>2. Owned
    BY Zenon DEF Disk!Init, Owned
  <1>3. Alone /\ AllInFile /\ NoHoles
    BY DEF Disk!Init, Alone, AllInFile, NoHoles
  <1>4. Reserved
    <2>1. <<>> \in Contents /\ <<>> \in Seq(Bytes)
      BY DEF Contents
    <2>2. \A r : <<r>> # <<>>
      OBVIOUS
    <2> QED
      BY <2>1, <2>2 DEF Disk!Init, Reserved
  <1> QED
    BY <1>1, <1>2, <1>3, <1>4 DEF FilesInv

\* every step of files keeps it,
LEMMA FilesStep == FilesInv /\ [Disk!Next]_diskVars => FilesInv'
  <1> SUFFICES ASSUME FilesInv, [Disk!Next]_diskVars PROVE FilesInv'
    OBVIOUS
  <1>1. CASE UNCHANGED diskVars
    <2>1. UNCHANGED <<disk, streams, writer, reader, handle, string, reserved, accepted, got, spoiled,
                      faulty, crashed>>
      BY <1>1 DEF diskVars
    <2>2. /\ StreamTypes' /\ Alone' /\ AllInFile' /\ NoHoles'
      BY <2>1, Zenon DEF FilesInv, StreamTypes, Alone, Sole, AllInFile, InFile, NoHoles,
         Disk!Undisturbed
    <2>3. Reserved'
      BY <2>1, ReservedStays DEF Sound, Disk!ReadsWell
    <2>4. Owned'
      BY <2>1 DEF FilesInv, Owned
    <2> QED
      BY <2>2, <2>3, <2>4 DEF FilesInv
  <1>2. ASSUME ~ crashed, NEW w \in Writers, NEW p \in Paths, Disk!OpenWriter(w, p) PROVE FilesInv'
    BY <1>2, OpenKeeps, Zenon DEF Disk!OpenWriter
  <1>3. ASSUME ~ crashed, NEW w \in Writers, NEW b \in Bytes,
               Disk!Write(w, <<b>>) \/ Disk!Write(w, <<b, b>>)
        PROVE  FilesInv'
    <2>1. <<b>> \in Seq(Bytes) /\ <<b, b>> \in Seq(Bytes)
      BY <1>3
    <2> QED
      BY <1>3, <2>1, WriteKeeps, Zenon DEF FilesInv
  <1>4. ASSUME ~ crashed, NEW w \in Writers, Disk!Flush(w) \/ Disk!DestroyWriter(w) PROVE FilesInv'
    BY <1>4, WriterFlushKeeps
  <1>5. ASSUME ~ crashed, NEW r \in Readers, NEW p \in Paths, Disk!OpenReader(r, p) PROVE FilesInv'
    BY <1>5, OpenKeeps, Zenon DEF Disk!OpenReader
  <1>6. ASSUME ~ crashed, NEW n \in 1 .. MaxLength,
               \/ \E r \in Readers : Disk!Read(r, n)
               \/ \E h \in Handles : Disk!ReadInto(h, n)
        PROVE  FilesInv'
    BY <1>6, ReaderKeeps, UtilitiesAssumption DEF ConstantsFit
  <1>7. ASSUME NEW r \in Readers, Disk!Reserve(r) PROVE FilesInv'
    BY <1>7, ReserveKeeps, AbortKeeps
  <1>8. ASSUME Disk!ReadReserved PROVE FilesInv'
    BY <1>8, ReadReservedKeeps
  <1>9. ASSUME ~ crashed, NEW h \in Handles, NEW p \in Paths, Disk!OpenFile(h, p) PROVE FilesInv'
    BY <1>9, OpenKeeps, Zenon DEF Disk!OpenFile
  <1>10. ASSUME ~ crashed, NEW h \in Handles, Disk!Rewind(h) \/ Disk!SizeStays(h) \/ Disk!Close(h)
         PROVE  FilesInv'
    BY <1>10, RewindKeeps, CloseKeeps
  <1>11. ASSUME \/ \E w, from \in Writers : Disk!MoveWriter(w, from)
                \/ \E r, from \in Readers : Disk!CopyReader(r, from)
                \/ \E h, from \in Handles : Disk!MoveFile(h, from)
         PROVE  FilesInv'
    BY <1>11, MoveKeeps, AbortKeeps
  <1>12. ASSUME NEW h \in Handles, Disk!DestroyFile(h) PROVE FilesInv'
    BY <1>12, AbortKeeps DEF Disk!DestroyFile
  <1> QED
    BY <1>1, <1>2, <1>3, <1>4, <1>5, <1>6, <1>7, <1>8, <1>9, <1>10, <1>11, <1>12, Zenon
    DEF Disk!Next

\* and it says what FilesExact does.
LEMMA FilesRight == FilesInv => Disk!FilesExact
  <1> SUFFICES ASSUME FilesInv PROVE Disk!FilesExact
    OBVIOUS
  <1>1. \A s \in Disk!Streams \ faulty : Disk!Undisturbed(s) =>
           IF streams[s].writing
             THEN accepted[s] = disk[streams[s].path] \o streams[s].buffer
             ELSE got[s] = SubSeq(disk[streams[s].path], 1, streams[s].pos)
    BY Zenon DEF FilesInv, AllInFile, InFile, Disk!Streams
  <1>2. /\ \A w, v \in Writers : w # v /\ writer[w] # 0 => writer[w] # writer[v]
        /\ \A g, h \in Handles : g # h /\ handle[g] # 0 => handle[g] # handle[h]
        /\ \A h \in Handles, r \in Readers : handle[h] # 0 => handle[h] # reader[r]
        /\ \A w \in Writers : writer[w] # 0 => streams[writer[w]].open \/ crashed
        /\ \A r \in Readers : reader[r] # 0 => streams[reader[r]].open
        /\ \A h \in Handles : handle[h] # 0 => streams[handle[h]].open \/ handle[h] \in faulty
    BY DEF FilesInv, Owned
  <1>3. spoiled = {} /\ Disk!ReadsWell /\ reserved = <<>> => \A i \in DOMAIN string : string[i] # 0
    BY UtilitiesAssumption DEF ConstantsFit, FilesInv, Reserved, Sound
  <1> QED
    BY <1>1, <1>2, <1>3, Zenon DEF Disk!FilesExact

-----------------------------------------------------------------------------
(* Tree traversal.  What lies on the stack, from its top, stands for calls  *)
(* to come; the calls made and those to come are the documented ones, which *)
(* are defined by a recursion over the tree, at every moment.               *)

\* The least of some numbers.
LEMMA LeastOf ==
    ASSUME NEW S, S \subseteq Nat, S # {}
    PROVE  \E x \in S : \A y \in S : x <= y
<1>1. PICK R : R = {ss \in Nat \X Nat : ss[1] < ss[2]}
  BY Zenon
<1>2. IsWellFoundedOn(R, Nat)
  BY <1>1, NatLessThanWellFounded DEF OpToRel
<1>3. PICK x \in S : \A y \in S : ~ (<<y, x>> \in R)
  BY <1>2, WFMin, Zenon
<1>4. ASSUME NEW y \in S PROVE x <= y
  <2>1. x \in Nat /\ y \in Nat /\ <<y, x>> \in Nat \X Nat
    OBVIOUS
  <2>2. <<y, x>>[1] = y /\ <<y, x>>[2] = x
    OBVIOUS
  <2>3. ~ (y < x)
    BY <1>1, <1>3, <2>1, <2>2
  <2> QED
    BY <2>1, <2>3
<1> QED
  BY <1>4

\* How FlattenSeq joins the first n sequences of s.
Joins(f, s, n) == \A i \in 1 .. n : f[i] = IF i = 1 THEN s[i] ELSE f[i - 1] \o s[i]
\* Sequences that begin alike.
Agree(s, t, n) == \A i \in 1 .. n : s[i] = t[i]

\* The last of them.
LEMMA JoinsStep ==
    ASSUME NEW f, NEW s, NEW n \in Nat, Joins(f, s, n + 1)
    PROVE  f[n + 1] = IF n = 0 THEN s[n + 1] ELSE f[n] \o s[n + 1]
<1>1. n + 1 \in 1 .. n + 1 /\ (n + 1) - 1 = n /\ (n + 1 = 1 <=> n = 0)
  OBVIOUS
<1>2. f[n + 1] = IF n + 1 = 1 THEN s[n + 1] ELSE f[(n + 1) - 1] \o s[n + 1]
  BY <1>1 DEF Joins
<1> QED
  BY <1>1, <1>2

\* There is a function like that,
LEMMA JoinsExists ==
    ASSUME NEW S, NEW s \in Seq(Seq(S)), NEW n \in 1 .. Len(s)
    PROVE  \E f \in [1 .. n -> Seq(S)] : Joins(f, s, n)
<1> DEFINE Has(k) == \E f \in [1 .. k -> Seq(S)] : Joins(f, s, k)
           Bad == {k \in 1 .. n : ~ Has(k)}
<1>1. n \in Nat /\ \A k \in 1 .. n : s[k] \in Seq(S) /\ k \in Nat
  OBVIOUS
<1>7. n \in 1 .. n
  OBVIOUS
<1> HIDE DEF Has
<1>2. SUFFICES ASSUME Bad # {} PROVE FALSE
  BY <1>7 DEF Has
<1>3. PICK m \in Bad : \A k \in Bad : m <= k
  <2>1. Bad \subseteq Nat
    OBVIOUS
  <2> HIDE DEF Bad
  <2> QED
    BY <1>2, <2>1, LeastOf, Zenon
<1>4. m \in 1 .. n /\ ~ Has(m)
  OBVIOUS
<1>5. CASE m = 1
  <2> DEFINE f == [i \in 1 .. 1 |-> s[1]]
  <2>1. f \in [1 .. 1 -> Seq(S)]
    BY <1>1
  <2>2. f = [i \in 1 .. 1 |-> IF i = 1 THEN s[i] ELSE f[i - 1] \o s[i]]
    OBVIOUS
  <2>3. Joins(f, s, 1)
    BY <2>2 DEF Joins
  <2> QED
    BY <1>4, <1>5, <2>1, <2>3 DEF Has
<1>6. CASE m # 1
  <2>1. m - 1 \in 1 .. n /\ ~ (m <= m - 1)
    BY <1>1, <1>4, <1>6
  <2>2. Has(m - 1)
    BY <1>3, <2>1
  <2>3. PICK g \in [1 .. m - 1 -> Seq(S)] : Joins(g, s, m - 1)
    BY <2>2 DEF Has
  <2> DEFINE f == [i \in 1 .. m |-> IF i = m THEN g[m - 1] \o s[m] ELSE g[i]]
  <2>4. m - 1 \in 1 .. m - 1 /\ m \in Nat
    BY <1>1, <1>4, <2>1
  <2>5. g[m - 1] \o s[m] \in Seq(S)
    BY <1>1, <1>4, <2>4
  <2>6. \A i \in 1 .. m : i # m => i \in 1 .. m - 1 /\ (i # 1 => i - 1 \in 1 .. m /\ i - 1 # m)
    BY <2>4
  <2>7. f \in [1 .. m -> Seq(S)]
    BY <2>5, <2>6
  <2>8. \A i \in 1 .. m - 1 : g[i] = IF i = 1 THEN s[i] ELSE g[i - 1] \o s[i]
    BY <2>3, Zenon DEF Joins
  <2>9. \A i \in 1 .. m : f[i] = IF i = 1 THEN s[i] ELSE f[i - 1] \o s[i]
    <3> SUFFICES ASSUME NEW i \in 1 .. m
                 PROVE  f[i] = IF i = 1 THEN s[i] ELSE f[i - 1] \o s[i]
      BY Zenon
    <3>1. CASE i = m
      <4>1. m - 1 \in 1 .. m /\ m - 1 # m
        BY <2>4, <1>6
      <4>2. \A j \in 1 .. m : f[j] = IF j = m THEN g[m - 1] \o s[m] ELSE g[j]
        OBVIOUS
      <4>3. m \in 1 .. m
        BY <2>4
      <4> HIDE DEF f
      <4>4. f[m] = g[m - 1] \o s[m] /\ f[m - 1] = g[m - 1]
        BY <4>1, <4>2, <4>3, Zenon
      <4> QED
        BY <1>6, <3>1, <4>4, Zenon
    <3>2. CASE i # m
      <4>1. f[i] = g[i]
        BY <3>2
      <4>2. i # 1 => f[i - 1] = g[i - 1]
        BY <2>6, <3>2
      <4> QED
        BY <2>6, <2>8, <3>2, <4>1, <4>2, Zenon
    <3> QED
      BY <3>1, <3>2
  <2>10. Joins(f, s, m)
    BY <2>9, Zenon DEF Joins
  <2> QED
    BY <1>4, <2>7, <2>10, Zenon DEF Has
<1> QED
  BY <1>5, <1>6

\* and only one, which depends on those sequences only.
LEMMA JoinsUnique ==
    ASSUME NEW s, NEW t, NEW f, NEW g, NEW m \in Nat, NEW n \in Nat, m <= n,
           Agree(s, t, m), Joins(f, s, m), Joins(g, t, n)
    PROVE  Agree(f, g, m)
<1> DEFINE Bad == {i \in 1 .. m : f[i] # g[i]}
<1>1. SUFFICES ASSUME Bad # {} PROVE FALSE
  BY DEF Agree
<1>2. PICK j \in Bad : \A i \in Bad : j <= i
  <2>1. Bad \subseteq Nat
    OBVIOUS
  <2> HIDE DEF Bad
  <2> QED
    BY <1>1, <2>1, LeastOf, Zenon
<1>3. j \in 1 .. m /\ f[j] # g[j]
  OBVIOUS
<1>4. /\ f[j] = IF j = 1 THEN s[j] ELSE f[j - 1] \o s[j]
      /\ g[j] = IF j = 1 THEN t[j] ELSE g[j - 1] \o t[j]
      /\ s[j] = t[j]
  <2>1. j \in 1 .. m /\ j \in 1 .. n /\ s[j] = t[j]
    BY <1>3 DEF Agree
  <2> QED
    BY <2>1 DEF Joins
<1>5. j # 1 /\ f[j - 1] # g[j - 1]
  BY <1>3, <1>4
<1>6. j - 1 \in 1 .. m /\ ~ (j <= j - 1)
  BY <1>3, <1>5
<1> QED
  BY <1>2, <1>5, <1>6

\* So FlattenSeq joins one sequence after another.
LEMMA FlattenIs ==
    ASSUME NEW S, NEW s \in Seq(Seq(S))
    PROVE  /\ Trees!FlattenSeq(<<>>) = <<>>
           /\ s # <<>> => \E f \in [1 .. Len(s) -> Seq(S)] :
                 Joins(f, s, Len(s)) /\ Trees!FlattenSeq(s) = f[Len(s)]
<1>1. Trees!FlattenSeq(<<>>) = <<>>
  BY DEF Trees!FlattenSeq
<1>2. ASSUME s # <<>>
      PROVE  \E f \in [1 .. Len(s) -> Seq(S)] :
                Joins(f, s, Len(s)) /\ Trees!FlattenSeq(s) = f[Len(s)]
  <2> DEFINE n == Len(s)
             F == CHOOSE f : f = [i \in 1 .. n |-> IF i = 1 THEN s[i] ELSE f[i - 1] \o s[i]]
  <2>1. n \in Nat /\ n \in 1 .. n /\ n # 0
    BY <1>2
  <2>2. Trees!FlattenSeq(s) = F[n]
    BY <2>1 DEF Trees!FlattenSeq
  <2>3. PICK f \in [1 .. n -> Seq(S)] : Joins(f, s, n)
    BY <2>1, JoinsExists
  <2>4. F = [i \in 1 .. n |-> IF i = 1 THEN s[i] ELSE F[i - 1] \o s[i]]
    <3>1. f = [i \in 1 .. n |-> IF i = 1 THEN s[i] ELSE f[i - 1] \o s[i]]
      BY <2>3, Zenon DEF Joins
    <3>2. \E g : g = [i \in 1 .. n |-> IF i = 1 THEN s[i] ELSE g[i - 1] \o s[i]]
      BY <3>1, Zenon
    <3> QED
      BY <3>2, Zenon
  <2> HIDE DEF F, n
  <2>5. Joins(F, s, n)
    BY <2>4, Zenon DEF Joins
  <2>6. \A i \in 1 .. n : F[i] = f[i]
    <3>1. n <= n /\ Agree(s, s, n)
      BY <2>1 DEF Agree
    <3>2. Agree(F, f, n)
      BY <2>1, <2>3, <2>5, <3>1, JoinsUnique, Zenon
    <3> QED
      BY <3>2 DEF Agree
  <2>7. F = [i \in 1 .. n |-> F[i]]
    BY <2>4
  <2>8. F \in [1 .. n -> Seq(S)]
    BY <2>6, <2>7
  <2> QED
    BY <2>2, <2>5, <2>8, Zenon DEF n
<1> QED
  BY <1>1, <1>2

\* Of no sequences,
LEMMA FlattenNone == Trees!FlattenSeq(<<>>) = <<>>
BY DEF Trees!FlattenSeq

\* of any,
LEMMA FlattenType ==
    ASSUME NEW S, NEW s \in Seq(Seq(S))
    PROVE  Trees!FlattenSeq(s) \in Seq(S)
<1>1. CASE s = <<>>
  <2>1. Trees!FlattenSeq(s) = s
    BY <1>1 DEF Trees!FlattenSeq
  <2>2. <<>> \in Seq(S)
    OBVIOUS
  <2> QED
    BY <1>1, <2>1, <2>2, Zenon
<1>2. CASE s # <<>>
  <2>1. PICK f \in [1 .. Len(s) -> Seq(S)] : Trees!FlattenSeq(s) = f[Len(s)]
    BY <1>2, FlattenIs
  <2>2. Len(s) \in 1 .. Len(s)
    BY <1>2
  <2> QED
    BY <2>1, <2>2
<1> QED
  BY <1>1, <1>2

\* of some and one more,
LEMMA FlattenAppend ==
    ASSUME NEW S, NEW s \in Seq(Seq(S)), NEW x \in Seq(S)
    PROVE  Trees!FlattenSeq(Append(s, x)) = Trees!FlattenSeq(s) \o x
<1> DEFINE t == Append(s, x)
           n == Len(s)
<1>1. /\ t \in Seq(Seq(S)) /\ Len(t) = n + 1 /\ n \in Nat /\ t # <<>> /\ t[n + 1] = x
      /\ \A i \in 1 .. n : s[i] = t[i]
  <2>1. t \in Seq(Seq(S)) /\ Len(t) = n + 1 /\ n \in Nat
    OBVIOUS
  <2>2. t # <<>> /\ t[n + 1] = x
    <3>1. t # <<>>
      <4>1. Len(<<>>) = 0 /\ n + 1 # 0
        OBVIOUS
      <4> QED
        BY <2>1, <4>1, Zenon
    <3>2. t[n + 1] = x
      OBVIOUS
    <3> QED
      BY <3>1, <3>2
  <2>3. \A i \in 1 .. n : s[i] = t[i]
    OBVIOUS
  <2> QED
    BY <2>1, <2>2, <2>3
<1> HIDE DEF t
<1>2. PICK g \in [1 .. n + 1 -> Seq(S)] : Joins(g, t, n + 1) /\ Trees!FlattenSeq(t) = g[n + 1]
  BY <1>1, FlattenIs
<1>3. g[n + 1] = IF n = 0 THEN t[n + 1] ELSE g[n] \o t[n + 1]
  <2> HIDE DEF n
  <2> QED
    BY <1>1, <1>2, JoinsStep, Zenon
<1>4. CASE s = <<>>
  <2>1. Trees!FlattenSeq(s) = <<>> /\ n = 0
    BY <1>4, FlattenIs, Zenon
  <2>2. g[n + 1] = x
    BY <1>1, <1>3, <2>1
  <2> QED
    BY <1>2, <2>1, <2>2 DEF t
<1>5. CASE s # <<>>
  <2>1. PICK f \in [1 .. n -> Seq(S)] : Joins(f, s, n) /\ Trees!FlattenSeq(s) = f[n]
    BY <1>5, FlattenIs
  <2>2. n # 0 /\ n \in 1 .. n /\ n <= n /\ n <= n + 1 /\ n + 1 \in Nat /\ n + 1 - 1 = n /\ n + 1 # 1
    BY <1>1, <1>5
  <2>3. \A i \in 1 .. n : f[i] = g[i]
    <3>1. n \in Nat /\ n + 1 \in Nat /\ n <= n + 1 /\ Agree(s, t, n)
      BY <1>1, <2>2 DEF Agree
    <3>2. Joins(f, s, n) /\ Joins(g, t, n + 1)
      BY <1>2, <2>1
    <3> HIDE DEF n
    <3>3. Agree(f, g, n)
      BY <3>1, <3>2, JoinsUnique, Zenon
    <3> QED
      BY <3>3 DEF Agree
  <2>4. g[n + 1] = g[n] \o x
    BY <1>1, <1>3, <2>2
  <2> QED
    BY <1>2, <2>1, <2>2, <2>3, <2>4, Zenon DEF t
<1> QED
  BY <1>4, <1>5

\* and of some and some more.
LEMMA FlattenConcat ==
    ASSUME NEW S, NEW s \in Seq(Seq(S)), NEW t \in Seq(Seq(S))
    PROVE  Trees!FlattenSeq(s \o t) = Trees!FlattenSeq(s) \o Trees!FlattenSeq(t)
<1> DEFINE Right(u) == Trees!FlattenSeq(s \o u) = Trees!FlattenSeq(s) \o Trees!FlattenSeq(u)
           First(k) == SubSeq(t, 1, k)
           Bad == {k \in 0 .. Len(t) : ~ Right(First(k))}
<1>1. First(Len(t)) = t /\ Len(t) \in 0 .. Len(t)
  OBVIOUS
<1>2. SUFFICES ASSUME Bad # {} PROVE FALSE
  BY <1>1, Zenon
<1>3. PICK m \in Bad : \A k \in Bad : m <= k
  <2>1. Bad \subseteq Nat
    OBVIOUS
  <2> HIDE DEF Bad
  <2> QED
    BY <1>2, <2>1, LeastOf, Zenon
<1>4. m \in 0 .. Len(t) /\ ~ Right(First(m))
  OBVIOUS
<1>5. m # 0
  <2> SUFFICES ASSUME m = 0 PROVE FALSE
    OBVIOUS
  <2>1. First(m) = <<>> /\ s \o <<>> = s
    OBVIOUS
  <2>2. Trees!FlattenSeq(<<>>) = <<>> /\ Trees!FlattenSeq(s) \in Seq(S)
    BY FlattenIs, FlattenType
  <2>3. Trees!FlattenSeq(s) \o <<>> = Trees!FlattenSeq(s)
    BY <2>2
  <2> QED
    BY <1>4, <2>1, <2>2, <2>3, Zenon
<1>6. m - 1 \in 0 .. Len(t) /\ ~ (m <= m - 1)
  BY <1>4, <1>5
<1>7. Right(First(m - 1))
  BY <1>3, <1>6, Zenon
<1> DEFINE u == First(m - 1)
           x == t[m]
<1>8. u \in Seq(Seq(S)) /\ x \in Seq(S) /\ First(m) = Append(u, x)
  <2>1. m \in 1 .. Len(t)
    BY <1>4, <1>5
  <2>2. u \in Seq(Seq(S)) /\ x \in Seq(S) /\ First(m) \in Seq(Seq(S))
    BY <1>6, <2>1
  <2>3. Len(u) = m - 1 /\ Len(First(m)) = m /\ m \in Nat
    BY <1>6, <2>1
  <2>4. \A i \in 1 .. m : First(m)[i] = Append(u, x)[i]
    BY <2>1, <2>3
  <2>5. Append(u, x) \in Seq(Seq(S)) /\ Len(Append(u, x)) = m
    BY <2>2, <2>3
  <2> HIDE DEF u, x
  <2> QED
    BY <2>2, <2>3, <2>4, <2>5, SeqEqual, Zenon
<1>9. s \o Append(u, x) = Append(s \o u, x) /\ s \o u \in Seq(Seq(S))
  BY <1>8
<1> HIDE DEF u, x
<1>10. /\ Trees!FlattenSeq(Append(s \o u, x)) = Trees!FlattenSeq(s \o u) \o x
       /\ Trees!FlattenSeq(Append(u, x)) = Trees!FlattenSeq(u) \o x
  BY <1>8, <1>9, FlattenAppend, Zenon
<1>11. /\ Trees!FlattenSeq(s) \in Seq(S) /\ Trees!FlattenSeq(u) \in Seq(S)
  BY <1>8, FlattenType
<1>12. (Trees!FlattenSeq(s) \o Trees!FlattenSeq(u)) \o x = Trees!FlattenSeq(s) \o (Trees!FlattenSeq(u) \o x)
  BY <1>8, <1>11, SMTT(30)
<1>13. Right(u)
  BY <1>7 DEF u
<1> QED
  BY <1>4, <1>8, <1>9, <1>10, <1>12, <1>13, Zenon

\* The greatest of some numbers.
LEMMA MostOf ==
    ASSUME NEW N \in Nat, NEW S, S \subseteq 1 .. N, S # {}
    PROVE  \E x \in S : \A y \in S : y <= x
<1> DEFINE R == {N - x : x \in S}
<1>1. R \subseteq Nat /\ R # {}
  <2>1. PICK z \in S : TRUE
    BY Zenon
  <2>2. N - z \in R
    OBVIOUS
  <2> QED
    BY <2>2
<1>2. PICK r \in R : \A t \in R : r <= t
  <2> HIDE DEF R
  <2> QED
    BY <1>1, LeastOf, Zenon
<1>3. PICK x \in S : r = N - x
  OBVIOUS
<1>4. ASSUME NEW y \in S PROVE y <= x
  <2>1. r <= N - y
    BY <1>2
  <2> QED
    BY <1>3, <2>1
<1> QED
  BY <1>4

\* Nodes are numbered so that one comes before those it pushes.
Numbered ==
    /\ tree \in Seq(Seq(DOMAIN tree)) /\ DOMAIN tree = 1 .. Len(tree) /\ Len(tree) \in Nat
    /\ \A n \in DOMAIN tree : \A i \in DOMAIN tree[n] : n < tree[n][i]
    /\ roots \in Seq(DOMAIN tree) /\ hooks \subseteq Trees!Hooks

\* What a node of MCTrees pushes.
LEMMA OrdersAre ==
    ASSUME NEW S, NEW q \in Orders(S)
    PROVE  q \in Seq(S)
<1>1. PICK m \in 0 .. 3 : q \in [1 .. m -> S]
  BY DEF Orders, SeqOf
<1> QED
  BY <1>1

\* So are all that are checked.
LEMMA TreesNumbered ==
    ASSUME tree \in MCTrees, roots \in MCRoots, hooks \in SUBSET Trees!Hooks
    PROVE  Numbered
<1>1. PICK q \in Orders(2 .. 4), r \in Orders(3 .. 4), s \in Orders({4}) : tree = <<q, r, s, <<>>>>
  BY DEF MCTrees
<1>2. q \in Seq(2 .. 4) /\ r \in Seq(3 .. 4) /\ s \in Seq({4})
  BY OrdersAre
<1>3. DOMAIN tree = 1 .. 4 /\ Len(tree) = 4
  BY <1>1
<1>4. tree[1] = q /\ tree[2] = r /\ tree[3] = s /\ tree[4] = <<>>
  BY <1>1
<1>5. \A n \in 1 .. 4 : n = 1 \/ n = 2 \/ n = 3 \/ n = 4
  OBVIOUS
<1>6. q \in Seq(1 .. 4) /\ r \in Seq(1 .. 4) /\ s \in Seq(1 .. 4) /\ <<>> \in Seq(1 .. 4)
  BY <1>2
<1>7. tree \in Seq(Seq(1 .. 4))
  BY <1>1, <1>6
<1>8. ASSUME NEW n \in 1 .. 4, NEW i \in DOMAIN tree[n] PROVE n < tree[n][i]
  <2>1. CASE n = 1
    BY <1>2, <1>4, <2>1
  <2>2. CASE n = 2
    BY <1>2, <1>4, <2>2
  <2>3. CASE n = 3
    BY <1>2, <1>4, <2>3
  <2>4. CASE n = 4
    BY <1>4, <2>4
  <2> QED
    BY <1>5, <2>1, <2>2, <2>3, <2>4
<1>9. roots \in Seq(1 .. 4)
  <2>1. <<>> \in Seq(1 .. 4) /\ <<1>> \in Seq(1 .. 4) /\ <<2, 1>> \in Seq(1 .. 4)
    OBVIOUS
  <2>2. roots \in {<<>>, <<1>>, <<2, 1>>}
    BY DEF MCRoots
  <2> QED
    BY <2>1, <2>2, Zenon
<1> QED
  BY <1>3, <1>7, <1>8, <1>9 DEF Numbered

\* What is called, what is called for the nodes one pushes, and from a node on.
Events == [tag : Trees!Hooks \union {"node"}, node : Nat]
Kids(f, n) ==
    [i \in DOMAIN Trees!Reverse(tree[n]) |->
       (IF i = Len(Trees!Reverse(tree[n])) THEN Trees!IfHas("last") ELSE <<>>)
       \o f[Trees!Reverse(tree[n])[i]]]
Around(f, n) ==
    IF tree[n] = <<>> THEN <<Trees!Node(n)>>
    ELSE <<Trees!Node(n)>> \o Trees!IfHas("enter") \o Trees!FlattenSeq(Kids(f, n))
         \o Trees!IfHas("exit")

\* What is documented, as the fixed point that it is.
LEMMA BelowIs == Trees!Below = CHOOSE f : f = [n \in DOMAIN tree |-> Around(f, n)]
BY Zenon DEF Trees!Below, Around, Kids

\* Tags are not nodes.
LEMMA EventTypes ==
    /\ \A h \in Trees!Hooks : Trees!Tag(h) \in Events /\ Trees!Tag(h).tag = h /\ h # "node"
    /\ \A n \in Nat : Trees!Node(n) \in Events /\ Trees!Node(n).tag = "node" /\ Trees!Node(n).node = n
    /\ \A h \in Trees!Hooks : Trees!IfHas(h) \in Seq(Events)
<1>1. \A h \in Trees!Hooks : Trees!Tag(h) \in Events /\ Trees!Tag(h).tag = h /\ h # "node"
  BY DEF Trees!Tag, Trees!Hooks, Events
<1>2. \A n \in Nat : Trees!Node(n) \in Events /\ Trees!Node(n).tag = "node" /\ Trees!Node(n).node = n
  BY DEF Trees!Node, Events
<1>3. \A h \in Trees!Hooks : Trees!IfHas(h) \in Seq(Events)
  BY <1>1 DEF Trees!IfHas
<1> QED
  BY <1>1, <1>2, <1>3

\* What Reverse returns.
LEMMA ReverseIs ==
    ASSUME NEW S, NEW s \in Seq(S)
    PROVE  /\ Trees!Reverse(s) \in Seq(S) /\ Len(Trees!Reverse(s)) = Len(s)
           /\ DOMAIN Trees!Reverse(s) = 1 .. Len(s)
           /\ \A i \in 1 .. Len(s) : Trees!Reverse(s)[i] = s[(Len(s) - i) + 1]
<1>1. \A i \in 1 .. Len(s) : (Len(s) - i) + 1 \in 1 .. Len(s)
  OBVIOUS
<1>2. Trees!Reverse(s) = [i \in 1 .. Len(s) |-> s[(Len(s) - i) + 1]]
  BY DEF Trees!Reverse
<1>3. \A i \in 1 .. Len(s) : s[(Len(s) - i) + 1] \in S
  BY <1>1
<1> QED
  BY <1>2, <1>3

\* What is called below a node depends on what is called below those it pushes.
LEMMA KidsAre ==
    ASSUME Numbered, NEW n \in DOMAIN tree, NEW f, NEW g,
           \A k \in DOMAIN tree : n < k => f[k] \in Seq(Events) /\ f[k] = g[k]
    PROVE  Kids(f, n) \in Seq(Seq(Events)) /\ Kids(f, n) = Kids(g, n)
<1> DEFINE r == Trees!Reverse(tree[n])
<1>1. tree[n] \in Seq(DOMAIN tree)
  BY DEF Numbered
<1>2. /\ r \in Seq(DOMAIN tree) /\ Len(r) = Len(tree[n]) /\ DOMAIN r = 1 .. Len(r) /\ Len(r) \in Nat
      /\ \A i \in 1 .. Len(r) : r[i] = tree[n][(Len(r) - i) + 1]
  BY <1>1, ReverseIs
<1> HIDE DEF r
<1>3. \A i \in 1 .. Len(r) : r[i] \in DOMAIN tree /\ n < r[i]
  <2>1. \A i \in 1 .. Len(r) : (Len(r) - i) + 1 \in DOMAIN tree[n]
    BY <1>1, <1>2
  <2>2. \A i \in 1 .. Len(r) : r[i] \in DOMAIN tree
    BY <1>2
  <2> QED
    BY <1>2, <2>1, <2>2 DEF Numbered
<1>4. \A i \in 1 .. Len(r) : f[r[i]] \in Seq(Events) /\ f[r[i]] = g[r[i]]
  BY <1>3
<1>5. Trees!IfHas("last") \in Seq(Events) /\ <<>> \in Seq(Events)
  BY EventTypes DEF Trees!Hooks
<1>6. \A i \in 1 .. Len(r) :
         /\ (IF i = Len(r) THEN Trees!IfHas("last") ELSE <<>>) \o f[r[i]] \in Seq(Events)
  BY <1>4, <1>5
<1>7. /\ Kids(f, n) = [i \in DOMAIN r |->
                         (IF i = Len(r) THEN Trees!IfHas("last") ELSE <<>>) \o f[r[i]]]
      /\ Kids(g, n) = [i \in DOMAIN r |->
                         (IF i = Len(r) THEN Trees!IfHas("last") ELSE <<>>) \o g[r[i]]]
  BY DEF Kids, r
<1>8. Kids(f, n) \in Seq(Seq(Events))
  <2> DEFINE e(i) == (IF i = Len(r) THEN Trees!IfHas("last") ELSE <<>>) \o f[r[i]]
  <2>1. Kids(f, n) = [i \in 1 .. Len(r) |-> e(i)]
    BY <1>2, <1>7
  <2>2. \A i \in 1 .. Len(r) : e(i) \in Seq(Events)
    BY <1>6
  <2> HIDE DEF e
  <2> QED
    BY <1>2, <2>1, <2>2
<1>9. Kids(f, n) = Kids(g, n)
  BY <1>2, <1>4, <1>7, Zenon
<1> QED
  BY <1>8, <1>9

\* So does what is called from the node on.
LEMMA AroundIs ==
    ASSUME Numbered, NEW n \in DOMAIN tree, NEW f, NEW g,
           \A k \in DOMAIN tree : n < k => f[k] \in Seq(Events) /\ f[k] = g[k]
    PROVE  Around(f, n) \in Seq(Events) /\ Around(f, n) = Around(g, n)
<1>1. Kids(f, n) \in Seq(Seq(Events)) /\ Kids(f, n) = Kids(g, n)
  BY KidsAre
<1>2. Trees!FlattenSeq(Kids(f, n)) \in Seq(Events)
  BY <1>1, FlattenType
<1>3. /\ <<Trees!Node(n)>> \in Seq(Events)
      /\ Trees!IfHas("enter") \in Seq(Events) /\ Trees!IfHas("exit") \in Seq(Events)
  <2>1. n \in Nat
    BY DEF Numbered
  <2> QED
    BY <2>1, EventTypes DEF Trees!Hooks
<1>4. Around(f, n) = Around(g, n)
  BY <1>1 DEF Around
<1>5. Around(f, n) \in Seq(Events)
  BY <1>2, <1>3 DEF Around
<1> QED
  BY <1>4, <1>5

\* What is called below each node is therefore defined, and is what it says.
LEMMA BelowExists ==
    ASSUME Numbered
    PROVE  \E f \in [DOMAIN tree -> Seq(Events)] : \A n \in DOMAIN tree : f[n] = Around(f, n)
<1> DEFINE N == Len(tree)
           Has(m) == \E f \in [m .. N -> Seq(Events)] : \A n \in m .. N : f[n] = Around(f, n)
           Bad == {m \in 1 .. N : ~ Has(m)}
<1>1. N \in Nat /\ DOMAIN tree = 1 .. N
  BY DEF Numbered
<1> HIDE DEF N
<1>2. SUFFICES ASSUME Bad # {} PROVE FALSE
  <2>1. CASE N = 0
    <3> DEFINE f == [n \in DOMAIN tree |-> <<>>]
    <3>1. DOMAIN tree = {}
      BY <1>1, <2>1
    <3>2. f \in [DOMAIN tree -> Seq(Events)] /\ \A n \in DOMAIN tree : f[n] = Around(f, n)
      BY <3>1
    <3> QED
      BY <3>2, Zenon
  <2>2. CASE N # 0
    BY <1>1, <2>2, SMTT(30)
  <2> QED
    BY <2>1, <2>2
<1> HIDE DEF Has
<1>3. PICK m \in Bad : \A k \in Bad : k <= m
  <2>1. Bad \subseteq 1 .. N
    OBVIOUS
  <2> HIDE DEF Bad
  <2> QED
    BY <1>1, <1>2, <2>1, MostOf, Zenon
<1>4. m \in 1 .. N /\ ~ Has(m)
  OBVIOUS
<1>5. \E g \in [m + 1 .. N -> Seq(Events)] : \A n \in m + 1 .. N : g[n] = Around(g, n)
  <2>1. CASE m = N
    <3> DEFINE g == [n \in m + 1 .. N |-> <<>>]
    <3>1. m + 1 .. N = {}
      BY <1>1, <2>1
    <3>2. g \in [m + 1 .. N -> Seq(Events)] /\ \A n \in m + 1 .. N : g[n] = Around(g, n)
      BY <3>1
    <3> QED
      BY <3>2, Zenon
  <2>2. CASE m # N
    <3>1. m + 1 \in 1 .. N /\ ~ (m + 1 <= m)
      BY <1>1, <1>4, <2>2
    <3>2. Has(m + 1)
      BY <1>3, <3>1
    <3> QED
      BY <3>2, Zenon DEF Has
  <2> QED
    BY <2>1, <2>2
<1>6. PICK g \in [m + 1 .. N -> Seq(Events)] : \A n \in m + 1 .. N : g[n] = Around(g, n)
  BY <1>5, Zenon
<1> DEFINE f == [n \in m .. N |-> IF n = m THEN Around(g, m) ELSE g[n]]
<1>7. \A n \in m .. N : n \in DOMAIN tree /\ (n # m => n \in m + 1 .. N)
  BY <1>1, <1>4
<1>8. \A n \in m .. N : f[n] = IF n = m THEN Around(g, m) ELSE g[n]
  OBVIOUS
<1>9. \A n \in m .. N : \A k \in DOMAIN tree : n < k => k \in m + 1 .. N /\ k \in m .. N /\ k # m
  BY <1>1, <1>4
<1>10. \A n \in m .. N : \A k \in DOMAIN tree : n < k => g[k] \in Seq(Events) /\ g[k] = f[k]
  <2> HIDE DEF f
  <2> QED
    BY <1>6, <1>8, <1>9
<1>11. \A n \in m .. N : Around(g, n) \in Seq(Events) /\ Around(g, n) = Around(f, n)
  <2> HIDE DEF f
  <2> QED
    BY <1>7, <1>10, AroundIs, Zenon
<1>12. f \in [m .. N -> Seq(Events)]
  <2>1. m \in m .. N
    BY <1>1, <1>4
  <2>2. \A n \in m .. N : (IF n = m THEN Around(g, m) ELSE g[n]) \in Seq(Events)
    BY <1>6, <1>7, <1>11, <2>1, Zenon
  <2> QED
    BY <2>2
<1>13. \A n \in m .. N : f[n] = Around(f, n)
  <2> HIDE DEF f
  <2>1. \A n \in m .. N : f[n] = Around(g, n)
    BY <1>6, <1>7, <1>8
  <2> QED
    BY <1>11, <2>1
<1> HIDE DEF f
<1>14. Has(m)
  BY <1>12, <1>13, Zenon DEF Has
<1> QED
  BY <1>4, <1>14

\* It is what the documentation says at every node.
LEMMA BelowUnfolds ==
    ASSUME Numbered
    PROVE  \A n \in DOMAIN tree :
              Trees!Below[n] = Around(Trees!Below, n) /\ Trees!Below[n] \in Seq(Events)
<1>1. PICK f \in [DOMAIN tree -> Seq(Events)] : \A n \in DOMAIN tree : f[n] = Around(f, n)
  BY BelowExists
<1>2. f = [n \in DOMAIN tree |-> Around(f, n)]
  BY <1>1
<1>3. \E g : g = [n \in DOMAIN tree |-> Around(g, n)]
  BY <1>2, Zenon
<1> DEFINE B == Trees!Below
<1>4. B = [n \in DOMAIN tree |-> Around(B, n)]
  BY <1>3, BelowIs, Zenon
<1> HIDE DEF B
<1>5. \A n \in DOMAIN tree : B[n] = Around(B, n)
  BY <1>4, Zenon
<1>6. \A n \in DOMAIN tree : B[n] \in Seq(Events)
  <2> DEFINE Bad == {n \in DOMAIN tree : B[n] \notin Seq(Events)}
  <2>1. SUFFICES ASSUME Bad # {} PROVE FALSE
    OBVIOUS
  <2>2. PICK n \in Bad : \A k \in Bad : k <= n
    <3>1. Bad \subseteq 1 .. Len(tree) /\ Len(tree) \in Nat
      BY DEF Numbered
    <3> HIDE DEF Bad
    <3> QED
      BY <2>1, <3>1, MostOf, Zenon
  <2>3. n \in DOMAIN tree /\ B[n] \notin Seq(Events)
    OBVIOUS
  <2>4. \A k \in DOMAIN tree : n < k => ~ (k <= n)
    BY <2>3 DEF Numbered
  <2>5. \A k \in DOMAIN tree : n < k => B[k] \in Seq(Events) /\ B[k] = B[k]
    BY <2>2, <2>4
  <2>6. Around(B, n) \in Seq(Events)
    <3> HIDE DEF Bad
    <3> QED
      BY <2>3, <2>5, AroundIs
  <2> QED
    BY <1>5, <2>3, <2>6
<1> QED
  BY <1>5, <1>6 DEF B

\* What is called for what lies on the stack, from its top.
Part(e) == IF e.tag = "node" THEN Trees!Below[e.node] ELSE <<e>>
ToCome(s) == Trees!FlattenSeq([i \in 1 .. Len(s) |-> Part(s[(Len(s) - i) + 1])])
\* What may lie on the stack.
Stacked == {Trees!Tag(h) : h \in Trees!Hooks} \union {Trees!Node(n) : n \in DOMAIN tree}

\* The invariant: what was called and what is to come are what is documented.
TreeInv ==
    /\ Numbered
    /\ stack \in Seq(Stacked) /\ events \in Seq(Events)
    /\ events \o ToCome(stack) = Trees!Expected

\* Tags call once, nodes what is below them.
LEMMA PartIs ==
    ASSUME Numbered
    PROVE  /\ Stacked \subseteq Events
           /\ \A e \in Stacked : Part(e) \in Seq(Events)
           /\ \A h \in Trees!Hooks : Trees!Tag(h) \in Stacked /\ Part(Trees!Tag(h)) = <<Trees!Tag(h)>>
           /\ \A n \in DOMAIN tree : Trees!Node(n) \in Stacked /\ Part(Trees!Node(n)) = Trees!Below[n]
<1>1. DOMAIN tree \subseteq Nat
  BY DEF Numbered
<1>2. \A h \in Trees!Hooks :
         Trees!Tag(h) \in Stacked /\ Trees!Tag(h) \in Events /\ Part(Trees!Tag(h)) = <<Trees!Tag(h)>>
  BY EventTypes DEF Part, Stacked
<1>3. \A n \in DOMAIN tree :
         Trees!Node(n) \in Stacked /\ Trees!Node(n) \in Events /\ Part(Trees!Node(n)) = Trees!Below[n]
  BY <1>1, EventTypes DEF Part, Stacked
<1>4. Stacked \subseteq Events
  BY <1>2, <1>3 DEF Stacked
<1>5. \A e \in Stacked : Part(e) \in Seq(Events)
  <2>1. \A h \in Trees!Hooks : Part(Trees!Tag(h)) \in Seq(Events)
    <3>1. \A e \in Events : <<e>> \in Seq(Events)
      OBVIOUS
    <3> QED
      BY <1>2, <3>1, Zenon
  <2>2. \A n \in DOMAIN tree : Part(Trees!Node(n)) \in Seq(Events)
    BY <1>3, BelowUnfolds
  <2> QED
    BY <2>1, <2>2 DEF Stacked
<1> QED
  BY <1>2, <1>3, <1>4, <1>5

\* Both for each entry, and in all.
LEMMA PartsType ==
    ASSUME Numbered, NEW s \in Seq(Stacked)
    PROVE  /\ [i \in 1 .. Len(s) |-> Part(s[(Len(s) - i) + 1])] \in Seq(Seq(Events))
           /\ ToCome(s) \in Seq(Events)
<1>1. \A i \in 1 .. Len(s) : (Len(s) - i) + 1 \in 1 .. Len(s)
  OBVIOUS
<1>2. \A i \in 1 .. Len(s) : Part(s[(Len(s) - i) + 1]) \in Seq(Events)
  BY <1>1, PartIs
<1>3. [i \in 1 .. Len(s) |-> Part(s[(Len(s) - i) + 1])] \in Seq(Seq(Events))
  <2> DEFINE e(i) == Part(s[(Len(s) - i) + 1])
  <2>1. \A i \in 1 .. Len(s) : e(i) \in Seq(Events)
    BY <1>2
  <2> HIDE DEF e
  <2>2. [i \in 1 .. Len(s) |-> e(i)] \in Seq(Seq(Events))
    BY <2>1
  <2> QED
    BY <2>2 DEF e
<1> QED
  BY <1>3, FlattenType, Zenon DEF ToCome

\* The upper part of a stack comes first.
LEMMA ToComeConcat ==
    ASSUME Numbered, NEW s \in Seq(Stacked), NEW t \in Seq(Stacked)
    PROVE  ToCome(s \o t) = ToCome(t) \o ToCome(s)
<1> DEFINE P(u) == [i \in 1 .. Len(u) |-> Part(u[(Len(u) - i) + 1])]
<1>1. P(s) \in Seq(Seq(Events)) /\ P(t) \in Seq(Seq(Events))
  BY PartsType
<1>2. s \o t \in Seq(Stacked) /\ Len(s \o t) = Len(s) + Len(t) /\ Len(s) \in Nat /\ Len(t) \in Nat
  OBVIOUS
<1>3. \A i \in 1 .. Len(s) + Len(t) :
         (s \o t)[((Len(s) + Len(t)) - i) + 1]
         = IF i <= Len(t) THEN t[(Len(t) - i) + 1] ELSE s[(Len(s) - (i - Len(t))) + 1]
  <2> SUFFICES ASSUME NEW i \in 1 .. Len(s) + Len(t)
               PROVE  (s \o t)[((Len(s) + Len(t)) - i) + 1]
                      = IF i <= Len(t) THEN t[(Len(t) - i) + 1] ELSE s[(Len(s) - (i - Len(t))) + 1]
    OBVIOUS
  <2> DEFINE j == ((Len(s) + Len(t)) - i) + 1
  <2>1. j \in 1 .. Len(s) + Len(t)
    BY <1>2
  <2>2. (s \o t)[j] = IF j <= Len(s) THEN s[j] ELSE t[j - Len(s)]
    <3> HIDE DEF j
    <3> QED
      BY <2>1
  <2>3. CASE i <= Len(t)
    <3>1. ~ (j <= Len(s)) /\ j - Len(s) = (Len(t) - i) + 1
      BY <1>2, <2>3
    <3> QED
      BY <2>2, <2>3, <3>1
  <2>4. CASE ~ (i <= Len(t))
    <3>1. j <= Len(s) /\ j = (Len(s) - (i - Len(t))) + 1
      BY <1>2, <2>4
    <3> QED
      BY <2>2, <2>4, <3>1
  <2> QED
    BY <2>3, <2>4
<1>4. P(s \o t) = P(t) \o P(s)
  <2>1. P(t) \o P(s) \in Seq(Seq(Events)) /\ Len(P(t) \o P(s)) = Len(t) + Len(s)
    BY <1>1
  <2>2. P(s \o t) \in Seq(Seq(Events)) /\ Len(P(s \o t)) = Len(s) + Len(t)
    <3>1. P(s \o t) \in Seq(Seq(Events))
      BY <1>2, PartsType, Zenon
    <3>2. Len(P(s \o t)) = Len(s \o t)
      BY <1>2
    <3> QED
      BY <1>2, <3>1, <3>2
  <2>3. \A i \in 1 .. Len(s) + Len(t) : P(s \o t)[i] = Part((s \o t)[((Len(s) + Len(t)) - i) + 1])
    BY <1>2
  <2>4. \A i \in 1 .. Len(s) + Len(t) :
           (P(t) \o P(s))[i] = Part(IF i <= Len(t) THEN t[(Len(t) - i) + 1]
                                    ELSE s[(Len(s) - (i - Len(t))) + 1])
    <3>1. Len(P(t)) = Len(t) /\ Len(P(s)) = Len(s)
      BY <1>2
    <3>2. /\ \A i \in 1 .. Len(t) : P(t)[i] = Part(t[(Len(t) - i) + 1])
          /\ \A i \in 1 .. Len(s) : P(s)[i] = Part(s[(Len(s) - i) + 1])
      OBVIOUS
    <3> HIDE DEF P
    <3>3. \A i \in 1 .. Len(s) + Len(t) :
             (P(t) \o P(s))[i] = IF i <= Len(t) THEN P(t)[i] ELSE P(s)[i - Len(t)]
      BY <1>1, <1>2, <3>1
    <3>4. \A i \in 1 .. Len(s) + Len(t) :
             /\ i <= Len(t) => i \in 1 .. Len(t)
             /\ ~ (i <= Len(t)) => i - Len(t) \in 1 .. Len(s)
      BY <1>2
    <3> QED
      BY <3>2, <3>3, <3>4, Zenon
  <2> HIDE DEF P
  <2>5. \A i \in 1 .. Len(s) + Len(t) : P(s \o t)[i] = (P(t) \o P(s))[i]
    BY <1>3, <2>3, <2>4, Zenon
  <2> DEFINE p == P(s \o t)
             q == P(t) \o P(s)
  <2>6. p \in Seq(Seq(Events)) /\ q \in Seq(Seq(Events)) /\ Len(p) = Len(q)
    BY <1>2, <2>1, <2>2
  <2>7. \A i \in 1 .. Len(p) : p[i] = q[i]
    BY <2>2, <2>5, Zenon
  <2> HIDE DEF p, q
  <2>8. p = q
    BY <2>6, <2>7, SeqEqual
  <2> QED
    BY <2>8 DEF p, q
<1>5. /\ ToCome(s \o t) = Trees!FlattenSeq(P(s \o t))
      /\ ToCome(s) = Trees!FlattenSeq(P(s)) /\ ToCome(t) = Trees!FlattenSeq(P(t))
  BY DEF ToCome
<1> HIDE DEF P
<1> QED
  <2>1. Trees!FlattenSeq(P(t) \o P(s)) = Trees!FlattenSeq(P(t)) \o Trees!FlattenSeq(P(s))
    <3> DEFINE p == P(s)
               q == P(t)
    <3>1. p \in Seq(Seq(Events)) /\ q \in Seq(Seq(Events))
      BY <1>1
    <3> HIDE DEF p, q
    <3>2. Trees!FlattenSeq(q \o p) = Trees!FlattenSeq(q) \o Trees!FlattenSeq(p)
      BY <3>1, FlattenConcat
    <3> QED
      BY <3>2 DEF p, q
  <2> QED
    BY <1>4, <1>5, <2>1

\* For one entry,
LEMMA ToComeOne ==
    ASSUME Numbered, NEW e \in Stacked
    PROVE  ToCome(<<e>>) = Part(e)
<1>1. [i \in 1 .. Len(<<e>>) |-> Part(<<e>>[(Len(<<e>>) - i) + 1])] = <<Part(e)>>
  OBVIOUS
<1>2. Part(e) \in Seq(Events) /\ <<>> \in Seq(Seq(Events))
  BY PartIs
<1>3. <<Part(e)>> = Append(<<>>, Part(e))
  OBVIOUS
<1>4. Trees!FlattenSeq(Append(<<>>, Part(e))) = Trees!FlattenSeq(<<>>) \o Part(e)
  BY <1>2, FlattenAppend, Zenon
<1>5. Trees!FlattenSeq(<<>>) \o Part(e) = Part(e)
  BY <1>2, FlattenNone
<1> QED
  BY <1>1, <1>3, <1>4, <1>5, Zenon DEF ToCome

\* for none,
LEMMA ToComeNone == Numbered => ToCome(<<>>) = <<>>
<1>1. [i \in 1 .. Len(<<>>) |-> Part(<<>>[(Len(<<>>) - i) + 1])] = <<>>
  OBVIOUS
<1> QED
  BY <1>1, FlattenNone DEF ToCome

\* and for the tag of a function, if the traverser has it.
LEMMA HookToCome ==
    ASSUME Numbered, NEW h \in Trees!Hooks
    PROVE  Trees!IfHas(h) \in Seq(Stacked) /\ ToCome(Trees!IfHas(h)) = Trees!IfHas(h)
<1>1. Trees!Tag(h) \in Stacked /\ Part(Trees!Tag(h)) = <<Trees!Tag(h)>>
  BY PartIs
<1>2. ToCome(<<Trees!Tag(h)>>) = <<Trees!Tag(h)>> /\ ToCome(<<>>) = <<>>
  BY <1>1, ToComeOne, ToComeNone
<1> QED
  BY <1>1, <1>2 DEF Trees!IfHas

\* Nodes, from the numbers of them.
LEMMA NodesAre ==
    ASSUME Numbered, NEW s \in Seq(DOMAIN tree)
    PROVE  /\ Trees!Nodes(s) \in Seq(Stacked) /\ Len(Trees!Nodes(s)) = Len(s)
           /\ \A i \in 1 .. Len(s) : Trees!Nodes(s)[i] = Trees!Node(s[i])
<1>1. Trees!Nodes(s) = [i \in 1 .. Len(s) |-> Trees!Node(s[i])]
  BY DEF Trees!Nodes
<1>2. \A i \in 1 .. Len(s) : Trees!Node(s[i]) \in Stacked
  BY PartIs
<1> QED
  BY <1>1, <1>2

\* The nodes that a node pushes are visited from the last to the first.
LEMMA KidsToCome ==
    ASSUME Numbered, NEW n \in DOMAIN tree, tree[n] # <<>>
    PROVE  /\ tree[n][1] \in DOMAIN tree /\ Tail(tree[n]) \in Seq(DOMAIN tree)
           /\ Trees!FlattenSeq(Kids(Trees!Below, n))
              = ToCome(Trees!Nodes(Tail(tree[n]))) \o (Trees!IfHas("last") \o Trees!Below[tree[n][1]])
<1> DEFINE p == tree[n]
           m == Len(p)
           r == Trees!Reverse(p)
           tn == Trees!Nodes(Tail(p))
           B == Trees!Below
           F == [i \in 1 .. Len(tn) |-> Part(tn[(Len(tn) - i) + 1])]
           x == Trees!IfHas("last") \o B[p[1]]
<1>1. p \in Seq(DOMAIN tree) /\ m \in Nat /\ m # 0
  BY DEF Numbered
<1>2. p[1] \in DOMAIN tree /\ Tail(p) \in Seq(DOMAIN tree) /\ Len(Tail(p)) = m - 1
  BY <1>1
<1>3. \A i \in 1 .. m - 1 : Tail(p)[i] = p[i + 1]
  BY <1>1
<1>4. /\ Len(r) = m /\ DOMAIN r = 1 .. m
      /\ \A i \in 1 .. m : r[i] = p[(m - i) + 1] /\ (m - i) + 1 \in 1 .. m /\ r[i] \in DOMAIN tree
  <2>1. \A i \in 1 .. m : (m - i) + 1 \in 1 .. m
    BY <1>1
  <2>2. /\ Len(r) = m /\ DOMAIN r = 1 .. m /\ r \in Seq(DOMAIN tree)
        /\ \A i \in 1 .. m : r[i] = p[(m - i) + 1]
    BY <1>1, ReverseIs
  <2> HIDE DEF p, r, m
  <2> QED
    BY <1>1, <2>1, <2>2
<1>5. /\ tn \in Seq(Stacked) /\ Len(tn) = m - 1
      /\ \A i \in 1 .. m - 1 : tn[i] = Trees!Node(p[i + 1])
  BY <1>2, <1>3, NodesAre, Zenon
<1>6. /\ B[p[1]] \in Seq(Events) /\ Trees!IfHas("last") \in Seq(Events)
      /\ \A i \in 1 .. m : B[r[i]] \in Seq(Events)
  BY <1>2, <1>4, BelowUnfolds, EventTypes DEF Trees!Hooks
<1>7. Kids(B, n) = [i \in 1 .. m |-> (IF i = m THEN Trees!IfHas("last") ELSE <<>>) \o B[r[i]]]
  BY <1>4 DEF Kids
<1>8. F \in Seq(Seq(Events)) /\ x \in Seq(Events)
  BY <1>5, <1>6, PartsType
<1>9. \A i \in 1 .. m - 1 : F[i] = B[r[i]]
  <2> SUFFICES ASSUME NEW i \in 1 .. m - 1 PROVE F[i] = B[r[i]]
    BY Zenon
  <2>1. F[i] = Part(tn[((m - 1) - i) + 1])
    BY <1>5
  <2>2. ((m - 1) - i) + 1 \in 1 .. m - 1 /\ (((m - 1) - i) + 1) + 1 = (m - i) + 1 /\ i \in 1 .. m
    BY <1>1
  <2> HIDE DEF p, r, tn, m, F, B
  <2>3. tn[((m - 1) - i) + 1] = Trees!Node(p[(m - i) + 1])
    BY <1>5, <2>2
  <2>4. r[i] = p[(m - i) + 1] /\ r[i] \in DOMAIN tree
    BY <1>4, <2>2
  <2> QED
    BY <2>1, <2>3, <2>4, PartIs DEF B
<1>10. Kids(B, n) = Append(F, x)
  <2>1. Append(F, x) \in Seq(Seq(Events)) /\ Len(Append(F, x)) = m /\ Len(F) = m - 1
    BY <1>1, <1>5, <1>8
  <2>2. Kids(B, n) \in Seq(Seq(Events))
    <3>1. \A k \in DOMAIN tree : n < k => B[k] \in Seq(Events) /\ B[k] = B[k]
      BY BelowUnfolds
    <3> HIDE DEF B
    <3> QED
      BY <3>1, KidsAre
  <2>3. Len(Kids(B, n)) = m
    BY <1>1, <1>7
  <2>4. \A i \in 1 .. m : Kids(B, n)[i] = Append(F, x)[i]
    <3> SUFFICES ASSUME NEW i \in 1 .. m PROVE Kids(B, n)[i] = Append(F, x)[i]
      BY Zenon
    <3>0. Kids(B, n)[i] = (IF i = m THEN Trees!IfHas("last") ELSE <<>>) \o B[r[i]]
      BY <1>7, Zenon
    <3>1. CASE i = m
      <4>1. (m - m) + 1 = 1 /\ r[m] = p[(m - m) + 1]
        BY <1>1, <1>4
      <4>2. r[m] = p[1]
        BY <4>1
      <4>3. Append(F, x)[m] = x
        <5> HIDE DEF F, x, m
        <5> QED
          BY <1>1, <1>8, <2>1
      <4> HIDE DEF F, p, r, m, B
      <4> QED
        BY <3>0, <3>1, <4>2, <4>3, Zenon
    <3>2. CASE i # m
      <4>1. i \in 1 .. m - 1
        BY <1>1, <3>2
      <4>2. Append(F, x)[i] = F[i]
        <5> HIDE DEF F, x, m
        <5> QED
          BY <1>1, <1>8, <2>1, <4>1
      <4>3. <<>> \o B[r[i]] = B[r[i]]
        BY <1>6
      <4> HIDE DEF F, p, r, m, B
      <4> QED
        BY <1>9, <3>0, <3>2, <4>1, <4>2, <4>3, Zenon
    <3> QED
      BY <3>1, <3>2, Zenon
  <2> DEFINE k == Kids(B, n)
             q == Append(F, x)
  <2>6. k \in Seq(Seq(Events)) /\ q \in Seq(Seq(Events)) /\ Len(k) = Len(q)
    BY <2>1, <2>2, <2>3
  <2>7. \A i \in 1 .. Len(k) : k[i] = q[i]
    BY <2>3, <2>4, Zenon
  <2> HIDE DEF k, q
  <2>8. k = q
    BY <2>6, <2>7, SeqEqual
  <2> QED
    BY <2>8 DEF k, q
<1>11. Trees!FlattenSeq(Append(F, x)) = Trees!FlattenSeq(F) \o x
  <2> HIDE DEF F, x
  <2> QED
    BY <1>8, FlattenAppend
<1>12. ToCome(tn) = Trees!FlattenSeq(F)
  BY DEF ToCome
<1> QED
  BY <1>2, <1>10, <1>11, <1>12, Zenon

\* Concatenation is associative.
LEMMA Regroup ==
    ASSUME NEW S, NEW a \in Seq(S), NEW b \in Seq(S), NEW c \in Seq(S)
    PROVE  (a \o b) \o c = a \o (b \o c) /\ a \o b \in Seq(S) /\ b \o c \in Seq(S)
OBVIOUS

\* Concatenation, as an operator of its own.
Joined(a, b) == a \o b

\* Six of them, grouped as what is to come and as documented.
LEMMA RegroupAll ==
    ASSUME NEW S, NEW z \in Seq(S), NEW a \in Seq(S), NEW b \in Seq(S), NEW c \in Seq(S),
           NEW d \in Seq(S), NEW e \in Seq(S)
    PROVE  Joined(z, Joined(Joined(a, b), Joined(Joined(c, d), e)))
           = Joined(Joined(Joined(Joined(z, a), Joined(b, c)), d), e)
<1>1. \A u, v, w \in Seq(S) : Joined(Joined(u, v), w) = Joined(u, Joined(v, w))
  BY DEF Joined
<1>2. \A u, v \in Seq(S) : Joined(u, v) \in Seq(S)
  BY DEF Joined
<1>3. /\ Joined(c, Joined(d, e)) = Joined(Joined(c, d), e)
      /\ Joined(d, e) \in Seq(S) /\ Joined(b, c) \in Seq(S) /\ Joined(z, a) \in Seq(S)
      /\ Joined(c, Joined(d, e)) \in Seq(S)
  BY <1>1, <1>2
<1>4. Joined(Joined(a, b), Joined(c, Joined(d, e))) = Joined(a, Joined(b, Joined(c, Joined(d, e))))
  BY <1>1, <1>3
<1>5. Joined(b, Joined(c, Joined(d, e))) = Joined(Joined(b, c), Joined(d, e))
  BY <1>1, <1>3
<1>6. /\ Joined(Joined(b, c), Joined(d, e)) \in Seq(S)
      /\ Joined(Joined(z, a), Joined(b, c)) \in Seq(S)
  BY <1>2, <1>3
<1>7. Joined(z, Joined(a, Joined(Joined(b, c), Joined(d, e))))
      = Joined(Joined(z, a), Joined(Joined(b, c), Joined(d, e)))
  BY <1>1, <1>6
<1>8. Joined(Joined(z, a), Joined(Joined(b, c), Joined(d, e)))
      = Joined(Joined(Joined(z, a), Joined(b, c)), Joined(d, e))
  BY <1>1, <1>3
<1>9. Joined(Joined(Joined(z, a), Joined(b, c)), Joined(d, e))
      = Joined(Joined(Joined(Joined(z, a), Joined(b, c)), d), e)
  BY <1>1, <1>6
<1> QED
  BY <1>3, <1>4, <1>5, <1>7, <1>8, <1>9

\* A sequence is all but its last, and its last.
LEMMA FrontLast ==
    ASSUME NEW S, NEW s \in Seq(S)
    PROVE  /\ s # <<>> => /\ Trees!Front(s) \in Seq(S) /\ Trees!Last(s) \in S
                          /\ s = Trees!Front(s) \o <<Trees!Last(s)>>
           /\ \A e \in S : Trees!Front(s \o <<e>>) = s /\ Trees!Last(s \o <<e>>) = e
<1>1. ASSUME s # <<>>
      PROVE  /\ Trees!Front(s) \in Seq(S) /\ Trees!Last(s) \in S
             /\ s = Trees!Front(s) \o <<Trees!Last(s)>>
  <2> DEFINE n == Len(s)
             f == SubSeq(s, 1, n - 1)
  <2>1. n \in Nat /\ n # 0 /\ n \in 1 .. n
    BY <1>1
  <2>2. f \in Seq(S) /\ Len(f) = n - 1 /\ s[n] \in S
    <3>1. s[n] \in S
      BY <2>1
    <3>2. n - 1 \in 0 .. Len(s)
      BY <2>1
    <3>3. f \in Seq(S) /\ Len(f) = n - 1
      <4>1. 1 \in Int /\ n - 1 \in Int /\ \A i \in 1 .. n - 1 : s[i] \in S
        BY <2>1
      <4> DEFINE k == n - 1
      <4>2. k \in Int /\ \A i \in 1 .. k : s[i] \in S
        BY <4>1
      <4> HIDE DEF k, n
      <4>3. SubSeq(s, 1, k) \in Seq(S) /\ Len(SubSeq(s, 1, k)) = IF 1 <= k THEN (k - 1) + 1 ELSE 0
        BY <4>2, SubSeqProperties
      <4> QED
        BY <2>1, <4>3 DEF k
    <3> QED
      BY <3>1, <3>3
  <2>3. \A i \in 1 .. n - 1 : f[i] = s[i]
    BY <2>1
  <2>4. f \o <<s[n]>> \in Seq(S) /\ Len(f \o <<s[n]>>) = n
    BY <2>1, <2>2
  <2>5. \A i \in 1 .. n : s[i] = (f \o <<s[n]>>)[i]
    <3> HIDE DEF f, n
    <3> QED
      BY <2>1, <2>2, <2>3
  <2>6. s = f \o <<s[n]>>
    <3> DEFINE q == f \o <<s[n]>>
    <3>1. q \in Seq(S) /\ Len(s) = Len(q) /\ \A i \in 1 .. Len(s) : s[i] = q[i]
      BY <2>4, <2>5
    <3> HIDE DEF q
    <3>2. s = q
      BY <3>1, SeqEqual
    <3> QED
      BY <3>2, Zenon DEF q
  <2> QED
    BY <2>2, <2>6, Zenon DEF Trees!Front, Trees!Last
<1>2. ASSUME NEW e \in S PROVE Trees!Front(s \o <<e>>) = s /\ Trees!Last(s \o <<e>>) = e
  <2> DEFINE q == s \o <<e>>
  <2>1. q \in Seq(S) /\ Len(q) = Len(s) + 1 /\ q[Len(s) + 1] = e /\ Len(s) \in Nat
    OBVIOUS
  <2>2. \A i \in 1 .. Len(s) : q[i] = s[i]
    OBVIOUS
  <2> HIDE DEF q
  <2>3. SubSeq(q, 1, Len(q) - 1) = s
    <3>1. (Len(s) + 1) - 1 = Len(s)
      BY <2>1
    <3> DEFINE f == SubSeq(q, 1, Len(s))
    <3>2. f \in Seq(S) /\ Len(f) = Len(s) /\ \A i \in 1 .. Len(f) : f[i] = s[i]
      BY <2>1, <2>2
    <3> HIDE DEF f
    <3>3. f = s
      BY <3>2, SeqEqual
    <3> QED
      BY <2>1, <3>1, <3>3 DEF f
  <2> QED
    BY <2>1, <2>3 DEF q, Trees!Front, Trees!Last
<1> QED
  BY <1>1, <1>2

\* The tags of a visit are for the functions there are.
LEMMA LeftAre ==
    ASSUME Numbered
    PROVE  /\ Trees!LeftBehind(hooks) = Trees!IfHas("exit") \o Trees!IfHas("last")
           /\ (IF "enter" \in hooks THEN <<Trees!Tag("enter")>> ELSE <<>>) = Trees!IfHas("enter")
BY DEF Trees!LeftBehind, Trees!IfHas

\* What Arranged puts on the stack, put together.
LEMMA ArrangedIs ==
    ASSUME Numbered, NEW below \in Seq(Stacked), NEW n \in DOMAIN tree, tree[n] # <<>>
    PROVE  Trees!Arranged(below, tree[n], hooks)
           = (below \o (Trees!IfHas("exit") \o (<<Trees!Node(tree[n][1])>> \o Trees!IfHas("last"))))
             \o (Trees!Nodes(Tail(tree[n])) \o Trees!IfHas("enter"))
<1> DEFINE X == Trees!IfHas("exit")
           L == Trees!IfHas("last")
           R == Trees!IfHas("enter")
           t == Trees!Tag("last")
           y == Trees!Node(tree[n][1])
           tn == Trees!Nodes(Tail(tree[n]))
           swapped == IF "last" \in hooks
                        THEN Trees!Front(below \o Trees!LeftBehind(hooks))
                             \o <<y, Trees!Last(below \o Trees!LeftBehind(hooks))>>
                        ELSE (below \o Trees!LeftBehind(hooks)) \o <<y>>
<1>1. /\ X \in Seq(Stacked) /\ L \in Seq(Stacked) /\ R \in Seq(Stacked) /\ t \in Stacked
      /\ L = (IF "last" \in hooks THEN <<t>> ELSE <<>>)
  BY HookToCome, PartIs DEF Trees!Hooks, Trees!IfHas
<1>2. y \in Stacked /\ tn \in Seq(Stacked)
  BY KidsToCome, NodesAre, PartIs, Zenon
<1>3. Trees!LeftBehind(hooks) = X \o L
  BY LeftAre
<1>4. Trees!Arranged(below, tree[n], hooks) = (swapped \o tn) \o R
  BY LeftAre, Zenon DEF Trees!Arranged
<1> HIDE DEF X, L, R, t, y, tn
<1>5. swapped = below \o (X \o (<<y>> \o L))
  <2>1. CASE "last" \in hooks
    <3>1. below \o X \in Seq(Stacked) /\ below \o Trees!LeftBehind(hooks) = (below \o X) \o <<t>>
      BY <1>1, <1>3, <2>1
    <3>2. /\ Trees!Front(below \o Trees!LeftBehind(hooks)) = below \o X
          /\ Trees!Last(below \o Trees!LeftBehind(hooks)) = t
      <4> DEFINE q == below \o X
      <4>1. q \in Seq(Stacked) /\ below \o Trees!LeftBehind(hooks) = q \o <<t>>
        BY <3>1
      <4> HIDE DEF q
      <4>2. Trees!Front(q \o <<t>>) = q /\ Trees!Last(q \o <<t>>) = t
        BY <1>1, <4>1, FrontLast, Zenon
      <4> QED
        BY <4>1, <4>2, Zenon DEF q
    <3>3. <<y, t>> = <<y>> \o <<t>> /\ <<y>> \in Seq(Stacked) /\ <<t>> \in Seq(Stacked)
      BY <1>1, <1>2
    <3>4. swapped = (below \o X) \o (<<y>> \o L)
      BY <1>1, <2>1, <3>2, <3>3, Zenon
    <3>5. <<y>> \o L \in Seq(Stacked)
      BY <1>1, <3>3
    <3> HIDE DEF swapped
    <3> QED
      <4> DEFINE w == <<y>> \o L
      <4>1. w \in Seq(Stacked)
        BY <3>5
      <4> HIDE DEF w
      <4>2. (below \o X) \o w = below \o (X \o w)
        BY <1>1, <4>1, Regroup
      <4> QED
        BY <3>4, <4>2, Zenon DEF w
  <2>2. CASE "last" \notin hooks
    <3>1. Trees!LeftBehind(hooks) = X /\ <<y>> \o L = <<y>> /\ <<y>> \in Seq(Stacked)
      BY <1>1, <1>2, <1>3, <2>2
    <3>2. swapped = (below \o X) \o <<y>>
      BY <2>2, <3>1
    <3> HIDE DEF swapped
    <3> QED
      <4> DEFINE w == <<y>>
      <4>1. w \in Seq(Stacked)
        BY <3>1
      <4> HIDE DEF w
      <4>2. (below \o X) \o w = below \o (X \o w)
        BY <1>1, <4>1, Regroup
      <4> QED
        BY <3>1, <3>2, <4>2, Zenon DEF w
  <2> QED
    BY <2>1, <2>2, Zenon
<1>6. swapped \in Seq(Stacked)
  <2>1. <<y>> \in Seq(Stacked)
    BY <1>2
  <2> HIDE DEF swapped
  <2> QED
    BY <1>1, <1>5, <2>1
<1> HIDE DEF swapped
<1>7. (swapped \o tn) \o R = swapped \o (tn \o R)
  BY <1>1, <1>2, <1>6, Regroup
<1> QED
  BY <1>4, <1>5, <1>7 DEF X, L, R, y, tn

\* So what is to come stays the same, but for the node itself.
LEMMA ArrangedToCome ==
    ASSUME Numbered, NEW below \in Seq(Stacked), NEW n \in DOMAIN tree
    PROVE  /\ Trees!Arranged(below, tree[n], hooks) \in Seq(Stacked)
           /\ <<Trees!Node(n)>> \o ToCome(Trees!Arranged(below, tree[n], hooks))
              = Trees!Below[n] \o ToCome(below)
<1> DEFINE A == Trees!Arranged(below, tree[n], hooks)
           z == <<Trees!Node(n)>>
<1>1. Trees!Below[n] = Around(Trees!Below, n) /\ ToCome(below) \in Seq(Events)
  BY BelowUnfolds, PartsType
<1>2. CASE tree[n] = <<>>
  <2>1. A = below
    BY <1>2 DEF Trees!Arranged
  <2>2. Trees!Below[n] = z
    BY <1>1, <1>2 DEF Around
  <2> QED
    BY <2>1, <2>2
<1>3. CASE tree[n] # <<>>
  <2> DEFINE X == Trees!IfHas("exit")
             L == Trees!IfHas("last")
             R == Trees!IfHas("enter")
             y == <<Trees!Node(tree[n][1])>>
             tn == Trees!Nodes(Tail(tree[n]))
             b == Trees!Below[tree[n][1]]
             c == ToCome(tn)
             d == ToCome(below)
  <2>1. A = (below \o (X \o (y \o L))) \o (tn \o R)
    BY <1>3, ArrangedIs
  <2>2. /\ Trees!Below[n] = z \o R \o Trees!FlattenSeq(Kids(Trees!Below, n)) \o X
        /\ Trees!FlattenSeq(Kids(Trees!Below, n)) = c \o (L \o b)
        /\ tree[n][1] \in DOMAIN tree
    BY <1>1, <1>3, KidsToCome, Zenon DEF Around
  <2>3. /\ X \in Seq(Stacked) /\ L \in Seq(Stacked) /\ R \in Seq(Stacked)
        /\ ToCome(X) = X /\ ToCome(L) = L /\ ToCome(R) = R
        /\ X \in Seq(Events) /\ L \in Seq(Events) /\ R \in Seq(Events)
    BY HookToCome, EventTypes DEF Trees!Hooks
  <2>4. tn \in Seq(Stacked) /\ y \in Seq(Stacked) /\ ToCome(y) = b
    <3>1. tn \in Seq(Stacked)
      BY <1>3, KidsToCome, NodesAre, Zenon
    <3>2. Trees!Node(tree[n][1]) \in Stacked /\ Part(Trees!Node(tree[n][1])) = b
      BY <2>2, PartIs
    <3> QED
      BY <3>1, <3>2, ToComeOne
  <2>5. z \in Seq(Events) /\ b \in Seq(Events) /\ c \in Seq(Events) /\ d \in Seq(Events)
    <3>1. Trees!Node(n) \in Events
      BY PartIs
    <3> QED
      BY <1>1, <2>2, <2>4, <3>1, BelowUnfolds, PartsType
  <2> HIDE DEF A, X, L, R, y, tn, b, c, d, z
  <2>6. /\ y \o L \in Seq(Stacked) /\ X \o (y \o L) \in Seq(Stacked)
        /\ below \o (X \o (y \o L)) \in Seq(Stacked) /\ tn \o R \in Seq(Stacked)
        /\ A \in Seq(Stacked)
    BY <2>1, <2>3, <2>4
  <2>7. ToCome(A) = (R \o c) \o (((L \o b) \o X) \o d)
    <3>1. ToCome(y \o L) = L \o b
      BY <2>3, <2>4, ToComeConcat, Zenon
    <3>2. ToCome(X \o (y \o L)) = (L \o b) \o X
      BY <2>3, <2>6, <3>1, ToComeConcat, ZenonT(30)
    <3>3. ToCome(below \o (X \o (y \o L))) = ((L \o b) \o X) \o d
      BY <2>6, <3>2, ToComeConcat, Zenon DEF d
    <3>4. ToCome(tn \o R) = R \o c
      BY <2>3, <2>4, ToComeConcat, Zenon DEF c
    <3>5. ToCome((below \o (X \o (y \o L))) \o (tn \o R)) = (R \o c) \o (((L \o b) \o X) \o d)
      BY <2>6, <3>3, <3>4, ToComeConcat, Zenon
    <3> QED
      BY <2>1, <3>5
  <2>8. /\ L \o b \in Seq(Events) /\ R \o c \in Seq(Events) /\ c \o (L \o b) \in Seq(Events)
        /\ (L \o b) \o X \in Seq(Events) /\ X \o d \in Seq(Events)
    BY <2>3, <2>5
  <2> DEFINE e == L \o b
  <2>9. e \in Seq(Events)
    BY <2>8
  <2> HIDE DEF e
  <2>10. z \o ((R \o c) \o ((e \o X) \o d)) = (z \o R \o (c \o e) \o X) \o d
    <3>1. Joined(z, Joined(Joined(R, c), Joined(Joined(e, X), d)))
          = Joined(Joined(Joined(Joined(z, R), Joined(c, e)), X), d)
      BY <2>3, <2>5, <2>9, RegroupAll, SMTT(30)
    <3> QED
      BY <3>1, Zenon DEF Joined
  <2>11. z \o ToCome(A) = Trees!Below[n] \o d
    BY <2>2, <2>7, <2>10 DEF e
  <2> QED
    BY <2>6, <2>11, Zenon DEF A, z, d
<1> QED
  BY <1>2, <1>3, Zenon

\* At first, what is to come is all that is documented.
LEMMA ExpectedIs == Numbered => Trees!Expected = ToCome(Trees!Nodes(roots))
<1> SUFFICES ASSUME Numbered PROVE Trees!Expected = ToCome(Trees!Nodes(roots))
  OBVIOUS
<1> DEFINE r == Trees!Reverse(roots)
           tn == Trees!Nodes(roots)
           B == Trees!Below
           p == [i \in DOMAIN r |-> B[r[i]]]
           q == [i \in 1 .. Len(tn) |-> Part(tn[(Len(tn) - i) + 1])]
<1>1. roots \in Seq(DOMAIN tree) /\ Len(roots) \in Nat
  BY DEF Numbered
<1>2. /\ DOMAIN r = 1 .. Len(roots)
      /\ \A i \in 1 .. Len(roots) : r[i] = roots[(Len(roots) - i) + 1]
  BY <1>1, ReverseIs
<1>3. /\ Len(tn) = Len(roots)
      /\ \A i \in 1 .. Len(roots) : tn[i] = Trees!Node(roots[i])
  BY <1>1, NodesAre
<1>4. ASSUME NEW i \in 1 .. Len(roots) PROVE Part(tn[(Len(tn) - i) + 1]) = B[r[i]]
  <2>1. (Len(roots) - i) + 1 \in 1 .. Len(roots)
    BY <1>1
  <2>2. roots[(Len(roots) - i) + 1] \in DOMAIN tree
    BY <1>1, <2>1
  <2> HIDE DEF tn, r
  <2>3. tn[(Len(roots) - i) + 1] = Trees!Node(roots[(Len(roots) - i) + 1])
    BY <1>3, <2>1
  <2> QED
    BY <1>2, <1>3, <2>2, <2>3, PartIs DEF B
<1>5. p = q
  <2> HIDE DEF tn, r, B
  <2> QED
    BY <1>2, <1>3, <1>4
<1>6. Trees!Expected = Trees!FlattenSeq(p)
  BY DEF Trees!Expected
<1>7. ToCome(tn) = Trees!FlattenSeq(q)
  BY DEF ToCome
<1> QED
  BY <1>5, <1>6, <1>7, Zenon

\* The invariant holds at first,
LEMMA TreeBegins ==
    ASSUME Numbered, stack = Trees!Nodes(roots), events = <<>>
    PROVE  TreeInv
<1>1. stack \in Seq(Stacked) /\ ToCome(stack) \in Seq(Events)
  <2>1. stack \in Seq(Stacked)
    BY NodesAre DEF Numbered
  <2> QED
    BY <2>1, PartsType
<1>2. events \in Seq(Events) /\ events \o ToCome(stack) = ToCome(stack)
  BY <1>1
<1> QED
  BY <1>1, <1>2, ExpectedIs DEF TreeInv

\* also for the trees that are checked.
LEMMA TreeInit == Trees!Init => TreeInv
BY TreesNumbered, TreeBegins DEF Trees!Init

\* A step makes the next of the calls to come.
LEMMA TreeStep == TreeInv /\ [Trees!Next]_treeVars => TreeInv'
<1> SUFFICES ASSUME TreeInv, [Trees!Next]_treeVars PROVE TreeInv'
  OBVIOUS
<1>1. Numbered
  BY DEF TreeInv
<1>2. tree' = tree /\ roots' = roots /\ hooks' = hooks
  BY DEF Trees!Next, Trees!Step, treeVars
<1>3. Numbered' /\ Stacked' = Stacked /\ Trees!Below' = Trees!Below /\ Trees!Expected' = Trees!Expected
  <2>1. Trees!Below' = Trees!Below
    BY <1>2 DEF Trees!Below, Trees!IfHas
  <2>2. Numbered' /\ Stacked' = Stacked
    BY <1>1, <1>2 DEF Numbered, Stacked
  <2> QED
    BY <1>2, <2>1, <2>2 DEF Trees!Expected
<1>4. ToCome(stack)' = Trees!FlattenSeq([i \in 1 .. Len(stack') |-> Part(stack'[(Len(stack') - i) + 1])])
  BY <1>3 DEF ToCome, Part
<1>5. ASSUME NEW s, stack' = s PROVE ToCome(stack)' = ToCome(s)
  BY <1>4, <1>5 DEF ToCome
<1>6. CASE UNCHANGED treeVars
  <2>1. stack' = stack /\ events' = events
    BY <1>6 DEF treeVars
  <2>2. ToCome(stack)' = ToCome(stack)
    BY <1>5, <2>1
  <2> QED
    BY <1>3, <2>1, <2>2 DEF TreeInv
<1>7. CASE Trees!Next
  <2> DEFINE e == Trees!Last(stack)
             f == Trees!Front(stack)
  <2>1. stack # <<>> /\ events' = Append(events, e)
    BY <1>7 DEF Trees!Next, Trees!Step, Trees!Call, Trees!Visit
  <2>2. f \in Seq(Stacked) /\ e \in Stacked /\ stack = f \o <<e>>
    BY <2>1, FrontLast, Zenon DEF TreeInv
  <2>3. ToCome(stack) = Part(e) \o ToCome(f)
    <3>1. <<e>> \in Seq(Stacked)
      BY <2>2
    <3> HIDE DEF e, f
    <3> QED
      BY <1>1, <2>2, <3>1, ToComeConcat, ToComeOne, Zenon
  <2>4. \E s \in Seq(Stacked) : stack' = s /\ <<e>> \o ToCome(s) = Part(e) \o ToCome(f)
    <3>1. CASE \E hook \in Trees!Hooks : Trees!Call(hook)
      <4>1. PICK hook \in Trees!Hooks : Trees!Call(hook)
        BY <3>1
      <4>2. stack' = f /\ e.tag = hook
        BY <4>1 DEF Trees!Call
      <4>3. e.tag # "node"
        BY <4>2, EventTypes
      <4>4. Part(e) = <<e>>
        BY <4>3 DEF Part
      <4> QED
        BY <2>2, <4>2, <4>4
    <3>2. CASE Trees!Visit(tree[Trees!Last(stack).node], hooks)
      <4>1. e.tag = "node" /\ stack' = Trees!Arranged(f, tree[e.node], hooks)
        BY <3>2 DEF Trees!Visit
      <4>2. PICK n \in DOMAIN tree : e = Trees!Node(n)
        <5>1. \A h \in Trees!Hooks : e # Trees!Tag(h)
          BY <4>1, EventTypes
        <5> HIDE DEF e
        <5> QED
          BY <2>2, <5>1 DEF Stacked
      <4>3. e.node = n
        BY <1>1, <4>2, EventTypes DEF Numbered
      <4>4. Part(e) = Trees!Below[n]
        BY <1>1, <4>2, PartIs
      <4> HIDE DEF e, f
      <4>5. /\ Trees!Arranged(f, tree[n], hooks) \in Seq(Stacked)
            /\ <<e>> \o ToCome(Trees!Arranged(f, tree[n], hooks)) = Trees!Below[n] \o ToCome(f)
        BY <1>1, <2>2, <4>2, ArrangedToCome, Zenon
      <4> QED
        BY <4>1, <4>3, <4>4, <4>5
    <3> QED
      BY <1>7, <3>1, <3>2 DEF Trees!Next, Trees!Step
  <2>5. PICK s \in Seq(Stacked) : stack' = s /\ <<e>> \o ToCome(s) = Part(e) \o ToCome(f)
    BY <2>4
  <2>6. ToCome(stack)' = ToCome(s) /\ stack' \in Seq(Stacked')
    BY <1>3, <1>5, <2>5
  <2>7. events \in Seq(Events) /\ e \in Events /\ ToCome(s) \in Seq(Events)
    BY <1>1, <2>2, PartIs, PartsType DEF TreeInv
  <2>8. events' \in Seq(Events) /\ events' = events \o <<e>>
    BY <2>1, <2>7
  <2> HIDE DEF e, f
  <2>9. events' \o ToCome(s) = events \o (<<e>> \o ToCome(s))
    <3>1. <<e>> \in Seq(Events)
      BY <2>7
    <3> DEFINE u == <<e>>
               v == ToCome(s)
    <3>2. u \in Seq(Events) /\ v \in Seq(Events)
      BY <2>7, <3>1
    <3> HIDE DEF u, v
    <3>3. (events \o u) \o v = events \o (u \o v)
      BY <2>7, <3>2
    <3> QED
      BY <2>8, <3>3 DEF u, v
  <2>10. events' \o ToCome(s) = Trees!Expected
    BY <2>3, <2>5, <2>9, Zenon DEF TreeInv
  <2> QED
    BY <1>3, <2>6, <2>8, <2>10, Zenon DEF TreeInv, Events
<1> QED
  BY <1>6, <1>7

\* What was called is a prefix, and all when nothing is to come.
LEMMA TreeRight == TreeInv => Trees!TraversalExact
<1> SUFFICES ASSUME TreeInv PROVE Trees!TraversalExact
  OBVIOUS
<1>1. Numbered /\ events \in Seq(Events) /\ ToCome(stack) \in Seq(Events)
  BY PartsType DEF TreeInv
<1> DEFINE c == ToCome(stack)
<1>2. events \o c = Trees!Expected
  BY DEF TreeInv
<1>3. stack = <<>> => c = <<>>
  BY <1>1, ToComeNone
<1>4. c \in Seq(Events)
  BY <1>1
<1> HIDE DEF c
<1>5. Trees!IsPrefix(events, events \o c)
  <2> DEFINE n == Len(events)
             E == events \o c
  <2>1. n \in Nat /\ E \in Seq(Events) /\ Len(E) = n + Len(c) /\ Len(c) \in Nat /\ n <= Len(E)
    BY <1>1, <1>4
  <2>2. \A i \in 1 .. n : E[i] = events[i]
    BY <1>1, <1>4
  <2> HIDE DEF E
  <2>3. SubSeq(events, 1, n) = SubSeq(E, 1, n)
    BY <1>1, <2>1, <2>2
  <2> QED
    BY <2>1, <2>3 DEF E, Trees!IsPrefix
<1>6. stack = <<>> => events = events \o c
  BY <1>1, <1>3
<1> QED
  BY <1>2, <1>5, <1>6 DEF Trees!TraversalExact

-----------------------------------------------------------------------------
(* Functions that try.  Whatever waits for a call waits for what that call  *)
(* returns, so that a failure finds a statement that passes it on.          *)

\* What a function that is called for in a frame returns, and how.
FrameTypes == MCTypes \union {"int"}
CallFrames == [type : FrameTypes, statement : Returns!Statements \union {"none"}, loop : BOOLEAN]
ReturnedValues == [type : FrameTypes, ok : BOOLEAN, error : Errors \union {Nothing}]
\* What a statement says of the call it is in, and of the function.
Linked(f, type) ==
    /\ type \in MCTypes
    /\ f.statement = "none" => type = "void"
    /\ f.statement = "try" => type # "void" /\ f.type \in Returns!ReturnTypes(type)
    /\ f.statement = "try_main" => f.type = "int"
    /\ f.statement = "or_return" => f.type = "void"
\* Every frame but the last waits for the one after it.
Chained(s) == \A i \in 1 .. Len(s) - 1 : Linked(s[i], s[i + 1].type)
\* void cannot fail.
Delivered(v) ==
    /\ v \in ReturnedValues
    /\ v.type = "void" => v.ok

\* A frame is linked to what was called in it, running or returned.
CallsInv ==
    /\ frames \in Seq(CallFrames) /\ Chained(frames)
    /\ returned # <<>> =>
         \E v \in ReturnedValues :
            /\ returned = <<v>> /\ Delivered(v)
            /\ frames # <<>> => Linked(Returns!Top, v.type)
TryInv == CallsInv /\ Returns!FailuresArrive

\* The function that runs.
LEMMA TopIs ==
    ASSUME CallsInv, frames # <<>>
    PROVE  /\ Returns!Top = frames[Len(frames)] /\ Returns!Top \in CallFrames
           /\ Len(frames) \in Nat /\ Len(frames) # 0
BY DEF Returns!Top, CallsInv

\* A function that leaves returns what was called for.
LEMMA LeaveKeeps ==
    ASSUME CallsInv, frames # <<>>, NEW v, Delivered(v), v.type = Returns!Top.type, Returns!Leave(v)
    PROVE  CallsInv'
<1> DEFINE n == Len(frames)
           f == SubSeq(frames, 1, n - 1)
<1>1. frames \in Seq(CallFrames) /\ Chained(frames) /\ v \in ReturnedValues
  BY DEF CallsInv, Delivered
<1>2. n \in Nat /\ n # 0 /\ Returns!Top = frames[n]
  BY TopIs
<1>3. frames' = f /\ returned' = <<v>>
  BY DEF Returns!Leave
<1>4. f \in Seq(CallFrames) /\ Len(f) = n - 1 /\ \A i \in 1 .. n - 1 : f[i] = frames[i]
  <2> DEFINE k == n - 1
  <2>1. k \in Nat /\ k \in 0 .. Len(frames) /\ \A i \in 1 .. k : frames[i] \in CallFrames
    BY <1>1, <1>2
  <2>2. SubSeq(frames, 1, k) \in Seq(CallFrames) /\ Len(SubSeq(frames, 1, k)) = k
    <3> HIDE DEF k, n
    <3> QED
      BY <1>1, <2>1
  <2>3. \A i \in 1 .. k : SubSeq(frames, 1, k)[i] = frames[i]
    <3> HIDE DEF k, n
    <3> QED
      BY <1>1, <2>1
  <2> QED
    BY <2>2, <2>3
<1> HIDE DEF f
<1>5. Chained(f)
  <2>1. \A i \in 1 .. (n - 1) - 1 : i \in 1 .. n - 1 /\ i + 1 \in 1 .. n - 1
    BY <1>2
  <2>2. \A i \in 1 .. (n - 1) - 1 : Linked(f[i], f[i + 1].type)
    BY <1>1, <1>4, <2>1 DEF Chained
  <2> QED
    BY <1>4, <2>2 DEF Chained
<1>6. f # <<>> => Linked(f[Len(f)], v.type)
  <2> SUFFICES ASSUME f # <<>> PROVE Linked(f[Len(f)], v.type)
    OBVIOUS
  <2>1. n - 1 \in 1 .. n - 1 /\ (n - 1) + 1 = n
    BY <1>2, <1>4
  <2>2. Linked(frames[n - 1], frames[n].type)
    BY <1>1, <2>1 DEF Chained
  <2> QED
    BY <1>2, <1>4, <2>1, <2>2
<1>7. Returns!Top' = f[Len(f)]
  BY <1>3 DEF Returns!Top
<1> QED
  BY <1>1, <1>3, <1>4, <1>5, <1>6, <1>7 DEF CallsInv

\* What becomes of a frame does not matter to the one it was called in.
LEMMA GoOn ==
    ASSUME CallsInv, frames # <<>>, NEW g \in CallFrames, g.type = Returns!Top.type
    PROVE  /\ [frames EXCEPT ![Len(frames)] = g] \in Seq(CallFrames)
           /\ Len([frames EXCEPT ![Len(frames)] = g]) = Len(frames)
           /\ Chained([frames EXCEPT ![Len(frames)] = g])
           /\ [frames EXCEPT ![Len(frames)] = g][Len(frames)] = g
<1> DEFINE n == Len(frames)
           s == [frames EXCEPT ![n] = g]
<1>1. frames \in Seq(CallFrames) /\ Chained(frames)
  BY DEF CallsInv
<1>2. n \in Nat /\ n # 0 /\ n \in 1 .. n /\ Returns!Top = frames[n]
  BY TopIs
<1>3. s \in Seq(CallFrames) /\ Len(s) = n
  BY <1>1, <1>2
<1>4. s[n] = g /\ \A i \in 1 .. n : i # n => s[i] = frames[i]
  BY <1>1, <1>2
<1> HIDE DEF s
<1>5. Chained(s)
  <2>1. \A i \in 1 .. n - 1 : i \in 1 .. n /\ i # n /\ i + 1 \in 1 .. n
    BY <1>2
  <2>2. \A i \in 1 .. n : s[i].type = frames[i].type
    BY <1>2, <1>4
  <2>3. \A i \in 1 .. n - 1 : Linked(s[i], s[i + 1].type)
    BY <1>1, <1>4, <2>1, <2>2 DEF Chained
  <2> QED
    BY <1>3, <2>3 DEF Chained
<1> QED
  BY <1>3, <1>4, <1>5, Zenon DEF s

\* A call leaves its statement behind, and starts a frame.
LEMMA EnterKeeps ==
    ASSUME CallsInv, Returns!Running, NEW statement \in Returns!Statements \union {"none"},
           NEW type \in MCTypes, Returns!Enter(statement, type),
           Linked([Returns!Top EXCEPT !.statement = statement], type)
    PROVE  CallsInv'
<1> DEFINE n == Len(frames)
           g == [Returns!Top EXCEPT !.statement = statement]
           s == [frames EXCEPT ![n] = g]
           h == Returns!Frame(type)
<1>1. frames # <<>> /\ returned = <<>>
  BY DEF Returns!Running
<1>2. n \in Nat /\ n # 0 /\ Returns!Top = frames[n] /\ Returns!Top \in CallFrames
  BY <1>1, TopIs
<1>3. g \in CallFrames /\ g.type = Returns!Top.type
  BY <1>2 DEF CallFrames
<1>4. h \in CallFrames /\ h.type = type
  BY DEF Returns!Frame, CallFrames, FrameTypes
<1>5. frames' = Append(s, h) /\ returned' = <<>>
  <2>1. [frames EXCEPT ![n].statement = statement] = s
    BY <1>2
  <2> QED
    BY <1>1, <2>1, Zenon DEF Returns!Enter
<1> HIDE DEF g, h
<1>6. s \in Seq(CallFrames) /\ Len(s) = n /\ Chained(s) /\ s[n] = g
  BY <1>1, <1>3, GoOn
<1> HIDE DEF s
<1>7. /\ Append(s, h) \in Seq(CallFrames) /\ Len(Append(s, h)) = n + 1
      /\ Append(s, h)[n + 1] = h /\ \A i \in 1 .. n : Append(s, h)[i] = s[i]
  BY <1>2, <1>4, <1>6
<1>8. Chained(Append(s, h))
  <2> DEFINE t == Append(s, h)
  <2>1. \A i \in 1 .. n : i = n \/ (i \in 1 .. n - 1 /\ i + 1 \in 1 .. n)
    BY <1>2
  <2>2. Linked(g, h.type)
    BY <1>4 DEF g
  <2> HIDE DEF t
  <2>3. \A i \in 1 .. n : Linked(t[i], t[i + 1].type)
    <3> SUFFICES ASSUME NEW i \in 1 .. n PROVE Linked(t[i], t[i + 1].type)
      OBVIOUS
    <3>1. CASE i = n
      BY <1>2, <1>6, <1>7, <2>2, <3>1 DEF t
    <3>2. CASE i # n
      <4>1. Linked(s[i], s[i + 1].type) /\ t[i] = s[i] /\ t[i + 1] = s[i + 1]
        BY <1>6, <1>7, <2>1, <3>2 DEF Chained, t
      <4> QED
        BY <4>1
    <3> QED
      BY <3>1, <3>2
  <2>4. 1 .. Len(t) - 1 = 1 .. n
    BY <1>2, <1>7 DEF t
  <2> QED
    BY <2>3, <2>4 DEF Chained, t
<1> QED
  BY <1>5, <1>7, <1>8 DEF CallsInv

\* What arrives is for the statement that waits for it.
LEMMA GotIs ==
    ASSUME CallsInv, NEW v, Returns!Got(v)
    PROVE  /\ v \in ReturnedValues /\ Delivered(v) /\ Linked(Returns!Top, v.type)
           /\ frames # <<>> /\ returned = <<v>> /\ returned[1] = v /\ returned # <<>> /\ aborted = FALSE
<1>1. frames # <<>> /\ returned = <<v>> /\ ~ aborted
  BY DEF Returns!Got
<1>2. returned # <<>> /\ returned[1] = v
  BY <1>1
<1>3. PICK w \in ReturnedValues :
         /\ returned = <<w>> /\ Delivered(w)
         /\ frames # <<>> => Linked(Returns!Top, w.type)
  BY <1>2 DEF CallsInv
<1>4. w = v
  BY <1>1, <1>3
<1> QED
  BY <1>1, <1>2, <1>3, <1>4

\* A frame that goes on has no statement to come back to, and no value to wait for.
LEMMA GoOnKeeps ==
    ASSUME CallsInv, frames # <<>>, NEW g \in CallFrames, g.type = Returns!Top.type,
           frames' = [frames EXCEPT ![Len(frames)] = g], returned' = <<>>
    PROVE  CallsInv'
BY GoOn, Zenon DEF CallsInv

\* What Value and Failure make.
LEMMA MadeValues ==
    /\ \A type \in FrameTypes, ok \in BOOLEAN, error \in Errors \union {Nothing} :
          /\ Returns!Value(type, ok, error) \in ReturnedValues
          /\ Returns!Value(type, ok, error).type = type
          /\ Returns!Value(type, ok, error).ok = ok
          /\ Returns!Value(type, ok, error).error = error
    /\ \A type \in FrameTypes, error \in Errors \union {Nothing} :
          /\ Returns!Failure(type, error) \in ReturnedValues
          /\ Returns!Failure(type, error).type = type
          /\ Returns!Failure(type, error).ok = FALSE
          /\ type \in Returns!Statuses => Returns!Failure(type, error).error = error
<1>1. \A type \in FrameTypes, ok \in BOOLEAN, error \in Errors \union {Nothing} :
         /\ Returns!Value(type, ok, error) \in ReturnedValues
         /\ Returns!Value(type, ok, error).type = type
         /\ Returns!Value(type, ok, error).ok = ok
         /\ Returns!Value(type, ok, error).error = error
  BY DEF Returns!Value, ReturnedValues
<1>2. \A type \in FrameTypes, error \in Errors \union {Nothing} :
         Returns!Failure(type, error)
         = Returns!Value(type, FALSE, IF type \in Returns!Statuses THEN error ELSE Nothing)
  BY DEF Returns!Failure
<1>3. ASSUME NEW type \in FrameTypes, NEW error \in Errors \union {Nothing}
      PROVE  /\ Returns!Failure(type, error) \in ReturnedValues
             /\ Returns!Failure(type, error).type = type
             /\ Returns!Failure(type, error).ok = FALSE
             /\ type \in Returns!Statuses => Returns!Failure(type, error).error = error
  <2> DEFINE e == IF type \in Returns!Statuses THEN error ELSE Nothing
  <2>1. e \in Errors \union {Nothing} /\ (type \in Returns!Statuses => e = error) /\ FALSE \in BOOLEAN
    OBVIOUS
  <2>2. Returns!Failure(type, error) = Returns!Value(type, FALSE, e)
    BY <1>2, Zenon
  <2> HIDE DEF e
  <2>3. /\ Returns!Value(type, FALSE, e) \in ReturnedValues
        /\ Returns!Value(type, FALSE, e).type = type
        /\ Returns!Value(type, FALSE, e).ok = FALSE
        /\ Returns!Value(type, FALSE, e).error = e
    BY <1>1, <2>1, Zenon
  <2> QED
    BY <2>1, <2>2, <2>3, Zenon
<1> QED
  BY <1>1, <1>3, Zenon

\* What a call that failed is turned into is a failure, and says what it said,
\* unless it is a success.
LEMMA Transformed ==
    ASSUME NEW v \in ReturnedValues, v.type \in MCTypes, v.type # "void", v.ok = FALSE,
           NEW returns \in Returns!ReturnTypes(v.type), returns \in FrameTypes
    PROVE  /\ Returns!transform_return(v, returns) \in ReturnedValues
           /\ Returns!transform_return(v, returns).type = returns
           /\ returns # "void"
           /\ ~ Returns!Swallows(v.type, returns) =>
                 /\ Returns!transform_return(v, returns).ok = FALSE
                 /\ returns \in Returns!Statuses =>
                      /\ v.type \in Returns!Statuses
                      /\ Returns!transform_return(v, returns).error = v.error
<1>1. v.error \in Errors \union {Nothing}
  BY DEF ReturnedValues
<1>2. Returns!transform_return(v, returns)
      = IF Returns!Swallows(v.type, returns) THEN Returns!Value(returns, TRUE, Nothing)
        ELSE Returns!Failure(returns, v.error)
  BY DEF Returns!transform_return
<1>3. v.type \in {"bool", "pointer", "optional", "optional_any", "status", "status_or", "status_or_any"}
  BY DEF MCTypes
<1>4. /\ returns # "void"
      /\ ~ Returns!Swallows(v.type, returns) /\ returns \in Returns!Statuses => v.type \in Returns!Statuses
  <2>1. /\ v.type = "bool" => returns \in {"bool", "int", "optional_any", "status_or_any"}
        /\ v.type = "pointer" => returns \in {"pointer", "bool", "int", "optional_any", "status_or_any"}
        /\ v.type \in Returns!Optionals => returns \in Returns!Optionals
        /\ v.type \in Returns!Statuses => returns \in Returns!Statuses
    BY <1>3 DEF Returns!ReturnTypes, Returns!Pointers, Returns!Optionals, Returns!Statuses
  <2> QED
    BY <1>3, <2>1 DEF Returns!Swallows, Returns!Plain, Returns!Pointers, Returns!Optionals, Returns!Statuses
<1>5. CASE Returns!Swallows(v.type, returns)
  <2>1. TRUE \in BOOLEAN /\ Nothing \in Errors \union {Nothing}
    OBVIOUS
  <2>2. /\ Returns!Value(returns, TRUE, Nothing) \in ReturnedValues
        /\ Returns!Value(returns, TRUE, Nothing).type = returns
    BY <2>1, MadeValues, Zenon
  <2> QED
    BY <1>2, <1>4, <1>5, <2>2, Zenon
<1>6. CASE ~ Returns!Swallows(v.type, returns)
  BY <1>1, <1>2, <1>4, <1>6, MadeValues
<1> QED
  BY <1>5, <1>6, Zenon

\* main waits for nothing.
LEMMA TryInit == Returns!Init => TryInv
<1> SUFFICES ASSUME Returns!Init PROVE TryInv
  OBVIOUS
<1>1. Returns!Frame("int") \in CallFrames
  BY DEF Returns!Frame, CallFrames, FrameTypes
<1>2. frames \in Seq(CallFrames) /\ Len(frames) = 1
  BY <1>1 DEF Returns!Init
<1>3. Chained(frames)
  BY <1>2 DEF Chained
<1>4. returned = <<>> /\ raised = <<>> /\ aborted = FALSE
  BY DEF Returns!Init
<1> QED
  BY <1>2, <1>3, <1>4 DEF TryInv, CallsInv, Returns!FailuresArrive

\* Every step keeps failures what they are.
LEMMA TryStep == TryInv /\ [Returns!Next]_returnVars => TryInv'
<1> SUFFICES ASSUME TryInv, [Returns!Next]_returnVars PROVE TryInv'
  OBVIOUS
<1> USE DEF TryInv
<1>1. ASSUME NEW statement \in Returns!Statements, NEW type \in MCTypes, Returns!Call(statement, type)
      PROVE  TryInv'
  <2>1. Returns!Running /\ Returns!Enter(statement, type) /\ type # "void"
        /\ Returns!Compiles(statement, type, Returns!Top)
    BY <1>1 DEF Returns!Call
  <2>2. Returns!Top \in CallFrames
    BY <2>1, TopIs DEF Returns!Running
  <2>3. Linked([Returns!Top EXCEPT !.statement = statement], type)
    <3> DEFINE f == Returns!Top
    <3>1. f \in CallFrames /\ Returns!Compiles(statement, type, f)
      BY <2>1, <2>2
    <3> HIDE DEF f
    <3>2. /\ [f EXCEPT !.statement = statement].type = f.type
          /\ [f EXCEPT !.statement = statement].statement = statement
      BY <3>1 DEF CallFrames
    <3>3. statement # "none"
      BY DEF Returns!Statements
    <3>4. /\ statement = "try" => f.type \in Returns!ReturnTypes(type)
          /\ statement = "try_main" => f.type = "int"
          /\ statement = "or_return" => f.type = "void"
      BY <3>1, Zenon DEF Returns!Compiles
    <3>5. Linked([f EXCEPT !.statement = statement], type)
      BY <2>1, <3>2, <3>3, <3>4 DEF Linked
    <3> QED
      BY <3>5 DEF f
  <2>4. CallsInv'
    BY <2>1, <2>3, EnterKeeps
  <2>5. returned' = returned /\ aborted' = aborted /\ raised' = raised /\ swallowed' = swallowed
    BY <2>1 DEF Returns!Enter
  <2>6. Returns!FailuresArrive'
    BY <2>5 DEF Returns!FailuresArrive, Returns!okay
  <2> QED
    BY <2>4, <2>6
<1>2. ASSUME Returns!CallPlainly PROVE TryInv'
  <2>1. Returns!Running /\ Returns!Enter("none", "void")
    BY <1>2 DEF Returns!CallPlainly
  <2>2. Returns!Top \in CallFrames /\ "void" \in MCTypes
    BY <2>1, TopIs DEF Returns!Running, MCTypes
  <2>3. Linked([Returns!Top EXCEPT !.statement = "none"], "void")
    <3> DEFINE f == Returns!Top
    <3>1. f \in CallFrames
      BY <2>2
    <3> HIDE DEF f
    <3>2. [f EXCEPT !.statement = "none"].statement = "none"
      BY <3>1 DEF CallFrames
    <3>3. Linked([f EXCEPT !.statement = "none"], "void")
      BY <2>2, <3>2 DEF Linked
    <3> QED
      BY <3>3 DEF f
  <2>4. CallsInv'
    BY <2>1, <2>2, <2>3, EnterKeeps
  <2>5. returned' = returned /\ aborted' = aborted /\ raised' = raised /\ swallowed' = swallowed
    BY <2>1 DEF Returns!Enter
  <2>6. Returns!FailuresArrive'
    BY <2>5 DEF Returns!FailuresArrive, Returns!okay
  <2> QED
    BY <2>4, <2>6
<1>3. ASSUME Returns!Return PROVE TryInv'
  <2> DEFINE v == Returns!Value(Returns!Top.type, TRUE, Nothing)
  <2>1. /\ frames # <<>> /\ returned = <<>> /\ ~ aborted /\ Returns!Leave(v)
        /\ aborted' = aborted /\ raised' = raised /\ swallowed' = swallowed
    BY <1>3, Zenon DEF Returns!Return, Returns!Running
  <2>2. v \in ReturnedValues /\ v.type = Returns!Top.type /\ v.ok = TRUE
    <3>1. Returns!Top.type \in FrameTypes
      BY <2>1, TopIs DEF CallFrames
    <3>2. TRUE \in BOOLEAN /\ Nothing \in Errors \union {Nothing}
      OBVIOUS
    <3> QED
      BY <3>1, <3>2, MadeValues, ZenonT(30)
  <2> HIDE DEF v
  <2>3. CallsInv'
    BY <2>1, <2>2, LeaveKeeps DEF Delivered
  <2>4. returned' = <<v>> /\ returned'[1] = v
    BY <2>1 DEF Returns!Leave
  <2>5. Returns!FailuresArrive'
    BY <2>1, <2>2, <2>4 DEF Returns!FailuresArrive, Returns!okay
  <2> QED
    BY <2>3, <2>5
<1>4. ASSUME NEW error \in Errors, Returns!Fail(error) PROVE TryInv'
  <2> DEFINE v == Returns!Failure(Returns!Top.type, error)
  <2>1. /\ frames # <<>> /\ aborted = FALSE /\ Returns!Leave(v) /\ Returns!Top.type # "void"
        /\ aborted' = aborted /\ raised' = <<v.error>> /\ swallowed' = swallowed
    BY <1>4 DEF Returns!Fail, Returns!Running
  <2>2. v \in ReturnedValues /\ v.type = Returns!Top.type /\ v.ok = FALSE
    <3>1. Returns!Top.type \in FrameTypes
      BY <2>1, TopIs DEF CallFrames
    <3>2. error \in Errors \union {Nothing}
      OBVIOUS
    <3> QED
      BY <3>1, <3>2, MadeValues
  <2> HIDE DEF v
  <2>3. CallsInv'
    BY <2>1, <2>2, LeaveKeeps DEF Delivered
  <2>4. /\ returned' = <<v>> /\ returned'[1] = v /\ returned' # <<>>
        /\ raised' # <<>> /\ raised'[1] = v.error
    BY <2>1 DEF Returns!Leave
  <2>5. Returns!FailuresArrive'
    BY <2>1, <2>2, <2>4 DEF Returns!FailuresArrive, Returns!okay
  <2> QED
    BY <2>3, <2>5
<1>5. ASSUME NEW v, Returns!Succeed(v) PROVE TryInv'
  <2>1. /\ Returns!Got(v) /\ (v.ok \/ Returns!Top.statement = "none")
        /\ frames' = [frames EXCEPT ![Len(frames)].statement = "none"]
        /\ returned' = <<>> /\ aborted' = aborted /\ raised' = raised /\ swallowed' = swallowed
    BY <1>5 DEF Returns!Succeed, Returns!okay, Returns!Statement
  <2>2. v \in ReturnedValues /\ Delivered(v) /\ Linked(Returns!Top, v.type) /\ frames # <<>>
        /\ returned[1] = v /\ returned # <<>> /\ aborted = FALSE
    BY <2>1, GotIs, Zenon
  <2>3. v.ok
    BY <2>1, <2>2 DEF Linked, Delivered
  <2> DEFINE g == [Returns!Top EXCEPT !.statement = "none"]
  <2>4. Returns!Top = frames[Len(frames)] /\ Returns!Top \in CallFrames
    BY <2>2, TopIs
  <2>5. g \in CallFrames /\ g.type = Returns!Top.type
    <3> DEFINE f == Returns!Top
    <3>1. f \in CallFrames
      BY <2>4
    <3> HIDE DEF f
    <3>2. [f EXCEPT !.statement = "none"] \in CallFrames /\ [f EXCEPT !.statement = "none"].type = f.type
      BY <3>1 DEF CallFrames
    <3> QED
      BY <3>2 DEF f
  <2>6. frames' = [frames EXCEPT ![Len(frames)] = g]
    BY <2>1, <2>4
  <2> HIDE DEF g
  <2>7. CallsInv'
    BY <2>1, <2>2, <2>5, <2>6, GoOnKeeps, Zenon
  <2>8. Returns!FailuresArrive'
    BY <2>1, <2>2, <2>3 DEF Returns!FailuresArrive, Returns!okay
  <2> QED
    BY <2>7, <2>8
<1>6. ASSUME NEW v, Returns!LeaveTry(v) PROVE TryInv'
  <2> DEFINE w == Returns!transform_return(v, Returns!Top.type)
  <2>1. /\ Returns!Got(v) /\ ~ v.ok /\ Returns!Top.statement = "try" /\ Returns!Leave(w)
        /\ swallowed' = (swallowed \/ Returns!Swallows(v.type, Returns!Top.type))
        /\ aborted' = aborted /\ raised' = raised
    BY <1>6 DEF Returns!LeaveTry, Returns!okay, Returns!Statement
  <2>2. v \in ReturnedValues /\ Linked(Returns!Top, v.type) /\ frames # <<>>
        /\ returned[1] = v /\ returned # <<>> /\ aborted = FALSE
    BY <2>1, GotIs, Zenon
  <2>3. /\ v.type \in MCTypes /\ v.type # "void" /\ v.ok = FALSE
        /\ Returns!Top.type \in Returns!ReturnTypes(v.type) /\ Returns!Top.type \in FrameTypes
    <3>1. Returns!Top \in CallFrames
      BY <2>2, TopIs
    <3>2. Returns!Top.type \in FrameTypes /\ v.ok \in BOOLEAN
      BY <2>2, <3>1 DEF CallFrames, ReturnedValues
    <3> QED
      BY <2>1, <2>2, <3>2 DEF Linked
  <2>4. /\ w \in ReturnedValues /\ w.type = Returns!Top.type /\ w.type # "void"
        /\ ~ Returns!Swallows(v.type, Returns!Top.type) =>
              /\ w.ok = FALSE
              /\ w.type \in Returns!Statuses => v.type \in Returns!Statuses /\ w.error = v.error
    BY <2>2, <2>3, Transformed, Zenon
  <2> HIDE DEF w
  <2>5. CallsInv'
    BY <2>1, <2>2, <2>4, LeaveKeeps DEF Delivered
  <2>6. returned' = <<w>> /\ returned'[1] = w /\ returned' # <<>>
    BY <2>1 DEF Returns!Leave
  <2>7. Returns!FailuresArrive'
    BY <2>1, <2>2, <2>4, <2>6, Zenon DEF Returns!FailuresArrive, Returns!okay
  <2> QED
    BY <2>5, <2>7
<1>7. ASSUME NEW v, Returns!LeaveMain(v) PROVE TryInv'
  <2> DEFINE w == Returns!main_transform_return(v)
  <2>1. /\ Returns!Got(v) /\ ~ v.ok /\ Returns!Top.statement = "try_main" /\ Returns!Leave(w)
        /\ swallowed' = swallowed /\ aborted' = aborted /\ raised' = raised
    BY <1>7 DEF Returns!LeaveMain, Returns!okay, Returns!Statement
  <2>2. v \in ReturnedValues /\ Linked(Returns!Top, v.type) /\ frames # <<>>
        /\ returned[1] = v /\ returned # <<>> /\ aborted = FALSE
    BY <2>1, GotIs, Zenon
  <2>3. Returns!Top.type = "int"
    BY <2>1, <2>2 DEF Linked
  <2>4. w \in ReturnedValues /\ w.type = "int" /\ w.ok = FALSE
    <3>1. FALSE \in BOOLEAN /\ Nothing \in Errors \union {Nothing} /\ "int" \in FrameTypes
      BY DEF FrameTypes
    <3> QED
      <4>1. w = Returns!Value("int", FALSE, Nothing)
        BY DEF Returns!main_transform_return
      <4>2. /\ Returns!Value("int", FALSE, Nothing) \in ReturnedValues
            /\ Returns!Value("int", FALSE, Nothing).type = "int"
            /\ Returns!Value("int", FALSE, Nothing).ok = FALSE
        BY <3>1 DEF Returns!Value, ReturnedValues
      <4> HIDE DEF w
      <4> QED
        BY <4>1, <4>2, Zenon
  <2> HIDE DEF w
  <2>5. CallsInv'
    BY <2>1, <2>2, <2>3, <2>4, LeaveKeeps DEF Delivered
  <2>6. returned' = <<w>> /\ returned'[1] = w /\ returned' # <<>> /\ w.type \notin Returns!Statuses
    BY <2>1, <2>4 DEF Returns!Leave, Returns!Statuses
  <2>7. Returns!FailuresArrive'
    BY <2>1, <2>2, <2>4, <2>6 DEF Returns!FailuresArrive, Returns!okay
  <2> QED
    BY <2>5, <2>7
<1>8. ASSUME NEW v, Returns!Abort(v) PROVE TryInv'
  <2>1. /\ Returns!Got(v) /\ ~ v.ok /\ aborted' = TRUE /\ frames' = frames
        /\ returned' = returned /\ raised' = raised /\ swallowed' = swallowed
    BY <1>8 DEF Returns!Abort, Returns!okay
  <2>2. returned[1] = v /\ returned # <<>>
    BY <2>1, GotIs, Zenon
  <2>3. CallsInv'
    BY <2>1 DEF CallsInv, Returns!Top
  <2>4. Returns!FailuresArrive'
    BY <2>1, <2>2 DEF Returns!FailuresArrive, Returns!okay
  <2> QED
    BY <2>3, <2>4
<1>9. ASSUME NEW v, Returns!LeaveOr(v) PROVE TryInv'
  <2> DEFINE w == Returns!Value("void", TRUE, Nothing)
  <2>1. /\ Returns!Got(v) /\ Returns!Top.statement = "or_return" /\ Returns!Leave(w)
        /\ raised' = <<>> /\ swallowed' = swallowed /\ aborted' = aborted
    BY <1>9, Zenon DEF Returns!LeaveOr, Returns!Statement
  <2>2. Linked(Returns!Top, v.type) /\ frames # <<>> /\ aborted = FALSE
    BY <2>1, GotIs, Zenon
  <2>3. Returns!Top.type = "void"
    BY <2>1, <2>2 DEF Linked
  <2>4. w \in ReturnedValues /\ w.type = "void" /\ w.ok = TRUE
    <3>1. TRUE \in BOOLEAN /\ Nothing \in Errors \union {Nothing} /\ "void" \in FrameTypes
      BY DEF FrameTypes, MCTypes
    <3> QED
      BY <3>1, MadeValues, Zenon
  <2> HIDE DEF w
  <2>5. CallsInv'
    BY <2>1, <2>2, <2>3, <2>4, LeaveKeeps DEF Delivered
  <2>6. returned' = <<w>> /\ returned'[1] = w /\ returned' # <<>>
    BY <2>1 DEF Returns!Leave
  <2>7. Returns!FailuresArrive'
    BY <2>1, <2>2, <2>4, <2>6 DEF Returns!FailuresArrive, Returns!okay
  <2> QED
    BY <2>5, <2>7
<1>10. ASSUME NEW v, NEW statement \in Returns!Statements, Returns!LoopOr(v, statement) PROVE TryInv'
  <2> DEFINE g == [Returns!Frame(Returns!Top.type) EXCEPT !.loop = (statement = "or_continue")]
  <2>1. /\ Returns!Got(v) /\ frames' = [frames EXCEPT ![Len(frames)] = g]
        /\ returned' = <<>> /\ raised' = <<>> /\ aborted' = aborted
    BY <1>10 DEF Returns!LoopOr
  <2>2. frames # <<>> /\ aborted = FALSE
    BY <2>1, GotIs, Zenon
  <2>3. g \in CallFrames /\ g.type = Returns!Top.type
    <3>1. Returns!Top.type \in FrameTypes
      BY <2>2, TopIs DEF CallFrames
    <3> DEFINE t == Returns!Top.type
    <3> HIDE DEF t
    <3>2. /\ [Returns!Frame(t) EXCEPT !.loop = (statement = "or_continue")].type = t
          /\ [Returns!Frame(t) EXCEPT !.loop = (statement = "or_continue")]
             = [type |-> t, statement |-> "none", loop |-> (statement = "or_continue")]
      BY DEF Returns!Frame
    <3>3. (statement = "or_continue") \in BOOLEAN
      OBVIOUS
    <3>4. [Returns!Frame(t) EXCEPT !.loop = (statement = "or_continue")] \in CallFrames
      BY <3>1, <3>2, <3>3, Zenon DEF t, CallFrames
    <3> QED
      BY <3>2, <3>4 DEF t
  <2> HIDE DEF g
  <2>4. CallsInv'
    BY <2>1, <2>2, <2>3, GoOnKeeps, Zenon
  <2>5. Returns!FailuresArrive'
    BY <2>1, <2>2 DEF Returns!FailuresArrive
  <2> QED
    BY <2>4, <2>5
<1>11. ASSUME UNCHANGED returnVars PROVE TryInv'
  <2>1. /\ frames' = frames /\ returned' = returned /\ aborted' = aborted
        /\ raised' = raised /\ swallowed' = swallowed
    BY <1>11 DEF returnVars
  <2>2. CallsInv'
    BY <2>1 DEF CallsInv, Returns!Top
  <2>3. Returns!FailuresArrive'
    BY <2>1 DEF Returns!FailuresArrive, Returns!okay
  <2> QED
    BY <2>2, <2>3
<1> HIDE DEF TryInv
<1> QED
  BY <1>1, <1>2, <1>3, <1>4, <1>5, <1>6, <1>7, <1>8, <1>9, <1>10, <1>11 DEF Returns!Next

-----------------------------------------------------------------------------
(* All of them.  In a behaviour one component steps, as component says, and *)
(* the variables of the others stay.                                        *)

\* What a step of AnyNext is to each component.
LEMMA OneSteps ==
    ASSUME [AnyNext]_allVars
    PROVE  /\ component' = component
           /\ [Runner!Next]_runnerVars /\ [Fakes!Next]_fakeVars
           /\ [Benchmarks!Next]_benchmarkVars
           /\ [Spans!Next]_spanVars /\ [Offsets!Next]_offsetVars
           /\ [Unions!Next]_unionVars /\ [Disk!Next]_diskVars
           /\ [Trees!Next]_treeVars /\ [Returns!Next]_returnVars
<1>1. CASE UNCHANGED allVars
  BY <1>1 DEF allVars
<1>2. CASE AnyNext
  <2>1. PICK c \in Components : Only(c)
    BY <1>2 DEF AnyNext, Components
  <2>2. component' = component
    BY <2>1 DEF Only
  <2>3. [Runner!Next]_runnerVars
    <3>1. CASE c = "test_runner"
      BY <1>2, <2>1, <3>1 DEF AnyNext, Only
    <3>2. CASE c # "test_runner"
      <4>1. Same("test_runner")
        BY <2>1, <3>2 DEF Only, Components
      <4> QED
        BY <4>1 DEF Same
    <3> QED
      BY <3>1, <3>2
  <2>4. [Fakes!Next]_fakeVars
    <3>1. CASE c = "fake"
      BY <1>2, <2>1, <3>1 DEF AnyNext, Only
    <3>2. CASE c # "fake"
      <4>1. Same("fake")
        BY <2>1, <3>2 DEF Only, Components
      <4> QED
        BY <4>1 DEF Same
    <3> QED
      BY <3>1, <3>2
  <2>5. [Benchmarks!Next]_benchmarkVars
    <3>1. CASE c = "benchmark"
      BY <1>2, <2>1, <3>1 DEF AnyNext, Only
    <3>2. CASE c # "benchmark"
      <4>1. Same("benchmark")
        BY <2>1, <3>2 DEF Only, Components
      <4> QED
        BY <4>1 DEF Same
    <3> QED
      BY <3>1, <3>2
  <2>6. [Spans!Next]_spanVars
    <3>1. CASE c = "span"
      BY <1>2, <2>1, <3>1 DEF AnyNext, Only
    <3>2. CASE c # "span"
      <4>1. Same("span")
        BY <2>1, <3>2 DEF Only, Components
      <4> QED
        BY <4>1 DEF Same
    <3> QED
      BY <3>1, <3>2
  <2>7. [Offsets!Next]_offsetVars
    <3>1. CASE c = "offset_ptr"
      BY <1>2, <2>1, <3>1 DEF AnyNext, Only
    <3>2. CASE c # "offset_ptr"
      <4>1. Same("offset_ptr")
        BY <2>1, <3>2 DEF Only, Components
      <4> QED
        BY <4>1 DEF Same
    <3> QED
      BY <3>1, <3>2
  <2>8. [Unions!Next]_unionVars
    <3>1. CASE c = "ptr_union"
      BY <1>2, <2>1, <3>1 DEF AnyNext, Only
    <3>2. CASE c # "ptr_union"
      <4>1. Same("ptr_union")
        BY <2>1, <3>2 DEF Only, Components
      <4> QED
        BY <4>1 DEF Same
    <3> QED
      BY <3>1, <3>2
  <2>9. [Disk!Next]_diskVars
    <3>1. CASE c = "files"
      BY <1>2, <2>1, <3>1 DEF AnyNext, Only
    <3>2. CASE c # "files"
      <4>1. Same("files")
        BY <2>1, <3>2 DEF Only, Components
      <4> QED
        BY <4>1 DEF Same
    <3> QED
      BY <3>1, <3>2
  <2>10. [Trees!Next]_treeVars
    <3>1. CASE c = "tree"
      BY <1>2, <2>1, <3>1 DEF AnyNext, Only
    <3>2. CASE c # "tree"
      <4>1. Same("tree")
        BY <2>1, <3>2 DEF Only, Components
      <4> QED
        BY <4>1 DEF Same
    <3> QED
      BY <3>1, <3>2
  <2>11. [Returns!Next]_returnVars
    <3>1. CASE c = "try"
      BY <1>2, <2>1, <3>1 DEF AnyNext, Only
    <3>2. CASE c # "try"
      <4>1. Same("try")
        BY <2>1, <3>2 DEF Only, Components
      <4> QED
        BY <4>1 DEF Same
    <3> QED
      BY <3>1, <3>2
  <2> QED
    BY <2>2, <2>3, <2>4, <2>5, <2>6, <2>7, <2>8, <2>9, <2>10, <2>11
<1> QED
  BY <1>1, <1>2

\* The runner lists every test, and every parameterized one with each of its
\* invocations, once and runs it once; a test is reported to have failed if and
\* only if a contract was violated in it, but for threads that outlive one; and the
\* exit code says whether any did (src/nth/test).  A call of a fake goes to what
\* the innermost scope installed, and each scope puts back what it found
\* (fakeable_function.h).  A timer that a benchmark came to is reported once, with what
\* its blocks took after the warm-up (src/nth/test/benchmark.h), unless it registered
\* with the sampler of an earlier run of the scope.
THEOREM TestingExactHolds == AnySpec => []TestingExact
<1> DEFINE TestingInv == RunnerInv /\ FakeInv /\ BenchmarkInv
<1>1. AnyInit => TestingInv
  BY RunnerInit, FakeInit, BenchmarkInit DEF AnyInit
<1>2. KindsApart
  BY UtilitiesAssumption DEF ConstantsFit, KindsApart
<1>3. TestingInv /\ [AnyNext]_allVars => TestingInv'
  BY <1>2, OneSteps, UtilitiesAssumption, RunnerStep, FakeStep, BenchmarkStep
<1>4. TestingInv => TestingExact
  BY RunnerRight, FakeRight DEF TestingExact, BenchmarkInv
<1> HIDE DEF TestingInv
<1> QED
  BY <1>1, <1>3, <1>4, PTL DEF AnySpec

\* A span of projections has the elements it was cut down to, and its iterators
\* walk over them in either direction; an offset pointer refers to what it was
\* made to, wherever it is copied or moved; and a union of pointers, of any types
\* that the static_assert admits, gives back the type and the address it was made
\* from, if the mask has a value for that type.
THEOREM ViewsExactHolds == AnySpec => []ViewsExact
<1> DEFINE Unioned == component = "ptr_union" => UnionInv
           ViewsInv == SpanInv /\ OffsetInv /\ Unioned
<1>1. AnyInit => ViewsInv
  BY UtilitiesAssumption, SpanInit, OffsetInit, UnionInit DEF AnyInit
<1>2. ViewsInv /\ [AnyNext]_allVars => ViewsInv'
  BY OneSteps, UtilitiesAssumption, SpanStep, OffsetStep, UnionStep
<1>3. ViewsInv => ViewsExact
  BY UtilitiesAssumption, SpanRight, OffsetRight, UnionRight DEF ViewsExact
<1> HIDE DEF ViewsInv
<1> QED
  BY <1>1, <1>2, <1>3, PTL DEF AnySpec

\* What a writer said is written is in its file, or still in its buffer; what is
\* read is what the file has, from its start, by any of the copies of a reader; a
\* string has no byte that was reserved and not read: as long as no call of stdio
\* failed of that stream and nobody opens the file again to write it.  Whatever
\* fails, no stream has two writers or two files or a file and a reader, and none
\* is closed but by a writer that aborts or a file whose close failed (src/nth/io).
THEOREM FilesExactHolds == AnySpec => []FilesExact
<1>1. AnyInit => FilesInv
  BY FilesInit DEF AnyInit
<1>2. FilesInv /\ [AnyNext]_allVars => FilesInv'
  BY OneSteps, FilesStep
<1>3. FilesInv => FilesExact
  BY FilesRight DEF FilesExact
<1> QED
  BY <1>1, <1>2, <1>3, PTL DEF AnySpec

\* On a tree whose nodes come before those they push, whichever and however
\* many, and with any of the functions: the calls made are at every moment the
\* first of those that the documentation promises, and all when the stack is
\* empty (src/nth/algorithm/tree.h).
THEOREM TraversalsFollow ==
    Numbered /\ stack = Trees!Nodes(roots) /\ events = <<>> /\ [][Trees!Next]_treeVars
    => []Trees!TraversalExact
<1>1. Numbered /\ stack = Trees!Nodes(roots) /\ events = <<>> => TreeInv
  BY TreeBegins
<1>2. TreeInv /\ [Trees!Next]_treeVars => TreeInv'
  BY TreeStep
<1>3. TreeInv => Trees!TraversalExact
  BY TreeRight
<1> QED
  BY <1>1, <1>2, <1>3, PTL

\* A traversal calls what it is documented to, in that order
\* (src/nth/algorithm/tree.h); and while a failure is on its way up, what
\* functions return is not okay and says what it said where it came from, main
\* exits with 1, and nothing but a failure makes a function leave like that
\* (src/nth/try/internal/try.h), unless one returned it as a success.
THEOREM ControlExactHolds == AnySpec => []ControlExact
<1> DEFINE Traversed == component = "tree" => TreeInv
           ControlInv == Traversed /\ TryInv
<1>1. AnyInit => ControlInv
  BY TreeInit, TryInit DEF AnyInit
<1>2. ControlInv /\ [AnyNext]_allVars => ControlInv'
  BY OneSteps, TreeStep, TryStep
<1>3. ControlInv => ControlExact
  BY TreeRight DEF ControlExact, TryInv
<1> HIDE DEF ControlInv
<1> QED
  BY <1>1, <1>2, <1>3, PTL DEF AnySpec
=============================================================================
