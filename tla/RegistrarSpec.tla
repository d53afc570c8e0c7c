--------------------------- MODULE RegistrarSpec ---------------------------
(***************************************************************************)
(* What nth::registrar<T> promises (registration/registrar.h:11-16): items *)
(* are only ever added, and `registry` hands out "the list of all T that   *)
(* were registered when registry was invoked", which can be walked at any  *)
(* later time while other threads keep registering.                        *)
(*                                                                         *)
(* There is no mutex, node or pointer here: an insertion and an invocation *)
(* of `registry` each happen at one instant.                               *)
(***************************************************************************)
EXTENDS Integers, Sequences, FiniteSets, FiniteSetTheorems, TLAPS

CONSTANTS
    Registrars,   \* the registrar<T> objects of one type T
    Threads,      \* the threads that use them
    Values        \* the objects of type T that can be registered

VARIABLES
    registered,   \* per registrar, what was registered in it, oldest first
    walking,      \* the threads that are in the middle of a walk
    snapshot,     \* per thread, what was registered when it called registry()
    seen          \* per thread, what its latest walk has visited so far

vars == <<registered, walking, snapshot, seen>>

Init ==
    /\ registered = [r \in Registrars |-> <<>>]
    /\ walking = {}
    /\ snapshot = [t \in Threads |-> <<>>]
    /\ seen = [t \in Threads |-> <<>>]

Insert(r, v) ==
    /\ registered' = [registered EXCEPT ![r] = Append(@, v)]
    /\ UNCHANGED <<walking, snapshot, seen>>

Registry(t, r) ==
    /\ t \notin walking
    /\ walking' = walking \union {t}
    /\ snapshot' = [snapshot EXCEPT ![t] = registered[r]]
    /\ seen' = [seen EXCEPT ![t] = <<>>]
    /\ UNCHANGED registered

\* The walk visits the snapshot from its newest item to its oldest one.
Visit(t) ==
    /\ t \in walking
    /\ Len(seen[t]) < Len(snapshot[t])
    /\ seen' = [seen EXCEPT ![t] =
                   Append(@, snapshot[t][Len(snapshot[t]) - Len(@)])]
    /\ UNCHANGED <<registered, walking, snapshot>>

\* A walk ends only when everything in the snapshot has been visited.
Finish(t) ==
    /\ t \in walking
    /\ Len(seen[t]) = Len(snapshot[t])
    /\ walking' = walking \ {t}
    /\ UNCHANGED <<registered, snapshot, seen>>

Next ==
    \/ \E r \in Registrars, v \in Values : Insert(r, v)
    \/ \E t \in Threads :
          \/ \E r \in Registrars : Registry(t, r)
          \/ Visit(t)
          \/ Finish(t)

Spec == Init /\ [][Next]_vars

-----------------------------------------------------------------------------
(* What a walk has visited, for the modules that use a registrar.          *)

\* How often x occurs in seq.
Occurrences(seq, x) == Cardinality({i \in DOMAIN seq : seq[i] = x})

\* seq begins with all of start.
Begins(start, seq) ==
    /\ Len(start) <= Len(seq)
    /\ \A i \in 1 .. Len(start) : start[i] = seq[i]

\* A walk of registrar r has visited the newest items of the snapshot, which
\* is still the oldest part of what is registered.
WalkOf(t, r) ==
    /\ Begins(snapshot[t], registered[r])
    /\ Len(seen[t]) <= Len(snapshot[t])
    /\ \A i \in 1 .. Len(seen[t]) : seen[t][i] = snapshot[t][Len(snapshot[t]) + 1 - i]

Visited(t) == Len(seen[t]) = Len(snapshot[t])

-----------------------------------------------------------------------------
(* Lemmas about them.                                                      *)

\* An item occurs at most as often as there are items.
LEMMA OccurrencesType ==
    ASSUME NEW S, NEW seq \in Seq(S), NEW x
    PROVE  /\ IsFiniteSet({i \in DOMAIN seq : seq[i] = x})
           /\ Occurrences(seq, x) \in Nat
           /\ Occurrences(seq, x) <= Len(seq)
  <1> DEFINE At == {i \in DOMAIN seq : seq[i] = x}
  <1>1. Len(seq) \in Nat /\ DOMAIN seq = 1 .. Len(seq)
    OBVIOUS
  <1>2. IsFiniteSet(1 .. Len(seq)) /\ Cardinality(1 .. Len(seq)) = Len(seq)
    BY <1>1, FS_Interval
  <1>3. At \in SUBSET (1 .. Len(seq))
    BY <1>1
  <1>4. IsFiniteSet(At) /\ Cardinality(At) <= Len(seq)
    BY <1>2, <1>3, FS_Subset
  <1>5. Cardinality(At) \in Nat
    BY <1>4, FS_CardinalityType
  <1> QED
    BY <1>1, <1>4, <1>5 DEF Occurrences

LEMMA OccurrencesEmpty ==
    ASSUME NEW x
    PROVE  Occurrences(<<>>, x) = 0
  <1>1. {i \in DOMAIN <<>> : <<>>[i] = x} = {}
    OBVIOUS
  <1> QED
    BY <1>1, FS_EmptySet DEF Occurrences

LEMMA OccurrencesAppend ==
    ASSUME NEW S, NEW seq \in Seq(S), NEW v \in S, NEW x
    PROVE  Occurrences(Append(seq, v), x) = Occurrences(seq, x) + (IF v = x THEN 1 ELSE 0)
  <1> DEFINE n == Len(seq) + 1
             Old == {i \in DOMAIN seq : seq[i] = x}
             New == {i \in DOMAIN Append(seq, v) : Append(seq, v)[i] = x}
  <1>1. /\ DOMAIN seq = 1 .. Len(seq)
        /\ DOMAIN Append(seq, v) = 1 .. n
        /\ Append(seq, v)[n] = v
        /\ \A i \in 1 .. Len(seq) : Append(seq, v)[i] = seq[i]
    OBVIOUS
  <1>2. IsFiniteSet(Old) /\ Cardinality(Old) \in Nat
    BY OccurrencesType, FS_CardinalityType
  <1>3. n \notin Old
    BY <1>1
  <1>4. CASE v = x
    <2>1. New = Old \cup {n}
      BY <1>1, <1>4
    <2>2. Cardinality(New) = Cardinality(Old) + 1
      BY <1>2, <1>3, <2>1, FS_AddElement
    <2> QED
      BY <1>4, <2>2 DEF Occurrences
  <1>5. CASE v # x
    <2>1. New = Old
      BY <1>1, <1>5
    <2>2. Occurrences(Append(seq, v), x) = Occurrences(seq, x)
      BY <2>1 DEF Occurrences
    <2>3. Occurrences(seq, x) \in Nat
      BY <1>2 DEF Occurrences
    <2> QED
      BY <1>5, <2>2, <2>3
  <1> QED
    BY <1>4, <1>5

\* A sequence has all that its beginning has.
LEMMA OccurrencesBegins ==
    ASSUME NEW S, NEW start \in Seq(S), NEW seq \in Seq(S), Begins(start, seq), NEW x
    PROVE  Occurrences(start, x) <= Occurrences(seq, x)
  <1> DEFINE Few == {i \in DOMAIN start : start[i] = x}
             Many == {i \in DOMAIN seq : seq[i] = x}
  <1>1. Few \in SUBSET Many
    BY DEF Begins
  <1>2. IsFiniteSet(Many)
    BY OccurrencesType
  <1> QED
    BY <1>1, <1>2, FS_Subset DEF Occurrences

\* A sequence and its reversal have the same items equally often.
LEMMA OccurrencesReversed ==
    ASSUME NEW S, NEW s \in Seq(S), NEW r \in Seq(S), Len(s) = Len(r),
           \A i \in 1 .. Len(s) : s[i] = r[Len(r) + 1 - i],
           NEW x
    PROVE  Occurrences(s, x) = Occurrences(r, x)
  <1> DEFINE n == Len(r)
             A == {i \in DOMAIN s : s[i] = x}
             B == {i \in DOMAIN r : r[i] = x}
             f == [i \in A |-> n + 1 - i]
  <1>1. n \in Nat /\ DOMAIN s = 1 .. n /\ DOMAIN r = 1 .. n
    OBVIOUS
  <1>2. A \subseteq 1 .. n /\ B \subseteq 1 .. n
    BY <1>1
  <1>3. \A i \in A : f[i] \in B
    BY <1>1
  <1>4. \A i, j \in A : f[i] = f[j] => i = j
    BY <1>1
  <1>5. \A j \in B : n + 1 - j \in A /\ f[n + 1 - j] = j
    BY <1>1
  <1> HIDE DEF A, B
  <1>6. f \in [A -> B]
    BY <1>3
  <1>7. ExistsBijection(A, B)
    <2>1. f \in Injection(A, B)
      BY <1>4, <1>6 DEF Injection, IsInjective
    <2>2. \A j \in B : \E i \in A : f[i] = j
      BY <1>5
    <2>3. f \in Surjection(A, B)
      BY <1>6, <2>2 DEF Surjection
    <2> QED
      BY <2>1, <2>3 DEF ExistsBijection, Bijection
  <1>8. IsFiniteSet(A)
    BY OccurrencesType DEF A
  <1>9. Cardinality(A) = Cardinality(B)
    BY <1>7, <1>8, FS_Bijection
  <1> QED
    BY <1>9 DEF A, B, Occurrences

\* What begins a sequence begins whatever is appended to it, and so on.
LEMMA BeginsAppend ==
    ASSUME NEW S, NEW start \in Seq(S), NEW seq \in Seq(S), NEW v \in S,
           Begins(start, seq)
    PROVE  Begins(start, Append(seq, v))
  BY DEF Begins

LEMMA BeginsTransitive ==
    ASSUME NEW S, NEW a \in Seq(S), NEW b \in Seq(S), NEW c \in Seq(S),
           Begins(a, b), Begins(b, c)
    PROVE  Begins(a, c)
  BY DEF Begins

\* The steps of a registrar, taken by a thread u or about a registrar q, keep
\* the walks of the others, and the types.
LEMMA WalkInsert ==
    ASSUME NEW r \in Registrars, NEW v \in Values, NEW q \in Registrars, NEW t,
           registered \in [Registrars -> Seq(Values)], snapshot[t] \in Seq(Values),
           Insert(q, v), WalkOf(t, r)
    PROVE  WalkOf(t, r)'
  <1>1. snapshot' = snapshot /\ seen' = seen
    BY DEF Insert
  <1>2. Begins(snapshot[t], registered'[r])
    <2>1. registered[r] \in Seq(Values) /\ Begins(snapshot[t], registered[r])
      BY DEF WalkOf
    <2>2. registered'[r] = IF r = q THEN Append(registered[r], v) ELSE registered[r]
      BY DEF Insert
    <2> QED
      BY <2>1, <2>2, BeginsAppend
  <1> QED
    BY <1>1, <1>2 DEF WalkOf

LEMMA WalkRegistry ==
    ASSUME NEW r \in Registrars, NEW u \in Threads, NEW t \in Threads,
           registered \in [Registrars -> Seq(Values)],
           snapshot \in [Threads -> Seq(Values)], seen \in [Threads -> Seq(Values)],
           Registry(u, r), WalkOf(t, r)
    PROVE  /\ WalkOf(t, r)'
           /\ snapshot' \in [Threads -> Seq(Values)]
           /\ seen' \in [Threads -> Seq(Values)]
  <1>1. registered[r] \in Seq(Values) /\ <<>> \in Seq(Values)
    OBVIOUS
  <1>2. snapshot' \in [Threads -> Seq(Values)] /\ seen' \in [Threads -> Seq(Values)]
    BY <1>1 DEF Registry
  <1>3. CASE t = u
    <2>1. snapshot'[t] = registered'[r] /\ seen'[t] = <<>> /\ registered' = registered
      BY <1>3 DEF Registry
    <2> QED
      BY <1>1, <1>2, <2>1 DEF WalkOf, Begins
  <1>4. CASE t # u
    BY <1>2, <1>4 DEF Registry, WalkOf
  <1> QED
    BY <1>3, <1>4

LEMMA WalkVisit ==
    ASSUME NEW r \in Registrars, NEW u \in Threads, NEW t \in Threads,
           snapshot \in [Threads -> Seq(Values)], seen \in [Threads -> Seq(Values)],
           Visit(u), WalkOf(t, r)
    PROVE  /\ WalkOf(t, r)'
           /\ seen' \in [Threads -> Seq(Values)]
           /\ \E v \in Values : seen'[u] = Append(seen[u], v)
  <1> DEFINE v == snapshot[u][Len(snapshot[u]) - Len(seen[u])]
  <1>1. /\ snapshot[u] \in Seq(Values) /\ seen[u] \in Seq(Values)
        /\ Len(seen[u]) < Len(snapshot[u])
    BY DEF Visit
  <1>2. v \in Values
    BY <1>1
  <1>3. seen' = [seen EXCEPT ![u] = Append(@, v)]
    BY DEF Visit
  <1> HIDE DEF v
  <1>4. /\ seen' \in [Threads -> Seq(Values)]
        /\ v \in Values /\ seen'[u] = Append(seen[u], v)
    BY <1>1, <1>2, <1>3
  <1>5. registered' = registered /\ snapshot' = snapshot
    BY DEF Visit
  <1>6. ASSUME t = u PROVE WalkOf(t, r)'
    <2> DEFINE n == Len(snapshot[t])
               m == Len(seen[t])
    <2>1. /\ n \in Nat /\ m \in Nat /\ m < n
          /\ seen'[t] = Append(seen[t], v)
          /\ Len(seen'[t]) = m + 1
          /\ \A i \in 1 .. m : seen'[t][i] = seen[t][i]
          /\ seen'[t][m + 1] = v
      BY <1>1, <1>2, <1>4, <1>6
    <2>2. v = snapshot[t][n - m]
      BY <1>6 DEF v
    <2>3. \A i \in 1 .. m : seen[t][i] = snapshot[t][n + 1 - i]
      BY DEF WalkOf
    <2> HIDE DEF n, m
    <2>4. \A i \in 1 .. m + 1 : seen'[t][i] = snapshot[t][n + 1 - i]
      <3> SUFFICES ASSUME NEW i \in 1 .. m + 1
                   PROVE  seen'[t][i] = snapshot[t][n + 1 - i]
        OBVIOUS
      <3>1. CASE i = m + 1
        BY <2>1, <2>2, <3>1, n + 1 - i = n - m
      <3>2. CASE i \in 1 .. m
        BY <2>1, <2>3, <3>2
      <3> QED
        BY <2>1, <3>1, <3>2
    <2>5. Begins(snapshot'[t], registered'[r])
      BY <1>5 DEF WalkOf
    <2>6. Len(seen'[t]) <= Len(snapshot'[t])
      BY <1>5, <2>1 DEF n
    <2> QED
      BY <1>5, <2>1, <2>4, <2>5, <2>6 DEF WalkOf, n
  <1>7. ASSUME t # u PROVE WalkOf(t, r)'
    <2>1. seen'[t] = seen[t]
      BY <1>3, <1>7
    <2> QED
      BY <1>5, <2>1 DEF WalkOf
  <1> QED
    BY <1>4, <1>6, <1>7

\* A complete walk has visited every item that began its snapshot as often as
\* it was registered then, and none oftener than it is registered.
LEMMA WalkVisited ==
    ASSUME NEW t, NEW r, NEW start \in Seq(Values), NEW x,
           registered[r] \in Seq(Values), snapshot[t] \in Seq(Values),
           seen[t] \in Seq(Values),
           WalkOf(t, r), Visited(t), Begins(start, snapshot[t])
    PROVE  Occurrences(seen[t], x) \in Occurrences(start, x) .. Occurrences(registered[r], x)
  <1>1. Occurrences(seen[t], x) = Occurrences(snapshot[t], x)
    BY OccurrencesReversed DEF WalkOf, Visited
  <1>2. Occurrences(start, x) <= Occurrences(snapshot[t], x)
    BY OccurrencesBegins
  <1>3. Occurrences(snapshot[t], x) <= Occurrences(registered[r], x)
    BY OccurrencesBegins DEF WalkOf
  <1>4. /\ Occurrences(start, x) \in Int /\ Occurrences(snapshot[t], x) \in Int
        /\ Occurrences(registered[r], x) \in Int
    <2>1. \A seq \in Seq(Values) : Occurrences(seq, x) \in Nat
      BY OccurrencesType, Zenon
    <2> QED
      BY <2>1
  <1> QED
    BY <1>1, <1>2, <1>3, <1>4
=============================================================================
