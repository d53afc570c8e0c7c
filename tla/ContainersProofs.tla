-------------------------- MODULE ContainersProofs --------------------------
(***************************************************************************)
(* Proofs about the containers, on instances of any size: the flat forest, *)
(* by itself (Spec), and the disjoint sets, interval maps, interval sets,  *)
(* stacks and stable containers, each among the others (AnySpec).          *)
(***************************************************************************)
EXTENDS MCContainers, FiniteSetTheorems, FunctionTheorems, SequenceTheorems,
        WellFoundedInduction, TLAPS

-----------------------------------------------------------------------------
(* Sets and sequences.                                                     *)

LEMMA Elements ==
    ASSUME NEW S, NEW T, S \subseteq T, NEW q \in Seq(S)
    PROVE  q \in Seq(T) /\ \A i \in DOMAIN q : q[i] \in S
  OBVIOUS

\* A family of subsets of a finite set has one with no other inside it.
LEMMA Smallest ==
    ASSUME NEW S, IsFiniteSet(S), NEW F, F \subseteq SUBSET S, F # {}
    PROVE  \E T \in F : \A U \in F : U \subseteq T => U = T
  <1>1. F \subseteq FiniteSubsetsOf(S)
    BY FS_Subset DEF FiniteSubsetsOf
  <1>2. IsWellFoundedOn(StrictSubsetOrdering(S), FiniteSubsetsOf(S))
    BY FS_StrictSubsetOrderingWellFounded
  <1>3. PICK T \in F : \A U \in F : ~ (<<U, T>> \in StrictSubsetOrdering(S))
    BY <1>1, <1>2, WFMin
  <1> QED
    BY <1>1, <1>3 DEF StrictSubsetOrdering

-----------------------------------------------------------------------------
(* The flat forest.  That appending an ancestor cuts no tree in two rests  *)
(* on the walk: when it stops at the cutpoint, no subtree reaches across   *)
(* (WalkOnRoots); and that a turn of the walk keeps this rests on the      *)
(* nesting of subtrees.                                                    *)

\* A position of the vector has a size, and begins before itself.
LEMMA BeforePosition ==
    ASSUME TypeOK, NEW p \in Positions
    PROVE  nodes[p] \in Nat \ {0} /\ Before(p) \in Int /\ Before(p) < p
<1>1. nodes[p] \in Nat \ {0} /\ p \in Int
  BY DEF TypeOK, Positions
<1> QED
  BY <1>1 DEF Before

\* What Append does to a forest: the positions there were keep their sizes.
LEMMA Appended ==
    ASSUME TypeOK, NEW s \in Nat \ {0}, nodes' = Append(nodes, s)
    PROVE  /\ nodes' \in Seq(Nat \ {0})
           /\ Len(nodes) \in Nat /\ Len(nodes') = Len(nodes) + 1
           /\ \A p \in Positions : nodes'[p] = nodes[p] /\ Before(p)' = Before(p)
           /\ nodes'[Len(nodes) + 1] = s
<1>1. nodes \in Seq(Nat \ {0})
  BY DEF TypeOK
<1>2. /\ nodes' \in Seq(Nat \ {0})
      /\ Len(nodes) \in Nat /\ Len(nodes') = Len(nodes) + 1
      /\ \A p \in Positions : nodes'[p] = nodes[p]
      /\ nodes'[Len(nodes) + 1] = s
  BY <1>1 DEF Positions
<1> QED
  BY <1>2 DEF Before

LEMMA InitInv == Init => IInv
<1> SUFFICES ASSUME Init PROVE IInv
  OBVIOUS
<1>1. nodes = <<>> /\ Len(nodes) = 0
  BY DEF Init
<1>2. TypeOK
  BY <1>1 DEF Init, TypeOK
<1>3. Laminar /\ WalkOnRoots
  BY <1>1 DEF Init, Laminar, WalkOnRoots, Positions
<1> QED
  BY <1>2, <1>3 DEF IInv

\* Appending a node that begins where no subtree reaches across keeps subtrees
\* nested or disjoint.
LEMMA AppendKeepsLaminar ==
    ASSUME IInv, NEW from \in 0 .. Len(nodes),
           nodes' = Append(nodes, Len(nodes) - from + 1),
           \A p \in from + 1 .. Len(nodes) : Before(p) >= from
    PROVE  Laminar'
<1> DEFINE n == Len(nodes)
<1>1. TypeOK /\ Laminar
  BY DEF IInv
<1>2. n \in Nat
  BY <1>1 DEF TypeOK
<1>3. n - from + 1 \in Nat \ {0}
  BY <1>2
<1>4. /\ Len(nodes') = n + 1
      /\ \A p \in Positions : Before(p)' = Before(p)
      /\ nodes'[n + 1] = n - from + 1
  BY <1>1, <1>3, Appended
<1>5. \A p \in Nat : p = n + 1 => Before(p)' = from
  BY <1>2, <1>4 DEF Before
<1>6. \A p \in Positions :
         /\ p \in 1 .. n /\ Before(p) \in 0 .. p - 1
         /\ \A q \in p + 1 .. n : Before(q) >= p \/ Before(q) <= Before(p)
  BY <1>1 DEF Laminar, Positions
<1>7. SUFFICES ASSUME NEW p \in 1 .. n + 1
               PROVE  /\ Before(p)' \in 0 .. p - 1
                      /\ \A q \in p + 1 .. n + 1 :
                            Before(q)' >= p \/ Before(q)' <= Before(p)'
  BY <1>4 DEF Laminar, Positions
<1>8. CASE p = n + 1
  BY <1>2, <1>5, <1>8
<1>9. CASE p \in 1 .. n
  <2>1. p \in Positions /\ Before(p)' = Before(p)
    BY <1>4, <1>9 DEF Positions
  <2>2. Before(p) \in 0 .. p - 1
    BY <1>6, <2>1
  <2>3. ASSUME NEW q \in p + 1 .. n + 1
        PROVE  Before(q)' >= p \/ Before(q)' <= Before(p)'
    <3>1. CASE q = n + 1
      <4>1. CASE p <= from
        BY <1>5, <3>1, <4>1
      <4>2. CASE p > from
        <5>1. p \in from + 1 .. n
          BY <1>2, <1>9, <4>2
        <5>2. Before(p) >= from
          BY <5>1
        <5> QED
          BY <1>5, <2>1, <3>1, <5>2
      <4> QED
        BY <4>1, <4>2, <1>9
    <3>2. CASE q \in p + 1 .. n
      <4>1. q \in Positions /\ Before(q)' = Before(q)
        BY <1>2, <1>4, <1>9, <3>2 DEF Positions
      <4> QED
        BY <1>6, <2>1, <3>2, <4>1
    <3> QED
      BY <1>2, <1>9, <3>1, <3>2
  <2> QED
    BY <2>1, <2>2, <2>3
<1> QED
  BY <1>2, <1>8, <1>9

\* A turn of the walk goes from the end of a tree to the end of another.
LEMMA SkipKeepsWalk ==
    ASSUME IInv, SkipTree
    PROVE  TypeOK' /\ WalkOnRoots'
<1> DEFINE n == Len(nodes)
<1>1. /\ TypeOK /\ Laminar
      /\ \A p \in loc + 1 .. n : Before(p) >= loc
  BY DEF IInv, WalkOnRoots, SkipTree
<1>2. /\ n \in Nat /\ loc \in 0 .. n /\ index \in 0 .. n /\ loc > index
      /\ loc' = Before(loc)
      /\ nodes' = nodes /\ step' = "check" /\ index' = index
  BY <1>1 DEF SkipTree, TypeOK, Before
<1>3. loc \in Positions
  BY <1>2 DEF Positions
<1>4. Before(loc) \in 0 .. loc - 1
  BY <1>1, <1>3 DEF Laminar
<1>5. TypeOK'
  BY <1>1, <1>2, <1>4 DEF TypeOK
<1>6. ASSUME NEW p \in Before(loc) + 1 .. n
      PROVE  Before(p) >= Before(loc)
  <2>1. p \in Positions
    BY <1>2, <1>4 DEF Positions
  <2>2. Before(p) \in Int
    BY <1>1, <2>1, BeforePosition
  <2>3. CASE p > loc
    <3>1. Before(p) >= loc
      BY <1>1, <1>2, <2>3
    <3> QED
      BY <1>2, <1>4, <2>2, <3>1
  <2>4. CASE p = loc
    BY <2>2, <2>4
  <2>5. CASE p < loc
    <3>1. loc \in p + 1 .. n
      BY <1>2, <1>4, <2>5
    <3>2. Before(loc) >= p \/ Before(loc) <= Before(p)
      BY <1>1, <2>1, <3>1 DEF Laminar
    <3> QED
      BY <1>4, <2>2, <3>2
  <2> QED
    BY <1>2, <1>4, <2>3, <2>4, <2>5
<1>7. ASSUME Before(loc) < index PROVE Across(index)
  BY <1>2, <1>3, <1>7 DEF Across
<1>8. /\ Across(index)' <=> Across(index)
      /\ \A p : Before(p)' = Before(p)
  BY <1>2 DEF Across, Positions, Before
<1> QED
  BY <1>2, <1>5, <1>6, <1>7, <1>8 DEF WalkOnRoots

LEMMA StepInv == IInv /\ [Next]_vars => IInv'
<1> SUFFICES ASSUME IInv, [Next]_vars PROVE IInv'
  OBVIOUS
<1> DEFINE n == Len(nodes)
<1>1. TypeOK /\ Laminar /\ WalkOnRoots /\ n \in Nat
  BY DEF IInv, TypeOK
<1>2. ASSUME nodes' = nodes PROVE Laminar'
  BY <1>1, <1>2 DEF Laminar, Positions, Before
<1>3. CASE AppendLeaf
  <2>1. nodes' = Append(nodes, n - n + 1) /\ n \in 0 .. n
    BY <1>1, <1>3 DEF AppendLeaf
  <2>2. Laminar'
    <3>1. \A p \in n + 1 .. n : Before(p) >= n
      BY <1>1
    <3> QED
      BY <2>1, <3>1, AppendKeepsLaminar
  <2>3. nodes' \in Seq(Nat \ {0}) /\ Len(nodes') = n + 1
    BY <1>1, <1>3, Appended DEF AppendLeaf
  <2>4. TypeOK' /\ WalkOnRoots'
    BY <1>1, <1>3, <2>3 DEF AppendLeaf, TypeOK, WalkOnRoots
  <2> QED
    BY <2>2, <2>4 DEF IInv
<1>4. ASSUME NEW i \in 0 .. n - 1, AppendAncestor(i)
      PROVE  IInv'
  <2>1. nodes' = nodes /\ step' = "check" /\ index' = i /\ i < n /\ loc' = n
    BY <1>4 DEF AppendAncestor
  <2>2. TypeOK'
    BY <1>1, <2>1 DEF TypeOK
  <2>3. WalkOnRoots'
    BY <1>1, <2>1 DEF WalkOnRoots
  <2> QED
    BY <1>2, <2>1, <2>2, <2>3 DEF IInv
<1>5. CASE SkipTree
  BY <1>2, <1>5, SkipKeepsWalk DEF SkipTree, IInv
<1>6. CASE Adopt
  <2>1. /\ step = "check" /\ loc = index /\ index \in 0 .. n
        /\ nodes' = Append(nodes, n - index + 1)
        /\ step' = "idle" /\ index' = 0 /\ loc' = 0
    BY <1>1, <1>6 DEF Adopt, TypeOK
  <2>2. \A p \in index + 1 .. n : Before(p) >= index
    BY <1>1, <2>1 DEF WalkOnRoots
  <2>3. Laminar'
    BY <2>1, <2>2, AppendKeepsLaminar
  <2>4. n - index + 1 \in Nat \ {0}
    BY <1>1, <2>1
  <2>5. nodes' \in Seq(Nat \ {0}) /\ Len(nodes') = n + 1
    BY <1>1, <2>1, <2>4, Appended
  <2>6. TypeOK' /\ WalkOnRoots'
    BY <1>1, <2>1, <2>5 DEF TypeOK, WalkOnRoots
  <2> QED
    BY <2>3, <2>6 DEF IInv
<1>7. CASE Refuse
  <2>1. /\ nodes' = nodes /\ index' = index /\ loc' = loc
        /\ step' = "aborted" /\ Across(index)
    BY <1>1, <1>7 DEF Refuse, WalkOnRoots
  <2>2. Across(index)'
    BY <2>1 DEF Across, Positions, Before
  <2>3. TypeOK' /\ WalkOnRoots'
    BY <1>1, <2>1, <2>2 DEF TypeOK, WalkOnRoots
  <2> QED
    BY <1>2, <2>1, <2>3 DEF IInv
<1>8. CASE UNCHANGED vars
  <2>1. nodes' = nodes /\ index' = index /\ loc' = loc /\ step' = step
    BY <1>8 DEF vars
  <2>2. Across(index)' <=> Across(index)
    BY <2>1 DEF Across, Positions, Before
  <2>3. TypeOK' /\ WalkOnRoots'
    BY <1>1, <2>1, <2>2 DEF TypeOK, WalkOnRoots, Before
  <2> QED
    BY <1>2, <2>1, <2>3 DEF IInv
<1> QED
  BY <1>3, <1>4, <1>5, <1>6, <1>7, <1>8 DEF Next, Continue

\* The inductive invariant of a flat forest.
THEOREM Invariance == Spec => []IInv
<1> QED
  BY InitInv, StepInv, PTL DEF Spec

\* No sequence of appends cuts a tree in two, whatever indices the caller of
\* append_ancestor gives.
THEOREM TreesNest == Spec => []Laminar
<1>1. IInv => Laminar
  BY DEF IInv
<1> QED
  BY <1>1, Invariance, PTL

\* IsValidCutpoint refuses an index only if a tree reaches across it.
THEOREM RefusesRightly == Spec => []RefusedRightly
<1>1. IInv => RefusedRightly
  BY DEF IInv, WalkOnRoots, RefusedRightly
<1> QED
  BY <1>1, Invariance, PTL

-----------------------------------------------------------------------------
(* The flat forest: the trees that are read back.                          *)

\* What the history has to do with the sizes: the parent of a node is the next
\* one behind it whose subtree reaches it.
ParentAt(sizes, n, of, k) ==
    IF of[k] = 0
    THEN \A r \in k + 1 .. n : r - sizes[r] >= k
    ELSE /\ of[k] \in k + 1 .. n /\ of[k] - sizes[of[k]] < k
         /\ \A r \in k + 1 .. of[k] - 1 : r - sizes[r] >= k
ParentsInv ==
    /\ parents \in Seq(Nat) /\ Len(parents) = Len(nodes)
    /\ \A k \in Positions : ParentAt(nodes, Len(nodes), parents, k)

\* Appending a node that begins at `from` and takes the roots behind it.
LEMMA AppendParents ==
    ASSUME IInv, ParentsInv, NEW from \in 0 .. Len(nodes),
           nodes' = Append(nodes, Len(nodes) - from + 1),
           parents' = Append([k \in DOMAIN parents |->
                                IF k > from /\ parents[k] = 0 THEN Len(nodes) + 1
                                ELSE parents[k]], 0)
    PROVE  ParentsInv'
<1> DEFINE n == Len(nodes)
           taken == [k \in DOMAIN parents |-> IF k > from /\ parents[k] = 0 THEN n + 1
                                              ELSE parents[k]]
<1>1. /\ TypeOK /\ n \in Nat /\ n - from + 1 \in Nat \ {0} /\ from \in Nat
      /\ parents \in Seq(Nat) /\ Len(parents) = n /\ DOMAIN parents = 1 .. n
      /\ Positions = 1 .. n
  BY DEF IInv, TypeOK, ParentsInv, Positions
<1>2. /\ Len(nodes') = n + 1
      /\ \A p \in 1 .. n : nodes'[p] = nodes[p] /\ nodes[p] \in Nat
      /\ nodes'[n + 1] = n - from + 1
  BY <1>1, Appended, BeforePosition
<1>3. /\ taken \in Seq(Nat) /\ Len(taken) = n
  BY <1>1
<1>4. /\ parents' \in Seq(Nat) /\ Len(parents') = n + 1
      /\ parents'[n + 1] = 0
      /\ \A k \in 1 .. n : parents'[k] = IF k > from /\ parents[k] = 0 THEN n + 1 ELSE parents[k]
  <2>1. parents' = Append(taken, 0) /\ \A k \in 1 .. n :
           taken[k] = IF k > from /\ parents[k] = 0 THEN n + 1 ELSE parents[k]
    BY <1>1
  <2> HIDE DEF taken
  <2> QED
    BY <1>1, <1>3, <2>1
<1>5. ASSUME NEW k \in 1 .. n PROVE ParentAt(nodes', n + 1, parents', k)
  <2>1. parents[k] \in Nat /\ ParentAt(nodes, n, parents, k)
    BY <1>1 DEF ParentsInv
  <2>2. CASE parents[k] = 0 /\ k > from
    <3>1. parents'[k] = n + 1 /\ n + 1 # 0
      BY <1>1, <1>4, <2>2
    <3>2. n + 1 \in k + 1 .. n + 1 /\ (n + 1) - nodes'[n + 1] < k
      BY <1>1, <1>2, <2>2
    <3>3. \A r \in k + 1 .. (n + 1) - 1 : r \in 1 .. n /\ r \in k + 1 .. n
      BY <1>1
    <3>4. \A r \in k + 1 .. (n + 1) - 1 : r - nodes'[r] >= k
      BY <1>2, <2>1, <2>2, <3>3 DEF ParentAt
    <3> QED
      BY <3>1, <3>2, <3>4 DEF ParentAt
  <2>3. CASE parents[k] = 0 /\ ~ (k > from)
    <3>1. parents'[k] = 0
      BY <1>4, <2>3
    <3>2. (n + 1) - nodes'[n + 1] >= k
      BY <1>1, <1>2, <2>3
    <3>3. \A r \in k + 1 .. n + 1 : r # n + 1 => r \in 1 .. n /\ r \in k + 1 .. n
      <4>1. n \in Nat /\ k \in 1 .. n
        BY <1>1
      <4> HIDE DEF n
      <4> QED
        BY <4>1
    <3>4. \A r \in k + 1 .. n : r - nodes[r] >= k
      BY <2>1, <2>3 DEF ParentAt
    <3>5. \A r \in k + 1 .. n + 1 : r - nodes'[r] >= k
      BY <1>2, <3>2, <3>3, <3>4
    <3> QED
      BY <3>1, <3>5 DEF ParentAt
  <2>4. CASE parents[k] # 0
    <3>1. parents'[k] = parents[k]
      BY <1>4, <2>4
    <3>2. /\ parents[k] \in k + 1 .. n /\ parents[k] - nodes[parents[k]] < k
          /\ \A r \in k + 1 .. parents[k] - 1 : r - nodes[r] >= k
      BY <2>1, <2>4 DEF ParentAt
    <3>3. /\ parents[k] \in 1 .. n /\ parents[k] \in k + 1 .. n + 1
          /\ \A r \in k + 1 .. parents[k] - 1 : r \in 1 .. n
      BY <1>1, <3>2
    <3> QED
      BY <1>2, <2>4, <3>1, <3>2, <3>3 DEF ParentAt
  <2> QED
    BY <2>2, <2>3, <2>4
<1>6. ParentAt(nodes', n + 1, parents', n + 1)
  <2>1. \A r : r \in (n + 1) + 1 .. n + 1 => FALSE
    BY <1>1
  <2> QED
    BY <1>4, <2>1 DEF ParentAt
<1>7. \A k : k \in 1 .. n + 1 => k \in 1 .. n \/ k = n + 1
  BY <1>1
<1> HIDE DEF n
<1> QED
  BY <1>2, <1>4, <1>5, <1>6, <1>7 DEF ParentsInv, Positions

\* Only appending changes what there is of parents.
LEMMA ParentsStep == IInv /\ ParentsInv /\ [Next]_vars => ParentsInv'
<1> SUFFICES ASSUME IInv, ParentsInv, [Next]_vars PROVE ParentsInv'
  OBVIOUS
<1> DEFINE n == Len(nodes)
<1>1. /\ TypeOK /\ n \in Nat /\ parents \in Seq(Nat) /\ DOMAIN parents = 1 .. n
      /\ index \in 0 .. n
  BY DEF IInv, TypeOK, ParentsInv
<1>2. ASSUME nodes' = nodes, parents' = parents PROVE ParentsInv'
  BY <1>2 DEF ParentsInv, Positions
<1>3. CASE AppendLeaf
  <2>1. nodes' = Append(nodes, n - n + 1) /\ n \in 0 .. n
    BY <1>1, <1>3 DEF AppendLeaf
  <2>2. [k \in DOMAIN parents |-> IF k > n /\ parents[k] = 0 THEN n + 1 ELSE parents[k]]
          = parents
    <3>1. \A k \in DOMAIN parents : ~ (k > n)
      BY <1>1
    <3>2. parents = [k \in DOMAIN parents |-> parents[k]]
      BY <1>1
    <3> QED
      BY <3>1, <3>2
  <2>3. parents' = Append([k \in DOMAIN parents |->
                             IF k > n /\ parents[k] = 0 THEN n + 1 ELSE parents[k]], 0)
    BY <1>3, <2>2 DEF AppendLeaf
  <2> QED
    BY <2>1, <2>3, AppendParents
<1>4. CASE Adopt
  <2>1. /\ nodes' = Append(nodes, n - index + 1)
        /\ parents' = Append([k \in DOMAIN parents |->
                                IF k > index /\ parents[k] = 0 THEN n + 1 ELSE parents[k]], 0)
        /\ step = "check" /\ loc = index
    BY <1>4 DEF Adopt
  <2> QED
    BY <1>1, <2>1, AppendParents
<1> QED
  BY <1>2, <1>3, <1>4 DEF Next, Continue, AppendAncestor, SkipTree, Refuse, vars

\* Of finitely many things, one whose set has none of the other sets inside it.
LEMMA SmallestOf ==
    ASSUME NEW B, IsFiniteSet(B), B # {}, NEW upTo, \A k \in B : upTo[k] \subseteq B
    PROVE  \E k \in B : \A j \in B : upTo[j] \subseteq upTo[k] => upTo[j] = upTo[k]
<1> DEFINE F == {upTo[k] : k \in B}
<1>1. F \subseteq SUBSET B /\ F # {}
  OBVIOUS
<1>2. PICK T \in F : \A U \in F : U \subseteq T => U = T
  <2> HIDE DEF F
  <2> QED
    BY <1>1, Smallest
<1>3. PICK k \in B : T = upTo[k]
  OBVIOUS
<1>4. \A j \in B : upTo[j] \in F
  OBVIOUS
<1> QED
  BY <1>2, <1>3, <1>4

\* The least of some numbers.
LEMMA Least ==
    ASSUME NEW n \in Nat, NEW B, B \subseteq 0 .. n, B # {}
    PROVE  \E k \in B : \A j \in B : k <= j
<1> DEFINE upTo == [k \in B |-> {j \in B : j <= k}]
<1>1. IsFiniteSet(B)
  <2>1. IsFiniteSet(0 .. n)
    BY FS_Interval
  <2> QED
    BY <2>1, FS_Subset
<1>2. \A k \in B : upTo[k] \subseteq B
  OBVIOUS
<1>3. PICK k \in B : \A j \in B : upTo[j] \subseteq upTo[k] => upTo[j] = upTo[k]
  <2> HIDE DEF upTo
  <2>1. \A S : S = B => (\A k \in S : upTo[k] \subseteq S)
    BY <1>2
  <2> QED
    BY <1>1, <2>1, SmallestOf, ZenonT(60)
<1>4. \A i \in B : i \in Nat
  OBVIOUS
<1>5. ASSUME NEW j \in B PROVE k <= j
  <2> SUFFICES ASSUME j < k PROVE FALSE
    BY <1>4
  <2>1. upTo[j] \subseteq upTo[k]
    <3>1. \A i \in B : i <= j => i <= k
      BY <1>4
    <3> QED
      BY <3>1
  <2>2. upTo[j] = upTo[k]
    BY <1>3, <2>1
  <2>3. k \in upTo[k]
    BY <1>4
  <2>4. k <= j
    BY <2>2, <2>3
  <2> QED
    BY <1>4, <2>4
<1> QED
  BY <1>5

\* The subtree of r reaches k, if r is behind k.
Reaches(r, k) == Before(r) < k

\* A sibling iterator visits the nodes of its range that no node behind them in
\* the range reaches, if no subtree reaches out of the range.
Tops(from, to) == {q \in from + 1 .. to : \A r \in q + 1 .. to : ~ Reaches(r, q)}

LEMMA SiblingsAre ==
    ASSUME TypeOK, Laminar, NEW p \in 0 .. Len(nodes), NEW n \in 0 .. p,
           \A r \in p - n + 1 .. p : Before(r) >= p - n
    PROVE  Siblings(p, n) = Tops(p - n, p)
<1> DEFINE onward(k) == k - nodes[p - n + k]
           g == [k \in 0 .. n |-> Tops(p - n, p - n + k)]
           visited[k \in 0 .. n] ==
              IF k = 0 THEN {} ELSE {p - n + k} \union visited[k - nodes[p - n + k]]
<1>1. Len(nodes) \in Nat /\ p \in Nat /\ n \in Nat /\ p - n \in Nat /\ p <= Len(nodes)
  BY DEF TypeOK
<1>2. ASSUME NEW k \in 1 .. n
      PROVE  /\ p - n + k \in Positions /\ Before(p - n + k) = p - n + onward(k)
             /\ onward(k) \in 0 .. k - 1
  <2>1. p - n + k \in Positions
    BY <1>1 DEF Positions
  <2>2. nodes[p - n + k] \in Nat \ {0}
    BY <2>1, BeforePosition
  <2>3. Before(p - n + k) >= p - n
    BY <1>1
  <2> QED
    BY <1>1, <2>1, <2>2, <2>3 DEF Before
<1>3. ASSUME NEW k \in 1 .. n
      PROVE  g[k] = {p - n + k} \union g[onward(k)]
  <2> DEFINE t == p - n + k
             b == p - n + onward(k)
  <2>1. /\ t \in Positions /\ t \in Nat /\ b \in Nat /\ Before(t) = b /\ b < t /\ t <= p
        /\ p - n <= b
    BY <1>1, <1>2
  <2>2. g[k] = Tops(p - n, t) /\ g[onward(k)] = Tops(p - n, b)
    <3>1. onward(k) \in 0 .. n
      BY <1>2
    <3> HIDE DEF onward
    <3> QED
      BY <3>1
  <2> HIDE DEF t, b, g, onward
  <2>3. ASSUME NEW q \in Tops(p - n, t), q # t PROVE q \in Tops(p - n, b)
    <3>1. q \in Nat /\ p - n < q /\ q < t /\ \A r \in q + 1 .. t : ~ Reaches(r, q)
      BY <1>1, <2>1, <2>3 DEF Tops
    <3>2. ~ (b < q)
      BY <2>1, <3>1 DEF Reaches
    <3> QED
      BY <1>1, <2>1, <3>1, <3>2 DEF Tops
  <2>4. t \in Tops(p - n, t)
    BY <1>1, <2>1 DEF Tops
  <2>5. ASSUME NEW q \in Tops(p - n, b) PROVE q \in Tops(p - n, t)
    <3>1. q \in Nat /\ p - n < q /\ q <= b /\ \A r \in q + 1 .. b : ~ Reaches(r, q)
      BY <1>1, <2>1, <2>5 DEF Tops
    <3>2. ASSUME NEW r \in q + 1 .. t PROVE ~ Reaches(r, q)
      <4>1. CASE r <= b
        BY <1>1, <2>1, <3>1, <4>1
      <4>2. CASE r = t
        BY <2>1, <3>1, <4>2 DEF Reaches
      <4>3. CASE r > b /\ r < t
        <5>1. r \in Positions /\ t \in r + 1 .. Len(nodes)
          BY <1>1, <2>1, <3>1, <4>3 DEF Positions
        <5>2. Before(t) >= r \/ Before(t) <= Before(r)
          BY <5>1 DEF Laminar
        <5>3. Before(r) \in Int
          BY <5>1, BeforePosition
        <5> QED
          BY <2>1, <3>1, <4>3, <5>2, <5>3 DEF Reaches
      <4> QED
        BY <2>1, <3>1, <4>1, <4>2, <4>3
    <3> QED
      BY <1>1, <2>1, <3>1, <3>2 DEF Tops
  <2>6. Tops(p - n, t) = {t} \union Tops(p - n, b)
    BY <2>3, <2>4, <2>5
  <2> QED
    BY <2>2, <2>6 DEF t
<1>4. g[0] = {}
  BY <1>1 DEF Tops
<1>5. g = [k \in 0 .. n |-> IF k = 0 THEN {} ELSE {p - n + k} \union g[k - nodes[p - n + k]]]
  <2>1. \A k \in 0 .. n : k = 0 \/ k \in 1 .. n
    BY <1>1
  <2>2. g = [k \in 0 .. n |-> g[k]]
    OBVIOUS
  <2> HIDE DEF g
  <2>3. \A k \in 0 .. n :
           g[k] = IF k = 0 THEN {} ELSE {p - n + k} \union g[k - nodes[p - n + k]]
    BY <1>3, <1>4, <2>1
  <2> QED
    BY <2>2, <2>3
<1>6. visited = [k \in 0 .. n |-> IF k = 0 THEN {}
                                  ELSE {p - n + k} \union visited[k - nodes[p - n + k]]]
  <2> HIDE DEF g
  <2> QED
    BY <1>5
<1>7. Siblings(p, n) = visited[n]
  BY DEF Siblings
<1> HIDE DEF visited
<1>8. \A k \in 0 .. n : visited[k] = g[k]
  <2> DEFINE B == {k \in 0 .. n : visited[k] # g[k]}
  <2> SUFFICES ASSUME B # {} PROVE FALSE
    OBVIOUS
  <2>1. PICK k \in B : \A j \in B : k <= j
    <3> HIDE DEF g
    <3>1. B \subseteq 0 .. n
      OBVIOUS
    <3> HIDE DEF B
    <3> QED
      BY <1>1, <3>1, Least
  <2> HIDE DEF g
  <2>2. CASE k = 0
    BY <1>4, <1>6, <2>2
  <2>3. CASE k \in 1 .. n
    <3>1. onward(k) \in 0 .. k - 1
      BY <1>2, <2>3
    <3>2. onward(k) \in 0 .. n /\ ~ (k <= onward(k))
      BY <1>1, <2>3, <3>1
    <3>3. visited[onward(k)] = g[onward(k)]
      BY <2>1, <3>2
    <3>4. visited[k] = {p - n + k} \union visited[onward(k)]
      BY <1>6, <2>3
    <3> QED
      BY <1>3, <2>3, <3>3, <3>4
  <2> QED
    BY <1>1, <2>2, <2>3
<1>9. g[n] = Tops(p - n, p)
  BY <1>1
<1> HIDE DEF g
<1> QED
  BY <1>1, <1>7, <1>8, <1>9

-----------------------------------------------------------------------------
LEMMA ParentsInit == Init => ParentsInv
  BY DEF Init, ParentsInv, Positions

\* The tops of the whole vector have no parent,
LEMMA TopsAreRoots ==
    ASSUME TypeOK, ParentsInv
    PROVE  Tops(0, Len(nodes)) = {k \in Positions : parents[k] = 0}
<1> DEFINE n == Len(nodes)
<1>1. n \in Nat /\ Positions = 1 .. n /\ Tops(0, n) \subseteq Positions
  BY DEF TypeOK, Positions, Tops
<1>2. \A r \in Positions : nodes[r] \in Nat /\ r \in Nat /\ parents[r] \in Nat
  BY <1>1, BeforePosition DEF ParentsInv
<1>3. ASSUME NEW k \in Positions
      PROVE  k \in Tops(0, n) <=> parents[k] = 0
  <2>1. ParentAt(nodes, n, parents, k) /\ k \in 0 + 1 .. n
    BY <1>1 DEF ParentsInv
  <2>2. \A r \in k + 1 .. n : r \in Positions
    BY <1>1
  <2>3. CASE parents[k] = 0
    <3>1. \A r \in k + 1 .. n : r - nodes[r] >= k
      BY <2>1, <2>3 DEF ParentAt
    <3>2. \A r \in k + 1 .. n : ~ Reaches(r, k)
      BY <1>1, <1>2, <2>2, <3>1 DEF Reaches, Before
    <3> QED
      BY <2>1, <2>3, <3>2 DEF Tops
  <2>4. CASE parents[k] # 0
    <3>1. parents[k] \in k + 1 .. n /\ Reaches(parents[k], k)
      BY <2>1, <2>4 DEF ParentAt, Reaches, Before
    <3> QED
      BY <2>4, <3>1 DEF Tops
  <2> QED
    BY <2>3, <2>4
<1> HIDE DEF n
<1> QED
  BY <1>1, <1>3 DEF n

\* ... and those in front of p that nothing else before p reaches have p.
LEMMA TopsAreChildren ==
    ASSUME TypeOK, Laminar, ParentsInv, NEW p \in Positions
    PROVE  Tops(Before(p), p - 1) = {k \in Positions : parents[k] = p}
<1> DEFINE n == Len(nodes)
           b == Before(p)
<1>1. /\ n \in Nat /\ Positions = 1 .. n /\ p \in Nat /\ p <= n /\ p >= 1
      /\ b \in 0 .. p - 1 /\ b \in Nat /\ b < p
  BY DEF TypeOK, Positions, Laminar
<1>2. \A r \in Positions :
         nodes[r] \in Nat /\ r \in Nat /\ parents[r] \in Nat /\ Before(r) = r - nodes[r]
  BY <1>1, BeforePosition DEF ParentsInv, Before
<1>3. Tops(b, p - 1) \subseteq Positions
  BY <1>1 DEF Tops
<1>4. ASSUME NEW k \in Positions, k \in Tops(b, p - 1)
      PROVE  parents[k] = p
  <2>1. /\ k \in b + 1 .. p - 1 /\ \A r \in k + 1 .. p - 1 : ~ Reaches(r, k)
        /\ ParentAt(nodes, n, parents, k)
    BY <1>1, <1>4 DEF Tops, ParentsInv
  <2>2. p \in k + 1 .. n /\ p - nodes[p] < k
    BY <1>1, <1>2, <2>1
  <2>3. parents[k] # 0
    <3> SUFFICES ASSUME parents[k] = 0 PROVE FALSE
      OBVIOUS
    <3>1. \A r \in k + 1 .. n : r - nodes[r] >= k
      BY <2>1 DEF ParentAt
    <3>2. p - nodes[p] >= k
      BY <2>2, <3>1
    <3> QED
      BY <1>1, <1>2, <2>2, <3>2
  <2>4. /\ parents[k] \in k + 1 .. n /\ parents[k] - nodes[parents[k]] < k
        /\ \A r \in k + 1 .. parents[k] - 1 : r - nodes[r] >= k
    BY <2>1, <2>3 DEF ParentAt
  <2>5. ~ (parents[k] < p)
    <3> SUFFICES ASSUME parents[k] < p PROVE FALSE
      OBVIOUS
    <3>1. parents[k] \in k + 1 .. p - 1
      BY <1>1, <1>2, <2>4
    <3> QED
      BY <2>1, <2>4, <3>1 DEF Reaches, Before
  <2>6. ~ (p < parents[k])
    <3> SUFFICES ASSUME p < parents[k] PROVE FALSE
      OBVIOUS
    <3>1. p \in k + 1 .. parents[k] - 1
      BY <1>1, <1>2, <2>2, <2>4
    <3>2. p - nodes[p] >= k
      BY <2>4, <3>1
    <3> QED
      BY <1>1, <1>2, <2>2, <3>2
  <2> QED
    BY <1>1, <1>2, <2>5, <2>6
<1>5. ASSUME NEW k \in Positions, parents[k] = p
      PROVE  k \in Tops(b, p - 1)
  <2>1. /\ p \in k + 1 .. n /\ p - nodes[p] < k
        /\ \A r \in k + 1 .. p - 1 : r - nodes[r] >= k
    <3>1. ParentAt(nodes, n, parents, k) /\ parents[k] # 0
      BY <1>1, <1>5 DEF ParentsInv
    <3> QED
      BY <1>5, <3>1 DEF ParentAt
  <2>2. k \in b + 1 .. p - 1
    BY <1>1, <1>2, <2>1
  <2>3. ASSUME NEW r \in k + 1 .. p - 1 PROVE ~ Reaches(r, k)
    <3>1. r \in Positions /\ r - nodes[r] >= k
      BY <1>1, <1>2, <2>1
    <3> QED
      BY <1>2, <3>1 DEF Reaches
  <2> HIDE DEF b
  <2> QED
    BY <2>2, <2>3 DEF Tops
<1> HIDE DEF b, n
<1> QED
  BY <1>3, <1>4, <1>5 DEF b

\* A node with a parent lies below those its parent lies below, and below its
\* parent.
LEMMA BelowParents ==
    ASSUME TypeOK, Laminar, ParentsInv, NEW p \in Positions, NEW k \in Positions,
           parents[k] # 0
    PROVE  k \in Descendants(p) <=> parents[k] = p \/ parents[k] \in Descendants(p)
<1> DEFINE n == Len(nodes)
           h == parents[k]
<1>1. n \in Nat /\ Positions = 1 .. n /\ p \in 1 .. n /\ k \in 1 .. n
  BY DEF TypeOK, Positions
<1>2. \A r \in Positions : nodes[r] \in Nat /\ r \in Nat /\ Before(r) \in Int
                           /\ Before(r) = r - nodes[r] /\ Before(r) < r
  BY <1>1, BeforePosition DEF Before
<1>3. /\ h \in k + 1 .. n /\ Before(h) < k
      /\ \A r \in k + 1 .. h - 1 : r - nodes[r] >= k
  BY <1>1 DEF ParentsInv, ParentAt, Before
<1> HIDE DEF h
<1>4. h \in Positions
  BY <1>1, <1>3
<1>5. \A d \in Nat : d \in Descendants(p) <=> Before(p) < d /\ d < p
  BY <1>1, <1>2 DEF Descendants
<1>6. h = p => Before(p) < k /\ k < p
  BY <1>1, <1>3
<1>7. ASSUME Before(p) < h, h < p PROVE Before(p) < k /\ k < p
  <2>1. p \in h + 1 .. n
    BY <1>1, <1>4, <1>7
  <2>2. Before(p) >= h \/ Before(p) <= Before(h)
    BY <1>4, <2>1 DEF Laminar
  <2> QED
    BY <1>1, <1>2, <1>3, <1>4, <1>7, <2>2
<1>8. ASSUME Before(p) < k, k < p PROVE h = p \/ (Before(p) < h /\ h < p)
  <2>1. CASE p < h
    <3>1. p \in k + 1 .. h - 1
      BY <1>1, <1>3, <1>8, <2>1
    <3>2. p - nodes[p] >= k
      BY <1>3, <3>1
    <3> QED
      BY <1>1, <1>2, <1>8, <3>2
  <2>2. CASE h < p
    BY <1>1, <1>2, <1>3, <1>8, <2>2
  <2>3. h \in Nat /\ p \in Nat
    BY <1>1, <1>3
  <2>4. p < h \/ h < p \/ h = p
    BY <2>3
  <2> QED
    BY <2>1, <2>2, <2>4
<1>9. k \in Nat /\ h \in Nat
  BY <1>1, <1>3
<1> QED
  BY <1>5, <1>6, <1>7, <1>8, <1>9 DEF h

LEMMA ReadBack == IInv /\ ParentsInv => TreesExact
<1> SUFFICES ASSUME IInv, ParentsInv PROVE TreesExact
  OBVIOUS
<1> DEFINE n == Len(nodes)
<1>1. TypeOK /\ Laminar /\ n \in Nat /\ Positions = 1 .. n
  BY DEF IInv, TypeOK, Positions
<1>2. Roots = {k \in Positions : parents[k] = 0}
  <2>1. n \in 0 .. n /\ n - n = 0 /\ \A r \in n - n + 1 .. n : Before(r) >= n - n
    BY <1>1 DEF Laminar
  <2>2. Siblings(n, n) = Tops(n - n, n)
    BY <1>1, <2>1, SiblingsAre
  <2> QED
    BY <1>1, <2>1, <2>2, TopsAreRoots DEF Roots
<1>3. ASSUME NEW p \in Positions
      PROVE  Children(p) = {k \in Positions : parents[k] = p}
  <2> DEFINE b == Before(p)
  <2>1. /\ p \in Nat /\ p >= 1 /\ p <= n /\ b \in 0 .. p - 1 /\ b = p - nodes[p]
        /\ nodes[p] \in Nat
    BY <1>1, BeforePosition DEF Laminar, Before
  <2>2. /\ p - 1 \in 0 .. n /\ nodes[p] - 1 \in 0 .. p - 1
        /\ (p - 1) - (nodes[p] - 1) = b
    BY <1>1, <2>1
  <2>3. ASSUME NEW r \in b + 1 .. p - 1 PROVE Before(r) >= b
    <3>1. r \in Positions /\ p \in r + 1 .. n
      BY <1>1, <2>1
    <3>2. b >= r \/ b <= Before(r)
      BY <1>1, <3>1 DEF Laminar
    <3>3. Before(r) \in Int /\ r \in Nat /\ b < r
      BY <1>1, <2>1, <3>1, BeforePosition
    <3> QED
      BY <2>1, <3>2, <3>3
  <2> HIDE DEF b
  <2>4. \A r \in (p - 1) - (nodes[p] - 1) + 1 .. p - 1 :
           Before(r) >= (p - 1) - (nodes[p] - 1)
    BY <2>2, <2>3
  <2>5. Siblings(p - 1, nodes[p] - 1) = Tops((p - 1) - (nodes[p] - 1), p - 1)
    BY <1>1, <2>2, <2>4, SiblingsAre
  <2>6. Children(p) = Tops(Before(p), p - 1)
    BY <2>2, <2>5 DEF Children, b
  <2> QED
    BY <1>1, <2>6, TopsAreChildren
<1> QED
  BY <1>1, <1>2, <1>3, BelowParents DEF TreesExact

\* The trees that are read back from the sizes are those that were built.
THEOREM TreesReadBack == Spec => []TreesExact
<1>1. Init => ParentsInv
  BY ParentsInit
<1>2. IInv /\ ParentsInv /\ [Next]_vars => ParentsInv'
  BY ParentsStep
<1> QED
  BY <1>1, <1>2, Invariance, ReadBack, PTL DEF Spec

\* The same of a forest that is one of the containers of AnySpec.
THEOREM ForestAmongOthers == AnySpec => [](Laminar /\ RefusedRightly /\ TreesExact)
<1>1. AnyInit => IInv /\ ParentsInv
  BY InitInv, ParentsInit DEF AnyInit
<1>2. IInv /\ ParentsInv /\ [AnyNext]_allVars => IInv' /\ ParentsInv'
  <2>1. [AnyNext]_allVars => [Next]_vars
    BY DEF AnyNext, allVars, SubsetsOnly, RangesOnly, RangeMapOnly, StackOnly, StableOnly,
       ForestOnly
  <2> QED
    BY <2>1, StepInv, ParentsStep
<1>3. IInv => Laminar /\ RefusedRightly
  BY DEF IInv, WalkOnRoots, RefusedRightly
<1> QED
  BY <1>1, <1>2, <1>3, ReadBack, PTL DEF AnySpec

-----------------------------------------------------------------------------
(* Disjoint sets: what is true of all nodes, those of dead sets too.       *)

\* The histories of the nodes partition them.
Partition ==
    \A n \in Subsets!Node :
       /\ n \in subset[n]
       /\ \A m \in subset[n] : subset[m] = subset[n]

\* The parent of a node is in its subset, where exactly one node is a root.
Heads(n, r) == r \in subset[n] /\ \A m \in subset[n] : Subsets!IsRoot(m) <=> m = r
Headed ==
    \A n \in Subsets!Node :
       /\ parent[n] \in subset[n]
       /\ \E r \in subset[n] : Heads(n, r)

\* Parents head twice as many, and roots their whole subsets.
Weighed ==
    \A n \in Subsets!Node :
       /\ ~ Subsets!IsRoot(n) => 2 * size[n] <= size[parent[n]]
       /\ Subsets!IsRoot(n) => size[n] = Cardinality(subset[n])

\* A node that has not been made is a subset of its own.
Fresh ==
    \A n \in Subsets!Node : n > allocated => parent[n] = n /\ size[n] = 1 /\ subset[n] = {n}

NodesInv == Partition /\ Headed /\ Weighed /\ Fresh

\* No node is in two sets, and no subset reaches out of its set.
SetsInv ==
    /\ \A s \in Sets : \A n \in Subsets!NodesOf(s) : subset[n] \subseteq Subsets!NodesOf(s)
    /\ \A s, t \in Sets : s # t => Subsets!NodesOf(s) \intersect Subsets!NodesOf(t) = {}

\* The handle that is being resolved.
Current == asked[Len(found) + 1]

\* What representative has resolved is a root; what it has come through lies
\* below where it stands, and is at most half as heavy.
CallInv ==
    /\ pc = "idle" => /\ root = None
                      /\ path = <<>> /\ todo = <<>> /\ found = <<>> /\ asked = <<>>
    /\ pc # "idle" =>
          /\ \E s \in Sets : \A i \in DOMAIN asked : asked[i] \in Subsets!NodesOf(s)
          /\ Len(asked) \in 1 .. 2
          /\ \A i \in DOMAIN found :
                i \in DOMAIN asked /\ Subsets!IsRoot(found[i])
                /\ found[i] \in subset[asked[i]]
    /\ pc \in {"descend", "compress"} =>
          /\ Len(found) < Len(asked)
          /\ todo = IF Len(asked) = 2 /\ found = <<>> THEN <<asked[2]>> ELSE <<>>
          /\ \A i \in DOMAIN path : path[i] \in subset[Current]
    /\ pc = "descend" =>
          /\ root = None /\ path # <<>>
          /\ \A i \in DOMAIN path :
                i # Len(path) => 2 * size[path[i]] <= size[path[Len(path)]]
    /\ pc = "compress" =>
          /\ Subsets!IsRoot(root) /\ root \in subset[Current]
          /\ \A i \in DOMAIN path : 2 * size[path[i]] <= size[root]
    /\ pc = "link" =>
          /\ root = None /\ path = <<>> /\ todo = <<>>
          /\ Len(asked) = 2 /\ Len(found) = 2

SubsetsInv == Subsets!TypeOK /\ NodesInv /\ SetsInv /\ CallInv

-----------------------------------------------------------------------------
(* Facts about nodes.                                                      *)

LEMMA AllNodes == IsFiniteSet(Subsets!Node) /\ Cardinality(Subsets!Node) = MaxNodes
  <1>1. 1 \in Int /\ MaxNodes \in Int
    BY ContainersAssumption
  <1> QED
    BY <1>1, FS_Interval, ContainersAssumption DEF Subsets!Node

\* Nodes and sizes are numbers, and subsets are finite.
LEMMA NodeTypes ==
    ASSUME Subsets!TypeOK
    PROVE  /\ allocated \in Nat /\ allocated <= MaxNodes
           /\ \A n \in Subsets!Node :
                 /\ n \in Nat /\ parent[n] \in Subsets!Node /\ size[n] \in Nat /\ size[n] >= 1
                 /\ subset[n] \subseteq Subsets!Node
                 /\ IsFiniteSet(subset[n]) /\ Cardinality(subset[n]) \in Nat
                 /\ Cardinality(subset[n]) <= MaxNodes
  <1>2. \A S \in SUBSET Subsets!Node :
           IsFiniteSet(S) /\ Cardinality(S) \in Nat /\ Cardinality(S) <= MaxNodes
    BY AllNodes, FS_Subset, FS_CardinalityType
  <1>3. \A n \in Subsets!Node :
           /\ n \in Nat /\ parent[n] \in Subsets!Node /\ size[n] \in 1 .. MaxNodes
           /\ subset[n] \in SUBSET Subsets!Node
    BY DEF Subsets!TypeOK, Subsets!Node
  <1>4. \A n \in Subsets!Node : size[n] \in Nat /\ size[n] >= 1
    BY <1>3, ContainersAssumption
  <1>5. allocated \in Nat /\ allocated <= MaxNodes
    BY ContainersAssumption DEF Subsets!TypeOK
  <1> QED
    BY <1>2, <1>3, <1>4, <1>5

\* The nodes of the sets have been made.
LEMMA LiveNodes ==
    ASSUME Subsets!TypeOK
    PROVE  /\ \A s \in Sets : Subsets!NodesOf(s) \subseteq 1 .. allocated
           /\ Subsets!Live \subseteq 1 .. allocated
           /\ Subsets!Live \subseteq Subsets!Node
  <1>1. ASSUME NEW s \in Sets, NEW n \in Subsets!NodesOf(s)
        PROVE  n \in 1 .. allocated
    <2>1. entries[s] \in Seq(1 .. allocated)
      BY DEF Subsets!TypeOK
    <2>2. PICK i \in DOMAIN entries[s] : n = entries[s][i]
      BY DEF Subsets!NodesOf, Subsets!Range
    <2> QED
      BY <2>1, <2>2, Elements
  <1>2. Subsets!Live \subseteq 1 .. allocated
    BY <1>1 DEF Subsets!Live
  <1>3. 1 .. allocated \subseteq Subsets!Node
    BY NodeTypes, ContainersAssumption DEF Subsets!Node
  <1> QED
    BY <1>1, <1>2, <1>3

\* Two nodes of one subset have the same subset, and one root.
LEMMA OneSubset ==
    ASSUME Subsets!TypeOK, Partition, NEW n \in Subsets!Node, NEW m \in subset[n]
    PROVE  m \in Subsets!Node /\ subset[m] = subset[n] /\ n \in subset[m]
  BY NodeTypes DEF Partition

LEMMA OnlyRoot ==
    ASSUME Subsets!TypeOK, Partition, Headed, NEW n \in Subsets!Node,
           NEW m \in subset[n], NEW r \in subset[n],
           Subsets!IsRoot(m), Subsets!IsRoot(r)
    PROVE  m = r
  <1>1. PICK h \in subset[n] : Heads(n, h)
    BY DEF Headed
  <1> QED
    BY <1>1 DEF Heads

-----------------------------------------------------------------------------
(* The invariant holds initially.                                          *)

LEMMA SubsetsInit ==
    ASSUME Subsets!Init
    PROVE  SubsetsInv
  <1>1. \A s \in Sets : Subsets!NodesOf(s) = {}
    BY DEF Subsets!Init, Subsets!NodesOf, Subsets!Range
  <1>2. Subsets!Live = {}
    BY <1>1 DEF Subsets!Live
  <1>3. Subsets!TypeOK
    <2>1. entries \in [Sets -> Seq(1 .. allocated)]
      BY DEF Subsets!Init
    <2>2. /\ allocated \in 0 .. MaxNodes
          /\ parent \in [Subsets!Node -> Subsets!Node]
          /\ size \in [Subsets!Node -> 1 .. MaxNodes]
      BY ContainersAssumption DEF Subsets!Init, Subsets!Node
    <2>3. subset \in [Subsets!Node -> SUBSET Subsets!Node]
      BY DEF Subsets!Init
    <2>4. path = <<>> /\ todo = <<>> /\ found = <<>> /\ asked = <<>>
      BY DEF Subsets!Init
    <2>5. <<>> \in Seq(Subsets!Live)
      OBVIOUS
    <2> QED
      BY <2>1, <2>2, <2>3, <2>4, <2>5 DEF Subsets!Init, Subsets!TypeOK
  <1>4. \A n \in Subsets!Node :
           parent[n] = n /\ size[n] = 1 /\ subset[n] = {n} /\ Cardinality({n}) = 1
    BY FS_Singleton DEF Subsets!Init
  <1>5. Partition
    <2> SUFFICES ASSUME NEW n \in Subsets!Node
                 PROVE  n \in subset[n] /\ \A m \in subset[n] : subset[m] = subset[n]
      BY DEF Partition
    <2>1. subset[n] = {n}
      BY <1>4
    <2> QED
      BY <2>1
  <1>10. Fresh
    BY <1>4 DEF Fresh
  <1>9. Headed
    <2> SUFFICES ASSUME NEW n \in Subsets!Node
                 PROVE  parent[n] \in subset[n] /\ \E r \in subset[n] : Heads(n, r)
      BY DEF Headed
    <2>1. Heads(n, n)
      BY <1>4 DEF Heads, Subsets!IsRoot
    <2> QED
      BY <1>4, <2>1
  <1>8. Weighed
    BY <1>4 DEF Weighed, Subsets!IsRoot
  <1>6. SetsInv
    BY <1>1 DEF SetsInv
  <1>7. CallInv
    BY DEF Subsets!Init, CallInv
  <1> QED
    BY <1>3, <1>5, <1>6, <1>7, <1>8, <1>9, <1>10 DEF SubsetsInv, NodesInv

-----------------------------------------------------------------------------
(* Steps that leave the nodes as they are.                                 *)

Forest == <<parent, size, subset>>

LEMMA NodesKept ==
    ASSUME NodesInv, UNCHANGED Forest, allocated' = allocated
    PROVE  NodesInv'
  BY DEF Forest, NodesInv, Partition, Headed, Heads, Weighed, Fresh, Subsets!IsRoot

LEMMA SetsKept ==
    ASSUME SetsInv, subset' = subset, entries' = entries
    PROVE  SetsInv'
  BY DEF SetsInv, Subsets!NodesOf

\* A value that is inserted gets a node that is as it should be already.
LEMMA InsertStep ==
    ASSUME SubsetsInv, NEW s \in Sets, Subsets!Insert(s)
    PROVE  SubsetsInv'
  <1> DEFINE n == allocated + 1
  <1>1. Subsets!TypeOK /\ NodesInv /\ SetsInv /\ CallInv
    BY DEF SubsetsInv
  <1>2. /\ n \in Subsets!Node /\ allocated \in Nat /\ n > allocated
        /\ allocated' = n
    BY <1>1, NodeTypes, ContainersAssumption DEF Subsets!Insert, Subsets!Node
  <1>3. parent[n] = n /\ size[n] = 1 /\ subset[n] = {n}
    BY <1>1, <1>2 DEF NodesInv, Fresh
  <1>4. UNCHANGED Forest
    BY <1>1, <1>3 DEF Subsets!Insert, Subsets!TypeOK, Forest
  <1>5. NodesInv'
    <2>1. \A m \in Subsets!Node : m > n => m > allocated
      BY <1>2 DEF Subsets!Node
    <2> QED
      BY <1>1, <1>2, <1>4, <2>1 DEF Forest, NodesInv, Partition, Headed, Heads, Weighed,
         Fresh, Subsets!IsRoot
  <1>6. /\ \A t \in Sets \ {s} : Subsets!NodesOf(t)' = Subsets!NodesOf(t)
        /\ Subsets!NodesOf(s)' = Subsets!NodesOf(s) \union {n}
        /\ entries' \in [Sets -> Seq(1 .. allocated')]
    <2>1. entries \in [Sets -> Seq(1 .. allocated)] /\ 1 .. allocated \subseteq 1 .. n
      BY <1>1, <1>2 DEF Subsets!TypeOK
    <2>2. entries \in [Sets -> Seq(1 .. n)]
      <3>1. ASSUME NEW t \in Sets PROVE entries[t] \in Seq(1 .. n)
        <4>1. entries[t] \in Seq(1 .. allocated)
          BY <2>1
        <4> QED
          BY <2>1, <4>1, Elements
      <3> QED
        BY <2>1, <3>1
    <2>3. entries' = [entries EXCEPT ![s] = Append(@, n)] /\ n \in 1 .. n
      BY <1>2 DEF Subsets!Insert
    <2>4. entries' \in [Sets -> Seq(1 .. n)]
      BY <2>2, <2>3
    <2>5. \A t \in Sets \ {s} : entries'[t] = entries[t]
      BY <2>2, <2>3
    <2>6. entries'[s] = Append(entries[s], n) /\ entries[s] \in Seq(1 .. n)
      BY <2>2, <2>3
    <2>7. /\ DOMAIN entries'[s] = DOMAIN entries[s] \union {Len(entries[s]) + 1}
          /\ \A i \in DOMAIN entries[s] : entries'[s][i] = entries[s][i]
          /\ entries'[s][Len(entries[s]) + 1] = n
      BY <2>6
    <2>8. Subsets!NodesOf(s)' = Subsets!NodesOf(s) \union {n}
      BY <2>7 DEF Subsets!NodesOf, Subsets!Range
    <2> QED
      BY <1>2, <2>4, <2>5, <2>8 DEF Subsets!NodesOf, Subsets!Range
  <1>7. SetsInv'
    <2>1. \A t \in Sets : n \notin Subsets!NodesOf(t)
      BY <1>1, <1>2, LiveNodes
    <2> QED
      BY <1>1, <1>3, <1>4, <1>6, <2>1 DEF SetsInv, Forest
  <1>8. CallInv' /\ pc = "idle" /\ pc' = "idle" /\ root' = None
        /\ path' = <<>> /\ todo' = <<>> /\ found' = <<>> /\ asked' = <<>>
    BY <1>1 DEF CallInv, Subsets!Insert, Subsets!Usable, Subsets!frames,
       Subsets!arguments
  <1>9. Subsets!TypeOK'
    <2>1. allocated' \in 0 .. MaxNodes
      BY <1>2, ContainersAssumption DEF Subsets!Node
    <2>2. movedFrom' \subseteq Sets
      BY <1>1 DEF Subsets!TypeOK, Subsets!Insert
    <2>3. /\ parent' \in [Subsets!Node -> Subsets!Node]
          /\ size' \in [Subsets!Node -> 1 .. MaxNodes]
          /\ subset' \in [Subsets!Node -> SUBSET Subsets!Node]
      BY <1>1, <1>4 DEF Subsets!TypeOK, Forest
    <2> QED
      BY <1>6, <1>8, <2>1, <2>2, <2>3 DEF Subsets!TypeOK
  <1> QED
    BY <1>5, <1>7, <1>8, <1>9 DEF SubsetsInv

\* A moved map takes its nodes with it; those it replaces are dead.
LEMMA MoveStep ==
    ASSUME SubsetsInv, NEW s \in Sets, NEW t \in Sets, Subsets!Move(s, t)
    PROVE  SubsetsInv'
  <1>1. Subsets!TypeOK /\ NodesInv /\ SetsInv /\ CallInv
    BY DEF SubsetsInv
  <1>2. NodesInv'
    BY <1>1, NodesKept DEF Subsets!Move, Forest, Subsets!history
  <1>3. /\ entries' \in [Sets -> Seq(1 .. allocated')]
        /\ \A u \in Sets : entries'[u] = IF u = s THEN <<>>
                                         ELSE IF u = t THEN entries[s] ELSE entries[u]
    <2>1. /\ entries' = [entries EXCEPT ![s] = <<>>, ![t] = entries[s]]
          /\ s # t /\ allocated' = allocated
      BY DEF Subsets!Move
    <2>2. entries \in [Sets -> Seq(1 .. allocated)] /\ <<>> \in Seq(1 .. allocated)
      BY <1>1 DEF Subsets!TypeOK
    <2> QED
      BY <2>1, <2>2
  <1>4. \A u \in Sets : Subsets!NodesOf(u)' =
           IF u = s THEN {} ELSE IF u = t THEN Subsets!NodesOf(s) ELSE Subsets!NodesOf(u)
    BY <1>3 DEF Subsets!NodesOf, Subsets!Range
  <1>5. SetsInv'
    <2>1. subset' = subset
      BY DEF Subsets!Move, Subsets!history
    <2> QED
      BY <1>1, <1>4, <2>1 DEF SetsInv
  <1>6. CallInv' /\ pc' = "idle" /\ root' = None
        /\ path' = <<>> /\ todo' = <<>> /\ found' = <<>> /\ asked' = <<>>
    BY <1>1 DEF CallInv, Subsets!Move, Subsets!Usable, Subsets!frames,
       Subsets!arguments, Subsets!history
  <1>7. Subsets!TypeOK'
    <2>1. /\ movedFrom' \subseteq Sets
          /\ allocated' \in 0 .. MaxNodes
          /\ parent' \in [Subsets!Node -> Subsets!Node]
          /\ size' \in [Subsets!Node -> 1 .. MaxNodes]
          /\ subset' \in [Subsets!Node -> SUBSET Subsets!Node]
      BY <1>1 DEF Subsets!TypeOK, Subsets!Move, Subsets!history
    <2> QED
      BY <1>3, <1>6, <2>1 DEF Subsets!TypeOK
  <1> QED
    BY <1>2, <1>5, <1>6, <1>7 DEF SubsetsInv

-----------------------------------------------------------------------------
(* The steps of a call.                                                    *)

\* The rest of what a step of a call changes.
LEMMA CallKeeps ==
    ASSUME SubsetsInv, Subsets!Continue
    PROVE  /\ pc # "idle"
           /\ UNCHANGED <<allocated, entries, movedFrom>>
           /\ Subsets!Live' = Subsets!Live
           /\ \A n \in Subsets!Live : n \in Subsets!Node /\ parent[n] \in Subsets!Live
  <1>1. UNCHANGED <<allocated, entries, movedFrom>> /\ pc # "idle"
    BY DEF Subsets!Continue, Subsets!Descend, Subsets!Reach, Subsets!Compress,
       Subsets!Resolved, Subsets!JoinNext, Subsets!Link, Subsets!Return, Subsets!Goto,
       Subsets!containers
  <1>2. Subsets!Live' = Subsets!Live
    BY <1>1 DEF Subsets!Live, Subsets!NodesOf
  <1>3. ASSUME NEW n \in Subsets!Live
        PROVE  n \in Subsets!Node /\ parent[n] \in Subsets!Live
    <2>1. n \in Subsets!Node
      BY LiveNodes DEF SubsetsInv
    <2>2. PICK s \in Sets : n \in Subsets!NodesOf(s)
      BY DEF Subsets!Live
    <2>3. parent[n] \in Subsets!NodesOf(s)
      BY <2>1, <2>2 DEF SubsetsInv, SetsInv, NodesInv, Headed
    <2> QED
      BY <2>1, <2>3 DEF Subsets!Live
  <1> QED
    BY <1>1, <1>2, <1>3

\* The types of the call, by its parts.
CallTypes ==
    /\ pc \in {"idle", "descend", "compress", "link"}
    /\ root \in Subsets!Live \union {None}
    /\ path \in Seq(Subsets!Live) /\ todo \in Seq(Subsets!Live)
    /\ found \in Seq(Subsets!Live) /\ asked \in Seq(Subsets!Live)

LEMMA CallTyped == Subsets!TypeOK => CallTypes
  BY DEF Subsets!TypeOK, CallTypes

LEMMA TypeKept ==
    ASSUME Subsets!TypeOK, CallTypes', UNCHANGED <<allocated, entries, movedFrom>>,
           parent' \in [Subsets!Node -> Subsets!Node],
           size' \in [Subsets!Node -> 1 .. MaxNodes],
           subset' \in [Subsets!Node -> SUBSET Subsets!Node]
    PROVE  Subsets!TypeOK'
  BY DEF Subsets!TypeOK, CallTypes

\* Steps that only change where the call is.
LEMMA WalkStep ==
    ASSUME SubsetsInv, Subsets!Continue, UNCHANGED Forest, CallTypes', CallInv'
    PROVE  SubsetsInv'
  <1>1. UNCHANGED <<allocated, entries, movedFrom>>
    BY CallKeeps
  <1>2. NodesInv' /\ SetsInv'
    BY <1>1, NodesKept, SetsKept DEF SubsetsInv, Forest
  <1>3. Subsets!TypeOK'
    <2>1. /\ parent' \in [Subsets!Node -> Subsets!Node]
          /\ size' \in [Subsets!Node -> 1 .. MaxNodes]
          /\ subset' \in [Subsets!Node -> SUBSET Subsets!Node]
      BY DEF SubsetsInv, Subsets!TypeOK, Forest
    <2> QED
      BY <1>1, <2>1, TypeKept DEF SubsetsInv
  <1> QED
    BY <1>2, <1>3 DEF SubsetsInv

\* The handle being resolved is one that was given.
LEMMA CurrentNode ==
    ASSUME SubsetsInv, pc \in {"descend", "compress"}
    PROVE  /\ Len(found) \in Nat /\ Len(found) + 1 \in DOMAIN asked
           /\ Current \in Subsets!Live /\ Current \in Subsets!Node
           /\ \A i \in DOMAIN path :
                 path[i] \in Subsets!Live /\ path[i] \in Subsets!Node
                 /\ path[i] \in subset[Current] /\ subset[path[i]] = subset[Current]
  <1>1. /\ found \in Seq(Subsets!Live) /\ asked \in Seq(Subsets!Live)
        /\ path \in Seq(Subsets!Live)
        /\ Len(found) < Len(asked) /\ Len(asked) \in 1 .. 2
        /\ \A i \in DOMAIN path : path[i] \in subset[Current]
        /\ Subsets!TypeOK /\ Partition
    BY CallTyped DEF SubsetsInv, NodesInv, CallInv, CallTypes
  <1>2. Len(found) \in Nat /\ Len(found) + 1 \in DOMAIN asked
    BY <1>1
  <1>3. Current \in Subsets!Live /\ Current \in Subsets!Node
    BY <1>1, <1>2, Elements, LiveNodes DEF Current
  <1>4. ASSUME NEW i \in DOMAIN path
        PROVE  /\ path[i] \in Subsets!Live /\ path[i] \in Subsets!Node
               /\ path[i] \in subset[Current] /\ subset[path[i]] = subset[Current]
    <2>1. path[i] \in Subsets!Live
      BY <1>1, Elements
    <2>2. path[i] \in subset[Current]
      BY <1>1
    <2> QED
      BY <1>1, <1>3, <2>1, <2>2, OneSubset
  <1> QED
    BY <1>2, <1>3, <1>4

\* return parent = representative_impl(parent): one frame deeper, and at least
\* twice as heavy.
LEMMA DescendStep ==
    ASSUME SubsetsInv, Subsets!Descend
    PROVE  SubsetsInv'
  <1> DEFINE n == Len(path)
             l == path[n]
             p == parent[l]
  <1>1. Subsets!TypeOK /\ NodesInv /\ CallInv /\ CallTypes
    BY CallTyped DEF SubsetsInv
  <1>2. /\ pc = "descend" /\ p # l /\ path' = Append(path, p)
        /\ UNCHANGED <<pc, root, todo, found, asked>> /\ UNCHANGED Forest
        /\ UNCHANGED entries
    BY DEF Subsets!Descend, Subsets!Last, Subsets!arguments, Subsets!history,
       Subsets!containers, Forest
  <1>3. path \in Seq(Subsets!Live) /\ path # <<>> /\ n \in DOMAIN path /\ n \in Nat
    <2>1. path \in Seq(Subsets!Live) /\ path # <<>>
      BY <1>1, <1>2 DEF CallTypes, CallInv
    <2> QED
      BY <2>1
  <1>4. /\ l \in Subsets!Live /\ l \in Subsets!Node /\ l \in subset[Current]
        /\ subset[l] = subset[Current]
    BY <1>2, <1>3, CurrentNode
  <1>5. p \in Subsets!Live /\ p \in Subsets!Node /\ p \in subset[Current]
    <2>1. p \in subset[l]
      BY <1>1, <1>4 DEF NodesInv, Headed
    <2> QED
      BY <1>4, <2>1, CallKeeps DEF Subsets!Continue
  <1>6. 2 * size[l] <= size[p]
    BY <1>1, <1>2, <1>4 DEF NodesInv, Weighed, Subsets!IsRoot
  <1>7. /\ path' \in Seq(Subsets!Live) /\ path' # <<>> /\ Len(path') = n + 1
        /\ DOMAIN path' = DOMAIN path \union {n + 1}
        /\ \A i \in DOMAIN path : path'[i] = path[i]
        /\ path'[n + 1] = p
    BY <1>2, <1>3, <1>5
  <1>8. CallTypes'
    BY <1>1, <1>2, <1>7 DEF CallTypes, Subsets!Live, Subsets!NodesOf
  <1>9. CallInv'
    <2>1. Current' = Current
      BY <1>2 DEF Current
    <2>2. \A i \in DOMAIN path' : path'[i] \in subset'[Current']
      BY <1>2, <1>5, <1>7, <2>1, CurrentNode DEF Forest
    <2>3. ASSUME NEW i \in DOMAIN path', i # Len(path')
          PROVE  2 * size'[path'[i]] <= size'[path'[Len(path')]]
      <3>1. i \in DOMAIN path /\ path'[i] = path[i]
        BY <1>7, <2>3
      <3>2. path[i] \in Subsets!Node
        BY <1>2, <3>1, CurrentNode
      <3>3. size[path[i]] \in Nat /\ size[l] \in Nat /\ size[p] \in Nat /\ size[l] >= 1
        BY <1>1, <1>4, <1>5, <3>2, NodeTypes
      <3>4. i # n => 2 * size[path[i]] <= size[l]
        BY <1>1, <1>2, <3>1 DEF CallInv
      <3>5. 2 * size[path[i]] <= size[p]
        BY <1>6, <3>3, <3>4
      <3> QED
        BY <1>2, <1>7, <3>1, <3>5 DEF Forest
    <2>4. UNCHANGED <<pc, root, todo, found, asked, parent, size, subset, entries>>
      BY <1>2 DEF Forest
    <2> QED
      BY <1>1, <1>2, <1>7, <2>2, <2>3, <2>4
         DEF CallInv, Subsets!IsRoot, Subsets!NodesOf
  <1> QED
    BY <1>2, <1>8, <1>9, WalkStep DEF Subsets!Continue

\* if (parent == h) { return h; }
LEMMA ReachStep ==
    ASSUME SubsetsInv, Subsets!Reach
    PROVE  SubsetsInv'
  <1> DEFINE n == Len(path)
             l == path[n]
  <1>1. Subsets!TypeOK /\ NodesInv /\ CallInv /\ CallTypes
    BY CallTyped DEF SubsetsInv
  <1>2. /\ pc = "descend" /\ pc' = "compress" /\ parent[l] = l
        /\ root' = l /\ path' = SubSeq(path, 1, n - 1)
        /\ UNCHANGED <<todo, found, asked>> /\ UNCHANGED Forest
        /\ UNCHANGED entries
    BY DEF Subsets!Reach, Subsets!Goto, Subsets!Last, Subsets!Front, Subsets!arguments,
       Subsets!history, Subsets!containers, Forest
  <1>3. path \in Seq(Subsets!Live) /\ path # <<>> /\ n \in DOMAIN path /\ n \in Nat
    <2>1. path \in Seq(Subsets!Live) /\ path # <<>>
      BY <1>1, <1>2 DEF CallTypes, CallInv
    <2> QED
      BY <2>1
  <1>4. l \in Subsets!Live /\ l \in subset[Current]
    BY <1>2, <1>3, CurrentNode
  <1>5. /\ path' \in Seq(Subsets!Live)
        /\ \A i \in DOMAIN path' : i \in DOMAIN path /\ path'[i] = path[i] /\ i # n
    BY <1>2, <1>3
  <1>6. CallTypes'
    BY <1>1, <1>2, <1>4, <1>5 DEF CallTypes, Subsets!Live, Subsets!NodesOf
  <1>7. CallInv'
    <2>1. Current' = Current
      BY <1>2 DEF Current
    <2>2. \A i \in DOMAIN path' : path'[i] \in subset'[Current']
      BY <1>2, <1>5, <2>1, CurrentNode DEF Forest
    <2>3. \A i \in DOMAIN path' : 2 * size'[path'[i]] <= size'[root']
      BY <1>1, <1>2, <1>5 DEF CallInv, Forest
    <2>4. /\ UNCHANGED <<todo, found, asked, parent, size, subset, entries>>
          /\ pc' = "compress" /\ Subsets!IsRoot(root)' /\ root' \in subset'[Current']
      BY <1>2, <1>4, <2>1 DEF Forest, Subsets!IsRoot
    <2>5. pc # "idle" /\ pc \in {"descend", "compress"}
      BY <1>2
    <2> QED
      BY <1>1, <2>2, <2>3, <2>4, <2>5
         DEF CallInv, Subsets!IsRoot, Subsets!NodesOf
  <1> QED
    BY <1>2, <1>6, <1>7, WalkStep DEF Subsets!Continue

\* A frame hangs its node directly below the root: in the same subset, and the
\* root weighs as much as it needs to.
LEMMA CompressStep ==
    ASSUME SubsetsInv, Subsets!Compress
    PROVE  SubsetsInv' /\ \A n \in Subsets!Node : Subsets!IsRoot(n)' = Subsets!IsRoot(n)
  <1> DEFINE n == Len(path)
             l == path[n]
  <1>1. /\ Subsets!TypeOK /\ Partition /\ Headed /\ Weighed /\ Fresh
        /\ SetsInv /\ CallInv /\ CallTypes
    BY CallTyped DEF SubsetsInv, NodesInv
  <1>2. /\ pc = "compress" /\ path # <<>>
        /\ parent' = [parent EXCEPT ![l] = root] /\ path' = SubSeq(path, 1, n - 1)
        /\ UNCHANGED <<pc, root, todo, found, asked, size, subset, entries, movedFrom,
                       allocated>>
    BY DEF Subsets!Compress, Subsets!Last, Subsets!Front, Subsets!arguments,
       Subsets!history, Subsets!containers
  <1>3. path \in Seq(Subsets!Live) /\ n \in DOMAIN path /\ n \in Nat
    <2>1. path \in Seq(Subsets!Live)
      BY <1>1 DEF CallTypes
    <2> QED
      BY <1>2, <2>1
  <1>4. /\ l \in Subsets!Node /\ l \in subset[Current] /\ subset[l] = subset[Current]
        /\ Current \in Subsets!Node
    BY <1>2, <1>3, CurrentNode
  <1>5. /\ Subsets!IsRoot(root) /\ root \in subset[l] /\ root \in Subsets!Node
        /\ 2 * size[l] <= size[root]
    <2>1. Subsets!IsRoot(root) /\ root \in subset[l] /\ 2 * size[l] <= size[root]
      BY <1>1, <1>2, <1>3, <1>4 DEF CallInv
    <2> QED
      BY <1>1, <1>4, <2>1, NodeTypes
  <1>6. l # root /\ ~ Subsets!IsRoot(l)
    <2>1. size[l] \in Nat /\ size[l] >= 1
      BY <1>1, <1>4, NodeTypes
    <2>2. l # root
      BY <1>5, <2>1
    <2> QED
      BY <1>1, <1>4, <1>5, <2>2, OnlyRoot DEF Partition
  <1>7. parent' \in [Subsets!Node -> Subsets!Node] /\ parent'[l] = root
        /\ \A m \in Subsets!Node \ {l} : parent'[m] = parent[m]
    BY <1>1, <1>2, <1>4, <1>5 DEF Subsets!TypeOK
  <1>8. \A m \in Subsets!Node : Subsets!IsRoot(m)' = Subsets!IsRoot(m)
    BY <1>6, <1>7 DEF Subsets!IsRoot
  <1>9. NodesInv'
    <2>1. Partition'
      BY <1>1, <1>2 DEF Partition
    <2>2. Headed'
      <3> SUFFICES ASSUME NEW m \in Subsets!Node
                   PROVE  parent'[m] \in subset[m] /\ \E r \in subset[m] : Heads(m, r)'
        BY <1>2 DEF Headed
      <3>1. PICK r \in subset[m] : Heads(m, r)
        BY <1>1 DEF Headed
      <3>2. Heads(m, r)'
        BY <1>1, <1>2, <1>8, <3>1, NodeTypes DEF Heads
      <3>3. parent'[m] \in subset[m]
        BY <1>1, <1>5, <1>7 DEF Headed
      <3> QED
        BY <3>2, <3>3
    <2>3. Weighed'
      <3> SUFFICES ASSUME NEW m \in Subsets!Node
                   PROVE  /\ ~ Subsets!IsRoot(m) => 2 * size[m] <= size[parent'[m]]
                          /\ Subsets!IsRoot(m) => size[m] = Cardinality(subset[m])
        BY <1>2, <1>8 DEF Weighed
      <3> QED
        BY <1>1, <1>5, <1>6, <1>7 DEF Weighed
    <2>4. Fresh'
      <3>1. ASSUME l > allocated PROVE FALSE
        BY <1>1, <1>4, <1>6, <3>1 DEF Fresh, Subsets!IsRoot
      <3> QED
        BY <1>1, <1>2, <1>7, <3>1 DEF Fresh
    <2> QED
      BY <2>1, <2>2, <2>3, <2>4 DEF NodesInv
  <1>10. SetsInv'
    BY <1>1, <1>2, SetsKept
  <1>11. /\ path' \in Seq(Subsets!Live)
         /\ \A i \in DOMAIN path' : i \in DOMAIN path /\ path'[i] = path[i]
    BY <1>2, <1>3
  <1>12. Subsets!TypeOK'
    <2>1. CallTypes'
      BY <1>1, <1>2, <1>11 DEF CallTypes, Subsets!Live, Subsets!NodesOf
    <2>2. /\ size' \in [Subsets!Node -> 1 .. MaxNodes]
          /\ subset' \in [Subsets!Node -> SUBSET Subsets!Node]
      BY <1>1, <1>2 DEF Subsets!TypeOK
    <2> QED
      BY <1>1, <1>2, <1>7, <2>1, <2>2, TypeKept
  <1>13. CallInv'
    <2>1. Current' = Current
      BY <1>2 DEF Current
    <2>2. \A i \in DOMAIN path' : /\ path'[i] \in subset'[Current']
                                  /\ 2 * size'[path'[i]] <= size'[root']
      BY <1>1, <1>2, <1>11, <2>1 DEF CallInv
    <2>3. \A i \in DOMAIN found :
             /\ i \in DOMAIN asked /\ Subsets!IsRoot(found[i])' /\ found[i] \in subset[asked[i]]
      <3> SUFFICES ASSUME NEW i \in DOMAIN found
                   PROVE  /\ i \in DOMAIN asked /\ found[i] \in subset[asked[i]]
                          /\ Subsets!IsRoot(found[i])'
        OBVIOUS
      <3>1. i \in DOMAIN asked /\ found[i] \in subset[asked[i]] /\ Subsets!IsRoot(found[i])
        BY <1>1, <1>2 DEF CallInv
      <3>2. found[i] \in Subsets!Node
        BY <1>1, Elements, LiveNodes DEF CallTypes
      <3> QED
        BY <1>2, <1>8, <3>1, <3>2 DEF Subsets!IsRoot
    <2>4. Subsets!IsRoot(root)' /\ root' \in subset'[Current']
      BY <1>1, <1>2, <1>5, <1>8, <2>1 DEF CallInv, Subsets!IsRoot
    <2> QED
      BY <1>1, <1>2, <2>2, <2>3, <2>4 DEF CallInv, Subsets!IsRoot, Subsets!NodesOf
  <1> QED
    BY <1>8, <1>9, <1>10, <1>12, <1>13 DEF SubsetsInv

\* The call returns.
LEMMA ReturnStep ==
    ASSUME Subsets!Return
    PROVE  /\ CallTypes' /\ CallInv' /\ UNCHANGED <<allocated, entries, movedFrom>>
  <1>1. /\ pc' = "idle" /\ path' = <<>> /\ root' = None
        /\ todo' = <<>> /\ found' = <<>> /\ asked' = <<>>
        /\ UNCHANGED <<allocated, entries, movedFrom>>
    BY DEF Subsets!Return, Subsets!containers
  <1>2. <<>> \in Seq(Subsets!Live)'
    OBVIOUS
  <1> QED
    BY <1>1, <1>2 DEF CallTypes, CallInv

LEMMA ResolvedStep ==
    ASSUME SubsetsInv, Subsets!Resolved
    PROVE  SubsetsInv'
  BY ReturnStep, WalkStep DEF Subsets!Resolved, Subsets!Continue, Forest

\* representative returns to join.
LEMMA JoinNextStep ==
    ASSUME SubsetsInv, Subsets!JoinNext
    PROVE  SubsetsInv'
  <1> DEFINE k == Len(found) + 1
  <1>1. Subsets!TypeOK /\ NodesInv /\ CallInv /\ CallTypes
    BY CallTyped DEF SubsetsInv
  <1>2. /\ pc = "compress" /\ path = <<>> /\ Len(asked) = 2
        /\ found' = Append(found, root) /\ root' = None /\ asked' = asked
        /\ UNCHANGED Forest /\ entries' = entries
        /\ IF todo = <<>>
           THEN pc' = "link" /\ UNCHANGED <<path, todo>>
           ELSE pc' = "descend" /\ path' = todo /\ todo' = <<>>
    BY DEF Subsets!JoinNext, Subsets!history, Subsets!containers, Forest
  <1>3. /\ found \in Seq(Subsets!Live) /\ asked \in Seq(Subsets!Live)
        /\ Len(found) \in 0 .. 1 /\ k \in DOMAIN asked
        /\ todo = IF found = <<>> THEN <<asked[2]>> ELSE <<>>
        /\ (found = <<>>) <=> (Len(found) = 0)
    <2>1. /\ found \in Seq(Subsets!Live) /\ asked \in Seq(Subsets!Live)
          /\ Len(found) < Len(asked)
          /\ todo = IF found = <<>> THEN <<asked[2]>> ELSE <<>>
      BY <1>1, <1>2 DEF CallInv, CallTypes
    <2>2. Len(found) \in Nat /\ k \in DOMAIN asked
      BY <1>2, CurrentNode
    <2>3. (found = <<>>) <=> (Len(found) = 0)
      BY <2>1
    <2>4. Len(found) \in 0 .. 1
      <3>1. Len(found) < 2 /\ Len(found) \in Nat
        BY <1>2, <2>1, <2>2
      <3>2. \A n \in Nat : n < 2 => n \in 0 .. 1
        OBVIOUS
      <3> QED
        BY <3>1, <3>2
    <2> HIDE DEF k
    <2> QED
      BY <2>1, <2>2, <2>3, <2>4
  <1>4. /\ Subsets!IsRoot(root) /\ root \in subset[asked[k]] /\ root \in Subsets!Live
    <2>1. Subsets!IsRoot(root) /\ root \in subset[Current]
      BY <1>1, <1>2 DEF CallInv
    <2>2. PICK s \in Sets : Current \in Subsets!NodesOf(s)
      BY <1>1, <1>2, <1>3 DEF CallInv, Current
    <2>3. root \in Subsets!NodesOf(s)
      BY <2>1, <2>2 DEF SubsetsInv, SetsInv
    <2> QED
      BY <2>1, <2>3 DEF Subsets!Live, Current
  <1>5. /\ found' \in Seq(Subsets!Live) /\ Len(found') = k
        /\ DOMAIN found' = DOMAIN found \union {k}
        /\ \A i \in DOMAIN found : found'[i] = found[i]
        /\ found'[k] = root
    BY <1>2, <1>3, <1>4
  <1>6. \A i \in DOMAIN found' :
           i \in DOMAIN asked' /\ Subsets!IsRoot(found[i])' /\ found'[i] \in subset'[asked'[i]]
    <2> SUFFICES ASSUME NEW i \in DOMAIN found'
                 PROVE  /\ i \in DOMAIN asked /\ parent[found'[i]] = found'[i]
                        /\ found'[i] \in subset[asked[i]]
      BY <1>2 DEF Subsets!IsRoot, Forest
    <2>1. CASE i = k
      BY <1>3, <1>4, <1>5, <2>1 DEF Subsets!IsRoot
    <2>2. CASE i \in DOMAIN found
      BY <1>1, <1>2, <1>5, <2>2 DEF CallInv, Subsets!IsRoot
    <2> QED
      BY <1>5, <2>1, <2>2
  <1>7. /\ pc' \in {"descend", "link"}
        /\ \E s \in Sets : \A i \in DOMAIN asked' : asked'[i] \in Subsets!NodesOf(s)'
        /\ Len(asked') = 2
    BY <1>1, <1>2 DEF CallInv, Subsets!NodesOf
  <1>8. CASE todo = <<>>
    <2>1. pc' = "link" /\ path' = <<>> /\ todo' = <<>> /\ Len(found) = 1
      BY <1>2, <1>3, <1>8
    <2>2. CallInv'
      BY <1>2, <1>5, <1>6, <1>7, <2>1 DEF CallInv
    <2>3. CallTypes'
      BY <1>1, <1>2, <1>5, <2>1 DEF CallTypes, Subsets!Live, Subsets!NodesOf
    <2> QED
      BY <1>2, <2>2, <2>3, WalkStep DEF Subsets!Continue
  <1>9. CASE todo # <<>>
    <2>1. /\ pc' = "descend" /\ path' = <<asked[2]>> /\ todo' = <<>> /\ found = <<>>
          /\ Len(found) = 0 /\ found' # <<>>
      BY <1>2, <1>3, <1>5, <1>9
    <2>2. asked[2] \in Subsets!Live /\ asked[2] \in subset[asked[2]]
      <3>1. asked[2] \in Subsets!Live
        BY <1>2, <1>3
      <3> QED
        BY <1>1, <3>1, LiveNodes DEF NodesInv, Partition
    <2>3. Current' = asked[2]
      BY <1>2, <1>5, <2>1 DEF Current
    <2>4. /\ \A i \in DOMAIN path' : i = 1 /\ path'[i] = asked[2] /\ i = Len(path')
          /\ path' # <<>>
      BY <2>1
    <2>5. CallInv'
      <3>1. /\ Len(found') < Len(asked') /\ found' # <<>> /\ todo' = <<>>
            /\ \A i \in DOMAIN path' : path'[i] \in subset'[Current']
        <4>1. Len(found') < Len(asked')
          BY <1>5, <1>7, <2>1
        <4>2. subset'[Current'] = subset[asked[2]]
          BY <1>2, <2>3 DEF Forest
        <4> QED
          BY <2>1, <2>2, <2>4, <4>1, <4>2
      <3>2. \A i \in DOMAIN path' : i = Len(path')
        BY <2>4
      <3>3. pc' = "descend" /\ root' = None /\ path' # <<>>
        BY <1>2, <2>1, <2>4
      <3> QED
        BY <1>6, <1>7, <3>1, <3>2, <3>3 DEF CallInv
    <2>6. CallTypes'
      BY <1>1, <1>2, <1>5, <2>1, <2>2 DEF CallTypes, Subsets!Live, Subsets!NodesOf
    <2> QED
      BY <1>2, <2>5, <2>6, WalkStep DEF Subsets!Continue
  <1> QED
    BY <1>8, <1>9

\* Hanging a root below another, heavier one joins their subsets under one root
\* of their common weight.
LEMMA HangStep ==
    ASSUME SubsetsInv, NEW a \in Subsets!Node, NEW b \in Subsets!Node, a # b,
           Subsets!IsRoot(a), Subsets!IsRoot(b), size[b] <= size[a],
           \E s \in Sets : {a, b} \subseteq Subsets!NodesOf(s),
           Subsets!Hang(b, a), UNCHANGED <<allocated, entries, movedFrom>>,
           CallTypes', CallInv'
    PROVE  SubsetsInv'
  <1> DEFINE joined == subset[a] \union subset[b]
             Node == Subsets!Node
  <1>1. /\ Subsets!TypeOK /\ Partition /\ Headed /\ Weighed /\ Fresh /\ SetsInv
    BY DEF SubsetsInv, NodesInv
  <1>2. /\ a \in subset[a] /\ b \in subset[b] /\ joined \subseteq Node
        /\ subset[a] \intersect subset[b] = {}
    <2>1. a \in subset[a] /\ b \in subset[b] /\ joined \subseteq Node
      BY <1>1, NodeTypes DEF Partition
    <2>2. ASSUME NEW m \in subset[a], m \in subset[b] PROVE FALSE
      <3>1. subset[a] = subset[b]
        BY <1>1, <2>2, OneSubset
      <3> QED
        BY <1>1, <2>1, <3>1, OnlyRoot
    <2> QED
      BY <2>1, <2>2
  <1>3. /\ size[a] = Cardinality(subset[a]) /\ size[b] = Cardinality(subset[b])
        /\ size[a] \in Nat /\ size[b] \in Nat /\ size[a] >= 1 /\ size[b] >= 1
        /\ IsFiniteSet(subset[a]) /\ IsFiniteSet(subset[b])
    BY <1>1, NodeTypes DEF Weighed
  <1>4. Cardinality(joined) = size[a] + size[b] /\ Cardinality(joined) <= MaxNodes
    <2>1. Cardinality(subset[a] \intersect subset[b]) = 0
      BY <1>2, FS_EmptySet
    <2>2. /\ Cardinality(joined)
               = Cardinality(subset[a]) + Cardinality(subset[b])
                 - Cardinality(subset[a] \intersect subset[b])
          /\ IsFiniteSet(joined)
      BY <1>3, FS_Union
    <2>3. Cardinality(joined) <= MaxNodes
      BY <1>2, AllNodes, FS_Subset
    <2> QED
      BY <1>3, <2>1, <2>2, <2>3
  <1>5. /\ parent' \in [Node -> Node] /\ parent'[b] = a
        /\ \A m \in Node \ {b} : parent'[m] = parent[m]
    BY <1>1 DEF Subsets!Hang, Subsets!TypeOK
  <1>6. /\ size'[a] = size[a] + size[b] /\ \A m \in Node \ {a} : size'[m] = size[m]
        /\ size' \in [Node -> 1 .. MaxNodes]
    <2>1. size' = [size EXCEPT ![a] = @ + size[b]] /\ size \in [Node -> 1 .. MaxNodes]
      BY <1>1 DEF Subsets!Hang, Subsets!TypeOK
    <2>2. size[a] + size[b] \in 1 .. MaxNodes
      BY <1>3, <1>4, ContainersAssumption
    <2> QED
      BY <2>1, <2>2
  <1>7. /\ subset' \in [Node -> SUBSET Node]
        /\ \A m \in Node : subset'[m] = IF m \in joined THEN joined ELSE subset[m]
    BY <1>1, <1>2 DEF Subsets!Hang, Subsets!TypeOK
  <1>8. \A m \in Node : Subsets!IsRoot(m)' <=> Subsets!IsRoot(m) /\ m # b
    BY <1>5 DEF Subsets!IsRoot
  <1>9. \A m \in Node : m \notin joined => subset[m] \intersect joined = {}
    <2> SUFFICES ASSUME NEW m \in Node, NEW x \in subset[m], x \in joined
                 PROVE  m \in joined
      OBVIOUS
    <2>1. m \in subset[x] /\ x \in Node
      BY <1>1, OneSubset
    <2>2. subset[x] = subset[a] \/ subset[x] = subset[b]
      BY <1>1, OneSubset
    <2> QED
      BY <2>1, <2>2
  <1>10. Partition'
    <2> SUFFICES ASSUME NEW n \in Node
                 PROVE  n \in subset'[n] /\ \A m \in subset'[n] : subset'[m] = subset'[n]
      BY DEF Partition
    <2>1. CASE n \in joined
      BY <1>2, <1>7, <2>1
    <2>2. CASE n \notin joined
      <3>1. subset'[n] = subset[n] /\ n \in subset[n]
        BY <1>1, <1>7, <2>2 DEF Partition
      <3>2. \A m \in subset[n] : m \in Node /\ m \notin joined /\ subset[m] = subset[n]
        BY <1>1, <1>9, <2>2, OneSubset
      <3> QED
        BY <1>7, <3>1, <3>2
    <2> QED
      BY <2>1, <2>2
  <1>11. Headed'
    <2> SUFFICES ASSUME NEW n \in Node
                 PROVE  parent'[n] \in subset'[n] /\ \E r \in subset'[n] : Heads(n, r)'
      BY DEF Headed
    <2>1. CASE n \in joined
      <3>1. subset'[n] = joined
        BY <1>7, <2>1
      <3>2. parent'[n] \in joined
        <4>1. CASE n = b
          BY <1>2, <1>5, <4>1
        <4>2. CASE n # b
          <5>1. parent[n] \in subset[n]
            BY <1>1 DEF Headed
          <5>2. subset[n] = subset[a] \/ subset[n] = subset[b]
            BY <1>1, <2>1, OneSubset
          <5> QED
            BY <1>5, <4>2, <5>1, <5>2
        <4> QED
          BY <4>1, <4>2
      <3>3. ASSUME NEW m \in joined PROVE Subsets!IsRoot(m)' <=> m = a
        <4>1. m \in Node
          BY <1>2
        <4>2. m \in subset[a] => (Subsets!IsRoot(m) <=> m = a)
          BY <1>1, <1>2, OnlyRoot
        <4>3. m \in subset[b] => (Subsets!IsRoot(m) <=> m = b)
          BY <1>1, <1>2, OnlyRoot
        <4> QED
          BY <1>2, <1>8, <4>1, <4>2, <4>3
      <3>4. Heads(n, a)' /\ a \in joined
        BY <1>2, <3>1, <3>3 DEF Heads
      <3> QED
        BY <3>1, <3>2, <3>4
    <2>2. CASE n \notin joined
      <3>1. subset'[n] = subset[n] /\ n # b /\ parent[n] \in subset[n]
        BY <1>1, <1>2, <1>7, <2>2 DEF Headed
      <3>2. PICK r \in subset[n] : Heads(n, r)
        BY <1>1 DEF Headed
      <3>3. \A m \in subset[n] : m \in Node /\ m # b
        BY <1>1, <1>2, <1>9, <2>2, NodeTypes
      <3>4. Heads(n, r)'
        BY <1>8, <3>1, <3>2, <3>3 DEF Heads
      <3> QED
        BY <1>5, <3>1, <3>4
    <2> QED
      BY <2>1, <2>2
  <1>12. Weighed'
    <2> SUFFICES ASSUME NEW n \in Node
                 PROVE  /\ ~ Subsets!IsRoot(n)' => 2 * size'[n] <= size'[parent'[n]]
                        /\ Subsets!IsRoot(n)' => size'[n] = Cardinality(subset'[n])
      BY DEF Weighed
    <2>1. CASE n = b
      <3>1. ~ Subsets!IsRoot(b)'
        BY <1>8
      <3>2. 2 * size[b] <= size[a] + size[b]
        BY <1>3
      <3> QED
        BY <1>5, <1>6, <2>1, <3>1, <3>2
    <2>2. CASE n = a
      <3>1. Subsets!IsRoot(a)' /\ subset'[a] = joined
        BY <1>2, <1>7, <1>8
      <3> QED
        BY <1>4, <1>6, <2>2, <3>1
    <2>3. CASE n # a /\ n # b
      <3>1. size'[n] = size[n] /\ parent'[n] = parent[n] /\ parent[n] \in Node
        BY <1>1, <1>5, <1>6, <2>3, NodeTypes
      <3>2. size[parent[n]] \in Nat /\ size[n] \in Nat /\ size[parent[n]] <= size'[parent[n]]
        BY <1>1, <1>3, <1>6, <3>1, NodeTypes
      <3>3. ~ Subsets!IsRoot(n) => 2 * size[n] <= size[parent[n]]
        BY <1>1 DEF Weighed
      <3>4. ~ Subsets!IsRoot(n) => 2 * size[n] <= size'[parent[n]]
        <4>1. size'[parent[n]] \in Nat
          BY <1>3, <1>6, <3>1, <3>2
        <4> QED
          BY <3>2, <3>3, <4>1
      <3>5. Subsets!IsRoot(n) => n \notin joined
        BY <1>1, <1>2, <2>3, OnlyRoot
      <3>6. Subsets!IsRoot(n) => size[n] = Cardinality(subset[n])
        BY <1>1 DEF Weighed
      <3> QED
        BY <1>7, <1>8, <2>3, <3>1, <3>4, <3>5, <3>6
    <2> QED
      BY <2>1, <2>2, <2>3
  <1>13. Fresh' /\ SetsInv'
    <2>1. PICK s \in Sets : {a, b} \subseteq Subsets!NodesOf(s)
      OBVIOUS
    <2>2. joined \subseteq Subsets!NodesOf(s)
      BY <1>1, <2>1 DEF SetsInv
    <2>3. \A n \in Node : n > allocated => n \notin joined
      <3>1. joined \subseteq 1 .. allocated /\ allocated \in Nat
        BY <1>1, <2>2, LiveNodes, NodeTypes
      <3> QED
        BY <3>1
    <2>4. Fresh'
      BY <1>1, <1>2, <1>5, <1>6, <1>7, <2>3 DEF Fresh
    <2>5. \A t \in Sets : Subsets!NodesOf(t)' = Subsets!NodesOf(t)
      BY DEF Subsets!NodesOf
    <2>6. ASSUME NEW t \in Sets, NEW n \in Subsets!NodesOf(t)
          PROVE  subset'[n] \subseteq Subsets!NodesOf(t)
      <3>1. n \in Node /\ subset[n] \subseteq Subsets!NodesOf(t)
        BY <1>1, LiveNodes DEF SetsInv, Subsets!Live
      <3>2. CASE n \in joined
        <4>1. t = s
          BY <1>1, <2>2, <3>2 DEF SetsInv
        <4> QED
          BY <1>7, <2>2, <3>1, <3>2, <4>1
      <3> QED
        BY <1>7, <3>1, <3>2
    <2> QED
      BY <1>1, <2>4, <2>5, <2>6 DEF SetsInv
  <1>14. Subsets!TypeOK'
    BY <1>1, <1>5, <1>6, <1>7, TypeKept
  <1> QED
    BY <1>10, <1>11, <1>12, <1>13, <1>14 DEF SubsetsInv, NodesInv

\* The rest of join.
LEMMA LinkStep ==
    ASSUME SubsetsInv, Subsets!Link
    PROVE  SubsetsInv'
  <1> DEFINE a == Subsets!Larger
             b == Subsets!Smaller
  <1>1. Subsets!TypeOK /\ NodesInv /\ CallInv /\ CallTypes
    BY CallTyped DEF SubsetsInv
  <1>2. /\ pc = "link" /\ Subsets!Return
        /\ IF found[1] = found[2] THEN UNCHANGED Forest ELSE Subsets!Hang(b, a)
    BY DEF Subsets!Link, Forest
  <1>3. CallTypes' /\ CallInv' /\ UNCHANGED <<allocated, entries, movedFrom>>
    BY <1>2, ReturnStep
  <1>4. CASE found[1] = found[2]
    BY <1>2, <1>3, <1>4, WalkStep DEF Subsets!Continue
  <1>5. CASE found[1] # found[2]
    <2>1. /\ 1 \in DOMAIN found /\ 2 \in DOMAIN found
          /\ 1 \in DOMAIN asked /\ 2 \in DOMAIN asked
      BY <1>1, <1>2 DEF CallInv, CallTypes
    <2>2. /\ Subsets!IsRoot(found[1]) /\ found[1] \in subset[asked[1]]
          /\ Subsets!IsRoot(found[2]) /\ found[2] \in subset[asked[2]]
      BY <1>1, <1>2, <2>1 DEF CallInv
    <2>3. PICK s \in Sets : asked[1] \in Subsets!NodesOf(s) /\ asked[2] \in Subsets!NodesOf(s)
      BY <1>1, <1>2, <2>1 DEF CallInv
    <2>4. found[1] \in Subsets!NodesOf(s) /\ found[2] \in Subsets!NodesOf(s)
      BY <2>2, <2>3 DEF SubsetsInv, SetsInv
    <2>5. found[1] \in Subsets!Node /\ found[2] \in Subsets!Node
      BY <1>1, <2>4, LiveNodes DEF Subsets!Live
    <2>6. size[found[1]] \in Nat /\ size[found[2]] \in Nat
      BY <1>1, <2>5, NodeTypes
    <2>7. /\ a \in Subsets!Node /\ b \in Subsets!Node /\ a # b
          /\ Subsets!IsRoot(a) /\ Subsets!IsRoot(b) /\ size[b] <= size[a]
          /\ {a, b} \subseteq Subsets!NodesOf(s)
      BY <1>5, <2>2, <2>4, <2>5, <2>6 DEF Subsets!Larger, Subsets!Smaller
    <2> HIDE DEF a, b
    <2> QED
      BY <1>2, <1>3, <1>5, <2>7, HangStep
  <1> QED
    BY <1>4, <1>5

-----------------------------------------------------------------------------
(* The calls begin.                                                        *)

LEMMA CallStep ==
    ASSUME SubsetsInv, NEW s \in Sets, NEW h \in Subsets!NodesOf(s), NEW rest,
           rest = <<>> \/ \E b \in Subsets!NodesOf(s) : rest = <<b>>,
           Subsets!Call(h, rest)
    PROVE  SubsetsInv'
  <1>1. Subsets!TypeOK /\ NodesInv /\ SetsInv /\ CallInv /\ CallTypes
    BY CallTyped DEF SubsetsInv
  <1>2. /\ pc = "idle" /\ pc' = "descend" /\ path' = <<h>> /\ todo' = rest
        /\ asked' = <<h>> \o rest
        /\ UNCHANGED <<allocated, entries, movedFrom, root, found>> /\ UNCHANGED Forest
    BY DEF Subsets!Call, Subsets!Goto, Subsets!containers, Forest
  <1>3. root = None /\ found = <<>> /\ Len(found) = 0
    BY <1>1, <1>2 DEF CallInv
  <1>4. /\ h \in Subsets!Live /\ h \in Subsets!Node /\ h \in subset[h]
        /\ Subsets!NodesOf(s) \subseteq Subsets!Live
        /\ Subsets!Live' = Subsets!Live /\ Subsets!NodesOf(s)' = Subsets!NodesOf(s)
    <2>1. h \in Subsets!Live /\ Subsets!NodesOf(s) \subseteq Subsets!Live
      BY DEF Subsets!Live
    <2> QED
      BY <1>1, <1>2, <2>1, LiveNodes DEF NodesInv, Partition, Subsets!Live, Subsets!NodesOf
  <1>5. /\ asked' \in Seq(Subsets!NodesOf(s)) /\ Len(asked') \in 1 .. 2 /\ asked'[1] = h
        /\ rest = IF Len(asked') = 2 THEN <<asked'[2]>> ELSE <<>>
        /\ rest \in Seq(Subsets!NodesOf(s))
        /\ \A i \in DOMAIN asked' : asked'[i] \in Subsets!NodesOf(s)
    <2>1. CASE rest = <<>>
      BY <1>2, <2>1
    <2>2. ASSUME NEW b \in Subsets!NodesOf(s), rest = <<b>>
          PROVE  <1>5!:
      BY <1>2, <2>2
    <2> QED
      BY <2>1, <2>2
  <1>6. CallTypes'
    BY <1>1, <1>2, <1>4, <1>5, Elements DEF CallTypes
  <1>7. CallInv'
    <2>1. Current' = h
      BY <1>2, <1>3, <1>5 DEF Current
    <2>2. \A i \in DOMAIN path' : i = Len(path') /\ path'[i] = h
      BY <1>2
    <2> QED
      BY <1>2, <1>3, <1>4, <1>5, <2>1, <2>2 DEF CallInv, Forest
  <1>8. Subsets!TypeOK'
    <2>1. /\ parent' \in [Subsets!Node -> Subsets!Node]
          /\ size' \in [Subsets!Node -> 1 .. MaxNodes]
          /\ subset' \in [Subsets!Node -> SUBSET Subsets!Node]
      BY <1>1, <1>2 DEF Subsets!TypeOK, Forest
    <2> QED
      BY <1>1, <1>2, <1>6, <2>1, TypeKept
  <1> QED
    BY <1>1, <1>2, <1>7, <1>8, NodesKept, SetsKept DEF SubsetsInv, Forest

LEMMA SubsetsStep ==
    ASSUME SubsetsInv, [Subsets!Next]_Subsets!vars
    PROVE  SubsetsInv'
  <1>1. ASSUME NEW s \in Sets, Subsets!Insert(s) PROVE SubsetsInv'
    BY <1>1, InsertStep
  <1>2. ASSUME NEW s \in Sets, Subsets!Representative(s) PROVE SubsetsInv'
    BY <1>2, CallStep DEF Subsets!Representative
  <1>3. ASSUME NEW s \in Sets, Subsets!Join(s) PROVE SubsetsInv'
    BY <1>3, CallStep DEF Subsets!Join
  <1>4. CASE Subsets!Continue
    BY <1>4, DescendStep, ReachStep, CompressStep, ResolvedStep, JoinNextStep, LinkStep
       DEF Subsets!Continue
  <1>5. ASSUME NEW s \in Sets, NEW t \in Sets, Subsets!Move(s, t) PROVE SubsetsInv'
    BY <1>5, MoveStep
  <1>6. CASE UNCHANGED Subsets!vars
    <2>1. /\ UNCHANGED <<allocated, parent, size, entries, movedFrom, pc, path, root, todo,
                         found, subset, asked>>
      BY <1>6 DEF Subsets!vars, Subsets!containers, Subsets!frames, Subsets!arguments,
         Subsets!history
    <2>2. NodesInv' /\ SetsInv'
      BY <2>1, NodesKept, SetsKept DEF SubsetsInv, Forest
    <2>3. Subsets!TypeOK' /\ CallInv'
      BY <2>1 DEF SubsetsInv, Subsets!TypeOK, Subsets!Live, Subsets!NodesOf, CallInv,
         Current, Subsets!IsRoot
    <2> QED
      BY <2>2, <2>3 DEF SubsetsInv
  <1> QED
    BY <1>1, <1>2, <1>3, <1>4, <1>5, <1>6 DEF Subsets!Next

-----------------------------------------------------------------------------
(* Disjoint sets among the other containers.                               *)

\* DisjointSet counts as everybody does.
LEMMA SameCardinality == \A S : Subsets!Cardinality(S) = Cardinality(S)
  BY Zenon DEF Cardinality, Subsets!Cardinality

\* What the disjoint sets do in a step of any container.
LEMMA SubsetsAlone ==
    ASSUME [AnyNext]_allVars
    PROVE  [Subsets!Next]_Subsets!vars
  BY DEF AnyNext, allVars, subsetVars, RangesOnly, RangeMapOnly, StackOnly, StableOnly,
     ForestOnly, SubsetsOnly, Subsets!vars, Subsets!containers, Subsets!frames,
     Subsets!arguments, Subsets!history

\* The invariant holds in every reachable state of the containers.
THEOREM SubsetsInvariance ==
    AnySpec => []SubsetsInv
  <1>1. AnyInit => SubsetsInv
    BY SubsetsInit DEF AnyInit
  <1>2. SubsetsInv /\ [AnyNext]_allVars => SubsetsInv'
    BY SubsetsAlone, SubsetsStep
  <1> QED
    BY <1>1, <1>2, PTL DEF AnySpec

\* Disjoint sets of any size and number: after any insertions, calls and moves,
\* and at every step of a recursion, each subset has exactly one root, to which
\* the parents of its elements lead, representative answers within the subset
\* it is asked about, and every step up a tree at least doubles the weight.
THEOREM SubsetsSoundHolds ==
    AnySpec => []SubsetsSound
  <1>1. SubsetsInv => SubsetsSound
    <2> SUFFICES ASSUME SubsetsInv PROVE SubsetsSound
      OBVIOUS
    <2>1. /\ Subsets!TypeOK /\ Partition /\ Headed /\ Weighed /\ CallInv
          /\ Subsets!Live \subseteq Subsets!Node
      BY LiveNodes DEF SubsetsInv, NodesInv
    <2>2. Subsets!OneRoot
      <3> SUFFICES ASSUME NEW n \in Subsets!Live
                   PROVE  /\ parent[n] \in subset[n]
                          /\ Cardinality({r \in subset[n] : Subsets!IsRoot(r)}) = 1
        BY SameCardinality DEF Subsets!OneRoot
      <3>1. PICK h \in subset[n] : Heads(n, h)
        BY <2>1 DEF Headed
      <3>2. {r \in subset[n] : Subsets!IsRoot(r)} = {h}
        BY <3>1 DEF Heads
      <3> QED
        BY <2>1, <3>2, FS_Singleton DEF Headed
    <2>3. Subsets!RepresentativeInSubset
      BY <2>1 DEF Subsets!RepresentativeInSubset, CallInv, Current
    <2>4. Subsets!Balanced
      BY <2>1, SameCardinality DEF Subsets!Balanced, Weighed
    <2> QED
      BY <2>1, <2>2, <2>3, <2>4 DEF SubsetsSound
  <1> QED
    BY <1>1, SubsetsInvariance, PTL

\* A root stays a root in every step but the last one of a join.
LEMMA RootsStep ==
    ASSUME SubsetsInv, [Subsets!Next]_Subsets!vars,
           NEW n \in Subsets!Live, n \in Subsets!Live', Subsets!IsRoot(n), pc # "link"
    PROVE  Subsets!IsRoot(n)'
  <1>1. n \in Subsets!Node /\ n \in 1 .. allocated /\ Subsets!TypeOK
    BY LiveNodes DEF SubsetsInv
  <1>2. ASSUME NEW s \in Sets, Subsets!Insert(s)
        PROVE  Subsets!IsRoot(n)'
    <2>1. n # allocated + 1
      BY <1>1, NodeTypes
    <2> QED
      BY <1>1, <1>2, <2>1 DEF Subsets!Insert, Subsets!IsRoot, Subsets!TypeOK
  <1>3. CASE Subsets!Compress
    BY <1>1, <1>3, CompressStep
  <1>4. CASE parent' = parent
    BY <1>4 DEF Subsets!IsRoot
  <1> QED
    BY <1>2, <1>3, <1>4 DEF Subsets!Next, Subsets!Continue, Subsets!Representative,
       Subsets!Join, Subsets!Call, Subsets!Move, Subsets!Descend, Subsets!Reach,
       Subsets!Resolved, Subsets!JoinNext, Subsets!Link, Subsets!Goto, Subsets!vars

-----------------------------------------------------------------------------
(* Interval maps: the first and the last of some intervals.                *)

LEMMA ProperIntervals ==
    /\ IsFiniteSet(RangeMap!Proper)
    /\ None \notin RangeMap!Proper
    /\ \A i \in RangeMap!Proper :
          /\ i.lower \in Nat /\ i.upper \in Nat /\ i.lower < i.upper
          /\ i.lower <= MaxKey /\ i.upper <= MaxKey
          /\ i = RangeMap!Between(i.lower, i.upper)
    /\ \A l, u \in RangeMap!Bound : l < u => RangeMap!Between(l, u) \in RangeMap!Proper
  <1>1. \A i \in RangeMap!Proper :
           /\ i \in [lower : RangeMap!Bound, upper : RangeMap!Bound]
           /\ i.lower <= i.upper /\ i.lower # i.upper
    BY DEF RangeMap!Proper, RangeMap!Interval, RangeMap!Empty
  <1>2. \A i \in RangeMap!Proper :
           /\ i.lower \in Nat /\ i.upper \in Nat /\ i.lower < i.upper
           /\ i.lower <= MaxKey /\ i.upper <= MaxKey
           /\ i = RangeMap!Between(i.lower, i.upper)
    BY <1>1, ContainersAssumption DEF RangeMap!Bound, RangeMap!Between
  <1>3. None \notin RangeMap!Proper
    BY <1>1, ContainersAssumption DEF RangeMap!Bound
  <1>4. \A l, u \in RangeMap!Bound : l < u => RangeMap!Between(l, u) \in RangeMap!Proper
    BY ContainersAssumption DEF RangeMap!Proper, RangeMap!Interval, RangeMap!Empty,
       RangeMap!Bound, RangeMap!Between
  <1>5. IsFiniteSet(RangeMap!Proper)
    <2> DEFINE B == RangeMap!Bound
               f == [i \in RangeMap!Proper |-> <<i.lower, i.upper>>]
    <2>1. IsFiniteSet(B)
      BY ContainersAssumption, FS_Interval DEF RangeMap!Bound
    <2>2. IsFiniteSet(B \X B)
      BY <2>1, FS_Product
    <2>3. f \in Injection(RangeMap!Proper, B \X B)
      <3>1. f \in [RangeMap!Proper -> B \X B]
        BY <1>1
      <3>2. ASSUME NEW i \in RangeMap!Proper, NEW j \in RangeMap!Proper, f[i] = f[j]
            PROVE  i = j
        <4>1. i.lower = j.lower /\ i.upper = j.upper
          BY <3>2
        <4>2. i = RangeMap!Between(i.lower, i.upper) /\ j = RangeMap!Between(j.lower, j.upper)
          BY <1>2
        <4> QED
          BY <4>1, <4>2
      <3> QED
        BY <3>1, <3>2 DEF Injection, IsInjective
    <2> QED
      BY <2>2, <2>3, FS_Injection
  <1> QED
    BY <1>2, <1>3, <1>4, <1>5

LEMMA BelowOrders ==
    ASSUME NEW i \in RangeMap!Proper, NEW j \in RangeMap!Proper
    PROVE  /\ i = j \/ RangeMap!Below(i, j) \/ RangeMap!Below(j, i)
           /\ ~ (RangeMap!Below(i, j) /\ RangeMap!Below(j, i))
           /\ ~ RangeMap!Below(i, i)
           /\ \A k \in RangeMap!Proper :
                 RangeMap!Below(i, j) /\ RangeMap!Below(j, k) => RangeMap!Below(i, k)
  <1>1. /\ i = RangeMap!Between(i.lower, i.upper)
        /\ j = RangeMap!Between(j.lower, j.upper)
        /\ \A k \in RangeMap!Proper : k.lower \in Nat /\ k.upper \in Nat
    BY ProperIntervals
  <1>2. i.lower = j.lower /\ i.upper = j.upper => i = j
    BY <1>1
  <1> QED
    BY <1>1, <1>2 DEF RangeMap!Below

\* First and Latest find what they are named for.
LEMMA FirstIs ==
    ASSUME NEW S \in SUBSET RangeMap!Proper
    PROVE  /\ RangeMap!First(S) = None <=> S = {}
           /\ S # {} => /\ RangeMap!First(S) \in S
                        /\ \A j \in S : j = RangeMap!First(S) \/ RangeMap!Below(RangeMap!First(S), j)
  <1> DEFINE upTo(i) == {j \in S : j = i \/ RangeMap!Below(j, i)}
             F == {upTo(i) : i \in S}
  <1>1. CASE S = {}
    BY <1>1 DEF RangeMap!First
  <1>2. CASE S # {}
    <2>1. F \subseteq SUBSET S /\ F # {}
      BY <1>2
    <2>2. PICK T \in F : \A U \in F : U \subseteq T => U = T
      <3> HIDE DEF F
      <3>1. IsFiniteSet(S)
        BY ProperIntervals, FS_Subset
      <3> QED
        BY <2>1, <3>1, Smallest
    <2>3. PICK i \in S : T = upTo(i)
      BY <2>2
    <2>4. ASSUME NEW j \in S PROVE j = i \/ RangeMap!Below(i, j)
      <3> SUFFICES ASSUME RangeMap!Below(j, i), j # i PROVE FALSE
        BY BelowOrders
      <3>1. upTo(j) \subseteq upTo(i)
        BY BelowOrders
      <3>2. upTo(j) = upTo(i)
        BY <2>2, <2>3, <3>1
      <3>3. i \in upTo(j)
        BY <3>2
      <3> QED
        BY <3>3, BelowOrders
    <2>5. /\ RangeMap!First(S) \in S
          /\ \A j \in S : j = RangeMap!First(S) \/ RangeMap!Below(RangeMap!First(S), j)
      BY <1>2, <2>4 DEF RangeMap!First
    <2> QED
      BY <1>2, <2>5, ProperIntervals
  <1> QED
    BY <1>1, <1>2

LEMMA LatestIs ==
    ASSUME NEW S \in SUBSET RangeMap!Proper
    PROVE  RangeMap!Latest(S) = None \/ RangeMap!Latest(S) \in S
  <1> DEFINE from(i) == {j \in S : j = i \/ RangeMap!Below(i, j)}
             F == {from(i) : i \in S}
  <1>1. CASE S = {}
    BY <1>1 DEF RangeMap!Latest
  <1>2. CASE S # {}
    <2>1. F \subseteq SUBSET S /\ F # {}
      BY <1>2
    <2>2. PICK T \in F : \A U \in F : U \subseteq T => U = T
      <3> HIDE DEF F
      <3>1. IsFiniteSet(S)
        BY ProperIntervals, FS_Subset
      <3> QED
        BY <2>1, <3>1, Smallest
    <2>3. PICK i \in S : T = from(i)
      BY <2>2
    <2>4. ASSUME NEW j \in S PROVE j = i \/ RangeMap!Below(j, i)
      <3> SUFFICES ASSUME RangeMap!Below(i, j), j # i PROVE FALSE
        BY BelowOrders
      <3>1. from(j) \subseteq from(i)
        BY BelowOrders
      <3>2. from(j) = from(i)
        BY <2>2, <2>3, <3>1
      <3>3. i \in from(j)
        BY <3>2
      <3> QED
        BY <3>3, BelowOrders
    <2> QED
      BY <1>2, <2>4 DEF RangeMap!Latest
  <1> QED
    BY <1>1, <1>2

-----------------------------------------------------------------------------
(* Interval maps: insert_or_assign keeps the bounds of the entries in      *)
(* order.                                                                  *)

\* Erasing and inserting.
LEMMA PutIs ==
    ASSUME NEW m, NEW i, NEW v
    PROVE  /\ DOMAIN RangeMap!Put(m, i, v) = DOMAIN m \union {i}
           /\ \A j \in DOMAIN m : RangeMap!Put(m, i, v)[j] = m[j]
           /\ i \notin DOMAIN m => RangeMap!Put(m, i, v)[i] = v
  BY DEF RangeMap!Put

LEMMA EraseIs ==
    ASSUME NEW m, NEW S
    PROVE  /\ DOMAIN RangeMap!Erase(m, S) = DOMAIN m \ S
           /\ \A j \in DOMAIN m \ S : RangeMap!Erase(m, S)[j] = m[j]
  BY DEF RangeMap!Erase

LEMMA ResizeProper ==
    ASSUME NEW m, DOMAIN m \subseteq RangeMap!Proper, NEW j,
           NEW l \in RangeMap!Bound, NEW u \in RangeMap!Bound, l <= u
    PROVE  LET to == RangeMap!Between(l, u)
           IN  /\ DOMAIN RangeMap!Resize(m, j, to) \subseteq RangeMap!Proper
               /\ l < u => to \in RangeMap!Proper /\ to \in DOMAIN RangeMap!Resize(m, j, to)
  <1> DEFINE to == RangeMap!Between(l, u)
  <1>1. l \in Nat /\ u \in Nat /\ to.lower = l /\ to.upper = u
    BY ContainersAssumption DEF RangeMap!Bound, RangeMap!Between
  <1>2. RangeMap!Empty(to) <=> l = u
    BY <1>1 DEF RangeMap!Empty
  <1>3. l # u => to \in RangeMap!Proper
    <2>1. l # u => l < u
      BY <1>1
    <2> QED
      BY <2>1, ProperIntervals
  <1>4. DOMAIN RangeMap!Erase(m, {j}) \subseteq RangeMap!Proper
    BY DEF RangeMap!Erase
  <1>5. DOMAIN RangeMap!Put(RangeMap!Erase(m, {j}), to, m[j])
             = DOMAIN RangeMap!Erase(m, {j}) \union {to}
    BY DEF RangeMap!Put
  <1> HIDE DEF to
  <1>6. /\ DOMAIN RangeMap!Resize(m, j, to) \subseteq RangeMap!Proper
        /\ l < u => to \in RangeMap!Proper /\ to \in DOMAIN RangeMap!Resize(m, j, to)
    BY <1>1, <1>2, <1>3, <1>4, <1>5 DEF RangeMap!Resize
  <1> QED
    BY <1>6 DEF to

\* What Inserting leaves, in each of its cases.
InsertingInOrder(r, i) ==
    /\ DOMAIN r.map \subseteq RangeMap!Proper
    /\ r.at \in RangeMap!Proper /\ r.at.lower = i.lower

LEMMA EmplacedInOrder ==
    ASSUME NEW m, DOMAIN m \subseteq RangeMap!Proper, NEW i \in RangeMap!Proper, NEW v
    PROVE  InsertingInOrder([map |-> RangeMap!Put(m, i, v), at |-> i], i)
  <1> DEFINE n == RangeMap!Put(m, i, v)
  <1>1. DOMAIN n \subseteq RangeMap!Proper
    BY DEF RangeMap!Put
  <1> QED
    BY <1>1 DEF InsertingInOrder

LEMMA WidenedInOrder ==
    ASSUME NEW m, DOMAIN m \subseteq RangeMap!Proper, NEW i \in RangeMap!Proper,
           NEW j \in RangeMap!Proper, i.lower < j.upper
    PROVE  LET to == RangeMap!Between(i.lower, j.upper)
           IN  InsertingInOrder([map |-> RangeMap!Resize(m, j, to), at |-> to], i)
  <1> DEFINE to == RangeMap!Between(i.lower, j.upper)
  <1>1. /\ i.lower \in RangeMap!Bound /\ j.upper \in RangeMap!Bound /\ i.lower <= j.upper
    BY ProperIntervals DEF RangeMap!Bound
  <1>2. to.lower = i.lower
    BY DEF RangeMap!Between
  <1> QED
    BY <1>1, <1>2, ResizeProper DEF InsertingInOrder

LEMMA InsertingBounds ==
    ASSUME NEW m, DOMAIN m \subseteq RangeMap!Proper, NEW i \in RangeMap!Proper, NEW v
    PROVE  InsertingInOrder(RangeMap!Inserting(m, i, v), i)
  <1> DEFINE above == RangeMap!FirstStartingAfter(m, i.lower)
             swallowed == {j \in DOMAIN m : ~ RangeMap!Below(j, above) /\ j.lower < i.upper}
             rest == RangeMap!Erase(m, swallowed)
             after == {j \in DOMAIN rest : RangeMap!Below(above, j)}
             behind == RangeMap!First(after)
             emplaced(n) == [map |-> RangeMap!Put(n, i, v), at |-> i]
             widened(n, j) == [map |-> RangeMap!Resize(n, j, RangeMap!Between(i.lower, j.upper)),
                               at |-> RangeMap!Between(i.lower, j.upper)]
             cut == RangeMap!Resize(m, above, RangeMap!Between(i.upper, above.upper))
             r == RangeMap!Inserting(m, i, v)
  <1>1. above # None => /\ above \in DOMAIN m /\ above \in RangeMap!Proper
                        /\ above.lower > i.lower
    <2> DEFINE S == {j \in DOMAIN m : j.lower > i.lower}
    <2>1. S \in SUBSET RangeMap!Proper
      OBVIOUS
    <2> QED
      BY <2>1, FirstIs DEF RangeMap!FirstStartingAfter
  <1>2. DOMAIN rest \subseteq RangeMap!Proper
    BY DEF RangeMap!Erase
  <1>3. behind # None => behind \in DOMAIN rest /\ behind \in RangeMap!Proper
                       /\ RangeMap!Below(above, behind)
    <2>1. after \in SUBSET RangeMap!Proper
      BY <1>2
    <2> QED
      BY <2>1, FirstIs
  <1>4. \/ above = None /\ r = emplaced(m)
        \/ above # None /\ r = emplaced(m)
        \/ above # None /\ r = widened(m, above)
        \/ above # None /\ above.upper > i.upper /\ r = emplaced(cut)
        \/ above # None /\ behind # None /\ r = widened(rest, behind)
        \/ above # None /\ r = emplaced(rest)
    BY DEF RangeMap!Inserting
  <1> HIDE DEF above, behind, r, rest
  <1>5. ASSUME r = emplaced(m) PROVE InsertingInOrder(r, i)
    BY <1>5, EmplacedInOrder
  <1>6. ASSUME above # None, r = widened(m, above) PROVE InsertingInOrder(r, i)
    <2>1. i.lower < above.upper
      BY <1>1, <1>6, ProperIntervals
    <2> QED
      BY <1>1, <1>6, <2>1, WidenedInOrder
  <1>7. ASSUME above # None, above.upper > i.upper, r = emplaced(cut)
        PROVE  InsertingInOrder(r, i)
    <2>1. i.upper \in RangeMap!Bound /\ above.upper \in RangeMap!Bound /\ i.upper <= above.upper
      BY <1>1, <1>7, ProperIntervals DEF RangeMap!Bound
    <2>2. DOMAIN cut \subseteq RangeMap!Proper
      BY <2>1, ResizeProper
    <2> HIDE DEF cut
    <2> QED
      BY <1>7, <2>2, EmplacedInOrder
  <1>8. ASSUME above # None, behind # None, r = widened(rest, behind)
        PROVE  InsertingInOrder(r, i)
    <2>1. i.lower < behind.upper
      BY <1>1, <1>3, <1>8, ProperIntervals DEF RangeMap!Below
    <2> QED
      BY <1>2, <1>3, <1>8, <2>1, WidenedInOrder
  <1>9. ASSUME r = emplaced(rest) PROVE InsertingInOrder(r, i)
    BY <1>2, <1>9, EmplacedInOrder
  <1>10. InsertingInOrder(r, i)
    BY <1>4, <1>5, <1>6, <1>7, <1>8, <1>9
  <1> QED
    BY <1>10 DEF r

LEMMA JoinedBounds ==
    ASSUME NEW m, DOMAIN m \subseteq RangeMap!Proper, NEW i \in RangeMap!Proper,
           NEW a \in RangeMap!Proper, a.lower = i.lower
    PROVE  DOMAIN RangeMap!Joined(m, a, i) \subseteq RangeMap!Proper
  <1> DEFINE S == {j \in DOMAIN m : RangeMap!Below(j, a)}
             prev == RangeMap!Latest(S)
             wide == RangeMap!Between(prev.lower, a.upper)
             cut == RangeMap!Between(prev.lower, i.lower)
             result == RangeMap!Joined(m, a, i)
  <1>1. prev = None \/ prev \in S
    <2>1. S \in SUBSET RangeMap!Proper
      OBVIOUS
    <2> QED
      BY <2>1, LatestIs
  <1>2. \/ result = m
        \/ prev # None /\ result = RangeMap!Resize(RangeMap!Erase(m, {a}), prev, wide)
        \/ prev # None /\ result = RangeMap!Resize(m, prev, cut)
    BY DEF RangeMap!Joined
  <1>3. prev # None => /\ prev.lower \in RangeMap!Bound /\ i.lower \in RangeMap!Bound
                       /\ a.upper \in RangeMap!Bound
                       /\ prev.lower <= i.lower /\ prev.lower <= a.upper
    BY <1>1, ProperIntervals DEF RangeMap!Below, RangeMap!Bound
  <1>4. DOMAIN RangeMap!Erase(m, {a}) \subseteq RangeMap!Proper
    BY DEF RangeMap!Erase
  <1> HIDE DEF prev, result
  <1>5. DOMAIN result \subseteq RangeMap!Proper
    BY <1>2, <1>3, <1>4, ResizeProper
  <1> QED
    BY <1>5 DEF result

LEMMA RangeMapStep ==
    ASSUME RangeMap!BoundsInOrder, [RangeMap!Next]_(mapEntries)
    PROVE  RangeMap!BoundsInOrder'
  <1>1. ASSUME NEW i \in RangeMap!Proper, NEW v \in Values, RangeMap!InsertOrAssign(i, v)
        PROVE  RangeMap!BoundsInOrder'
    <2> DEFINE r == RangeMap!Inserting(mapEntries, i, v)
    <2>1. DOMAIN mapEntries \subseteq RangeMap!Proper
      BY DEF RangeMap!BoundsInOrder
    <2>2. InsertingInOrder(r, i)
      BY <2>1, InsertingBounds
    <2>3. mapEntries' = RangeMap!Joined(r.map, r.at, i)
      BY <1>1 DEF RangeMap!InsertOrAssign, RangeMap!Assigned
    <2> HIDE DEF r
    <2>4. DOMAIN mapEntries' \subseteq RangeMap!Proper
      BY <2>2, <2>3, JoinedBounds DEF InsertingInOrder
    <2> QED
      BY <2>4 DEF RangeMap!BoundsInOrder
  <1>2. CASE UNCHANGED mapEntries
    BY <1>2 DEF RangeMap!BoundsInOrder
  <1> QED
    BY <1>1, <1>2 DEF RangeMap!Next

-----------------------------------------------------------------------------
(* Interval maps: an insertion among keys that are free.                   *)

\* What the entries of m say of the key k.
LEMMA MappedIs ==
    ASSUME NEW m, NEW k, NEW w
    PROVE  w \in RangeMap!Mapped(m, k)
             <=> \E j \in DOMAIN m : k \in RangeMap!Keys(j) /\ m[j] = w
  BY DEF RangeMap!Mapped

LEMMA SameMapped ==
    ASSUME NEW S, NEW T, \A w : w \in S <=> w \in T
    PROVE  S = T
  OBVIOUS

Free(m, i) == \A j \in DOMAIN m : \A k \in RangeMap!Keys(i) : k \notin RangeMap!Keys(j)

LEMMA FreeIs ==
    ASSUME NEW m, NEW i, \A k \in RangeMap!Keys(i) : RangeMap!Mapped(m, k) = {}
    PROVE  Free(m, i)
  BY MappedIs DEF Free

LEMMA KeysOf ==
    ASSUME NEW j \in RangeMap!Proper
    PROVE  /\ \A k \in Nat : k \in RangeMap!Keys(j) <=> j.lower <= k /\ k < j.upper
           /\ RangeMap!Keys(j) \subseteq Nat
           /\ j.lower \in RangeMap!Keys(j)
  <1>1. j.lower \in Nat /\ j.upper \in Nat /\ j.lower < j.upper
    BY ProperIntervals
  <1> QED
    BY <1>1 DEF RangeMap!Keys

\* Intervals without a common key lie one behind the other.
LEMMA Apart ==
    ASSUME NEW i \in RangeMap!Proper, NEW j \in RangeMap!Proper,
           \A k \in RangeMap!Keys(i) : k \notin RangeMap!Keys(j)
    PROVE  j.upper <= i.lower \/ i.upper <= j.lower
  <1>1. /\ i.lower \in Nat /\ i.upper \in Nat /\ i.lower < i.upper
        /\ j.lower \in Nat /\ j.upper \in Nat /\ j.lower < j.upper
    BY ProperIntervals
  <1>2. ~ (j.lower <= i.lower /\ i.lower < j.upper)
    BY <1>1, KeysOf
  <1>3. ~ (i.lower <= j.lower /\ j.lower < i.upper)
    BY <1>1, KeysOf
  <1> QED
    BY <1>1, <1>2, <1>3

\* The map n is m with i, which is mapped to v, in the entry a.
Grown(n, a, m, i, v) ==
    /\ a \in RangeMap!Proper /\ a.lower = i.lower /\ i.upper <= a.upper
    /\ a \in DOMAIN n /\ n[a] = v
    /\ \A j \in DOMAIN n \ {a} : j \in DOMAIN m /\ n[j] = m[j]
    /\ \A k \in RangeMap!Bound :
          RangeMap!Mapped(n, k) = IF k \in RangeMap!Keys(i) THEN {v} ELSE RangeMap!Mapped(m, k)

\* The entry e of a map becomes the entry w, with the same value v: the keys
\* that w has and e has not are mapped to v as well.
LEMMA Replaced ==
    ASSUME NEW m, NEW e, NEW w, NEW v, NEW rest, NEW n,
           DOMAIN rest = DOMAIN m \ {e}, \A j \in DOMAIN rest : rest[j] = m[j],
           e \in DOMAIN m => m[e] = v,
           w \notin DOMAIN rest, n = RangeMap!Put(rest, w, v),
           NEW k, e \in DOMAIN m /\ k \in RangeMap!Keys(e) => k \in RangeMap!Keys(w)
    PROVE  RangeMap!Mapped(n, k) = RangeMap!Mapped(m, k)
                                     \union (IF k \in RangeMap!Keys(w) THEN {v} ELSE {})
  <1>1. /\ DOMAIN n = (DOMAIN m \ {e}) \union {w} /\ n[w] = v
        /\ \A j \in DOMAIN m \ {e} : n[j] = m[j]
    BY DEF RangeMap!Put
  <1>2. ASSUME NEW x, x \in RangeMap!Mapped(n, k)
        PROVE  x \in RangeMap!Mapped(m, k) \/ (k \in RangeMap!Keys(w) /\ x = v)
    BY <1>1, <1>2, MappedIs
  <1>3. ASSUME NEW x, x \in RangeMap!Mapped(m, k) \/ (k \in RangeMap!Keys(w) /\ x = v)
        PROVE  x \in RangeMap!Mapped(n, k)
    <2>1. CASE x \in RangeMap!Mapped(m, k)
      <3>1. PICK j \in DOMAIN m : k \in RangeMap!Keys(j) /\ m[j] = x
        BY <2>1, MappedIs
      <3>2. CASE j = e
        BY <1>1, <3>1, <3>2, MappedIs
      <3>3. CASE j # e
        BY <1>1, <3>1, <3>3, MappedIs
      <3> QED
        BY <3>2, <3>3
    <2>2. CASE k \in RangeMap!Keys(w) /\ x = v
      BY <1>1, <2>2, MappedIs
    <2> QED
      BY <1>3, <2>1, <2>2
  <1> QED
    BY <1>2, <1>3

LEMMA EmplacedGrown ==
    ASSUME NEW m, DOMAIN m \subseteq RangeMap!Proper, NEW i \in RangeMap!Proper, NEW v,
           Free(m, i)
    PROVE  Grown(RangeMap!Put(m, i, v), i, m, i, v)
  <1> DEFINE n == RangeMap!Put(m, i, v)
  <1>1. i \notin DOMAIN m
    BY KeysOf DEF Free
  <1>2. /\ DOMAIN n = DOMAIN m \union {i} /\ n[i] = v
        /\ \A j \in DOMAIN m : n[j] = m[j]
    BY <1>1, PutIs
  <1>3. i.upper <= i.upper
    BY ProperIntervals
  <1>4. ASSUME NEW k \in RangeMap!Bound
        PROVE  RangeMap!Mapped(n, k)
                 = IF k \in RangeMap!Keys(i) THEN {v} ELSE RangeMap!Mapped(m, k)
    <2>1. DOMAIN m = DOMAIN m \ {i}
      BY <1>1
    <2> HIDE DEF n
    <2>2. RangeMap!Mapped(n, k) = RangeMap!Mapped(m, k)
                                    \union (IF k \in RangeMap!Keys(i) THEN {v} ELSE {})
      <3>1. n = RangeMap!Put(m, i, v) /\ \A j \in DOMAIN m : m[j] = m[j]
        BY DEF n
      <3>2. /\ i \in DOMAIN m => m[i] = v
            /\ i \in DOMAIN m /\ k \in RangeMap!Keys(i) => k \in RangeMap!Keys(i)
        BY <1>1
      <3> QED
        BY <1>1, <2>1, <3>1, <3>2, Replaced
    <2>3. k \in RangeMap!Keys(i) => RangeMap!Mapped(m, k) = {}
      BY MappedIs DEF Free
    <2> QED
      BY <2>2, <2>3
  <1> HIDE DEF n
  <1>5. Grown(n, i, m, i, v)
    BY <1>2, <1>3, <1>4 DEF Grown
  <1> QED
    BY <1>5 DEF n

\* The entry behind i, with the same value, is widened to take i in.
LEMMA WidenedGrown ==
    ASSUME NEW m, DOMAIN m \subseteq RangeMap!Proper, NEW i \in RangeMap!Proper, NEW v,
           Free(m, i), NEW e \in DOMAIN m, e.lower = i.upper, m[e] = v
    PROVE  LET a == RangeMap!Between(i.lower, e.upper)
           IN  Grown(RangeMap!Resize(m, e, a), a, m, i, v)
  <1> DEFINE a == RangeMap!Between(i.lower, e.upper)
             rest == RangeMap!Erase(m, {e})
             n == RangeMap!Put(rest, a, v)
  <1>1. /\ i.lower \in Nat /\ i.upper \in Nat /\ e.upper \in Nat
        /\ i.lower < i.upper /\ i.upper < e.upper
        /\ i.lower \in RangeMap!Bound /\ e.upper \in RangeMap!Bound
    BY ProperIntervals DEF RangeMap!Bound
  <1>2. a.lower = i.lower /\ a.upper = e.upper /\ a \in RangeMap!Proper /\ ~ RangeMap!Empty(a)
    <2>1. i.lower < e.upper
      BY <1>1
    <2>2. a.lower = i.lower /\ a.upper = e.upper
      BY DEF RangeMap!Between
    <2> QED
      BY <1>1, <2>1, <2>2, ProperIntervals DEF RangeMap!Empty
  <1> HIDE DEF a
  <1>3. RangeMap!Resize(m, e, a) = n
    BY <1>2 DEF RangeMap!Resize
  <1>4. \A k \in Nat : k \in RangeMap!Keys(a) <=> k \in RangeMap!Keys(i) \/ k \in RangeMap!Keys(e)
    <2>1. /\ \A k \in Nat : k \in RangeMap!Keys(a) <=> i.lower <= k /\ k < e.upper
          /\ \A k \in Nat : k \in RangeMap!Keys(i) <=> i.lower <= k /\ k < i.upper
          /\ \A k \in Nat : k \in RangeMap!Keys(e) <=> i.upper <= k /\ k < e.upper
      BY <1>2, KeysOf
    <2> QED
      BY <1>1, <2>1
  <1>5. a \notin DOMAIN m
    <2>1. i.lower \in RangeMap!Keys(i) /\ i.lower \in RangeMap!Keys(a)
      BY <1>1, <1>4, KeysOf
    <2> QED
      BY <2>1 DEF Free
  <1>6. DOMAIN rest = DOMAIN m \ {e} /\ \A j \in DOMAIN rest : rest[j] = m[j]
    BY DEF RangeMap!Erase
  <1> HIDE DEF rest
  <1>7. /\ DOMAIN n = (DOMAIN m \ {e}) \union {a} /\ n[a] = v
        /\ \A j \in DOMAIN m \ {e} : n[j] = m[j]
    BY <1>5, <1>6 DEF RangeMap!Put
  <1>8. ASSUME NEW k \in RangeMap!Bound
        PROVE  RangeMap!Mapped(n, k)
                 = IF k \in RangeMap!Keys(i) THEN {v} ELSE RangeMap!Mapped(m, k)
    <2>1. k \in Nat
      BY ContainersAssumption DEF RangeMap!Bound
    <2> HIDE DEF n
    <2>2. RangeMap!Mapped(n, k) = RangeMap!Mapped(m, k)
                                    \union (IF k \in RangeMap!Keys(a) THEN {v} ELSE {})
      BY <1>4, <1>5, <1>6, <2>1, Replaced DEF n
    <2>3. k \in RangeMap!Keys(i) => RangeMap!Mapped(m, k) = {}
      BY MappedIs DEF Free
    <2>4. k \in RangeMap!Keys(e) => v \in RangeMap!Mapped(m, k)
      BY MappedIs
    <2> QED
      BY <1>4, <2>1, <2>2, <2>3, <2>4
  <1> HIDE DEF n
  <1>9. Grown(n, a, m, i, v)
    <2>1. i.upper <= a.upper
      BY <1>1, <1>2
    <2> QED
      BY <1>2, <1>7, <1>8, <2>1 DEF Grown
  <1> QED
    BY <1>3, <1>9 DEF a

LEMMA InsertingGrown ==
    ASSUME NEW m, DOMAIN m \subseteq RangeMap!Proper, NEW i \in RangeMap!Proper, NEW v,
           Free(m, i)
    PROVE  LET r == RangeMap!Inserting(m, i, v) IN Grown(r.map, r.at, m, i, v)
  <1> DEFINE above == RangeMap!FirstStartingAfter(m, i.lower)
             a == RangeMap!Between(i.lower, above.upper)
             r == RangeMap!Inserting(m, i, v)
  <1>1. above # None => /\ above \in DOMAIN m /\ above.lower > i.lower
    <2> DEFINE S == {j \in DOMAIN m : j.lower > i.lower}
    <2>1. S \in SUBSET RangeMap!Proper
      OBVIOUS
    <2> QED
      BY <2>1, FirstIs DEF RangeMap!FirstStartingAfter
  <1>2. above # None => /\ i.upper <= above.lower /\ above.lower < above.upper
                        /\ above.lower \in Nat /\ above.upper \in Nat
    <2> SUFFICES ASSUME above # None
                 PROVE  /\ i.upper <= above.lower /\ above.lower < above.upper
                        /\ above.lower \in Nat /\ above.upper \in Nat
      OBVIOUS
    <2>1. above \in RangeMap!Proper /\ above \in DOMAIN m /\ above.lower > i.lower
      BY <1>1
    <2>2. above.upper <= i.lower \/ i.upper <= above.lower
      BY <2>1, Apart DEF Free
    <2> HIDE DEF above
    <2>3. /\ above.lower \in Nat /\ above.upper \in Nat /\ above.lower < above.upper
          /\ i.lower \in Nat
      BY <2>1, ProperIntervals
    <2> QED
      BY <2>1, <2>2, <2>3
  <1>3. i.upper \in Nat
    BY ProperIntervals
  <1>4. \/ r = [map |-> RangeMap!Put(m, i, v), at |-> i]
        \/ /\ above # None /\ above.lower <= i.upper /\ m[above] = v
           /\ r = [map |-> RangeMap!Resize(m, above, a), at |-> a]
    <2> HIDE DEF above
    <2>1. CASE above = None \/ above.lower > i.upper
      <3>1. above # None => ~ (above.lower <= i.upper)
        BY <1>2, <1>3, <2>1
      <3> QED
        BY <2>1, <3>1 DEF RangeMap!Inserting, above
    <2>2. CASE above # None /\ above.lower <= i.upper
      <3>1. above.lower = i.upper /\ above.upper > i.upper /\ ~ (above.lower > i.upper)
        BY <1>2, <1>3, <2>2
      <3>2. CASE m[above] = v
        BY <2>2, <3>1, <3>2 DEF RangeMap!Inserting, above
      <3>3. CASE m[above] # v
        BY <2>2, <3>1, <3>3 DEF RangeMap!Inserting, above
      <3> QED
        BY <3>2, <3>3
    <2> QED
      BY <1>2, <1>3, <2>1, <2>2
  <1> HIDE DEF above, r
  <1>5. CASE r = [map |-> RangeMap!Put(m, i, v), at |-> i]
    BY <1>5, EmplacedGrown DEF r
  <1>6. CASE /\ above # None /\ above.lower <= i.upper /\ m[above] = v
             /\ r = [map |-> RangeMap!Resize(m, above, a), at |-> a]
    <2>1. above.lower = i.upper
      BY <1>2, <1>3, <1>6
    <2>2. Grown(RangeMap!Resize(m, above, a), a, m, i, v)
      BY <1>1, <1>6, <2>1, WidenedGrown
    <2> QED
      BY <1>6, <2>2 DEF r
  <1> QED
    BY <1>4, <1>5, <1>6

\* The entry before i takes it in if it has the same value, and is put back as
\* it was if not.
LEMMA JoinedGrown ==
    ASSUME NEW m, DOMAIN m \subseteq RangeMap!Proper, NEW i \in RangeMap!Proper, NEW v,
           Free(m, i), NEW n, DOMAIN n \subseteq RangeMap!Proper, NEW a, Grown(n, a, m, i, v),
           NEW k \in RangeMap!Bound
    PROVE  RangeMap!Mapped(RangeMap!Joined(n, a, i), k) = RangeMap!Mapped(n, k)
  <1> DEFINE S == {j \in DOMAIN n : RangeMap!Below(j, a)}
             prev == RangeMap!Latest(S)
             wide == RangeMap!Between(prev.lower, a.upper)
             cut == RangeMap!Between(prev.lower, i.lower)
             others == RangeMap!Erase(n, {a})
             result == RangeMap!Joined(n, a, i)
  <1>1. prev = None \/ prev \in S
    <2>1. S \in SUBSET RangeMap!Proper
      OBVIOUS
    <2> QED
      BY <2>1, LatestIs
  <1>2. \/ result = n
        \/ /\ prev # None /\ ~ (prev.upper < a.lower) /\ n[prev] = n[a]
           /\ result = RangeMap!Resize(others, prev, wide)
        \/ /\ prev # None /\ ~ (prev.upper < a.lower)
           /\ result = RangeMap!Resize(n, prev, cut)
    BY DEF RangeMap!Joined
  <1> HIDE DEF prev, result
  <1>3. SUFFICES ASSUME prev # None, ~ (prev.upper < a.lower)
                 PROVE  /\ n[prev] = n[a] =>
                             RangeMap!Mapped(RangeMap!Resize(others, prev, wide), k)
                               = RangeMap!Mapped(n, k)
                        /\ RangeMap!Mapped(RangeMap!Resize(n, prev, cut), k)
                               = RangeMap!Mapped(n, k)
    BY <1>2 DEF result
  <1>4. /\ prev \in DOMAIN n /\ RangeMap!Below(prev, a) /\ prev \in RangeMap!Proper
        /\ a \in RangeMap!Proper /\ a \in DOMAIN n /\ n[a] = v
        /\ a.lower = i.lower /\ i.upper <= a.upper
    BY <1>1, <1>3 DEF Grown
  <1>5. prev # a /\ prev \in DOMAIN m
    BY <1>4, BelowOrders DEF Grown
  <1>6. /\ prev.lower \in Nat /\ prev.upper \in Nat /\ prev.lower < prev.upper
        /\ i.lower \in Nat /\ i.upper \in Nat /\ i.lower < i.upper /\ a.upper \in Nat
    BY <1>4, ProperIntervals
  <1>7. prev.upper = i.lower
    <2>1. prev.upper <= i.lower \/ i.upper <= prev.lower
      BY <1>4, <1>5, Apart DEF Free
    <2>2. prev.lower <= i.lower
      BY <1>4, <1>6 DEF RangeMap!Below
    <2> QED
      BY <1>3, <1>4, <1>6, <2>1, <2>2
  <1>8. RangeMap!Mapped(RangeMap!Resize(n, prev, cut), k) = RangeMap!Mapped(n, k)
    <2> DEFINE rest == RangeMap!Erase(n, {prev})
               q == RangeMap!Put(rest, prev, n[prev])
    <2>1. cut = prev /\ ~ RangeMap!Empty(prev)
      BY <1>4, <1>6, <1>7, ProperIntervals DEF RangeMap!Empty
    <2>2. RangeMap!Resize(n, prev, cut) = q
      BY <2>1 DEF RangeMap!Resize
    <2>3. DOMAIN rest = DOMAIN n \ {prev} /\ \A j \in DOMAIN rest : rest[j] = n[j]
      BY DEF RangeMap!Erase
    <2> HIDE DEF rest
    <2>4. DOMAIN q = DOMAIN n /\ \A j \in DOMAIN n : q[j] = n[j]
      BY <1>4, <2>3 DEF RangeMap!Put
    <2> HIDE DEF q
    <2>5. RangeMap!Mapped(q, k) = RangeMap!Mapped(n, k)
      BY <2>4 DEF RangeMap!Mapped
    <2> QED
      BY <2>2, <2>5
  <1>9. ASSUME n[prev] = n[a]
        PROVE  RangeMap!Mapped(RangeMap!Resize(others, prev, wide), k) = RangeMap!Mapped(n, k)
    <2> DEFINE rest == RangeMap!Erase(others, {prev})
               q == RangeMap!Put(rest, wide, v)
    <2>1. DOMAIN others = DOMAIN n \ {a} /\ \A j \in DOMAIN others : others[j] = n[j]
      BY DEF RangeMap!Erase
    <2>2. others[prev] = v
      BY <1>4, <1>5, <1>9, <2>1
    <2>3. /\ wide.lower = prev.lower /\ wide.upper = a.upper /\ prev.lower < a.upper
      BY <1>4, <1>6, <1>7 DEF RangeMap!Between
    <2>4. wide \in RangeMap!Proper /\ ~ RangeMap!Empty(wide)
      <3>1. prev.lower \in RangeMap!Bound /\ a.upper \in RangeMap!Bound
        BY <1>4, ProperIntervals DEF RangeMap!Bound
      <3> QED
        BY <1>6, <2>3, <3>1, ProperIntervals DEF RangeMap!Empty
    <2> HIDE DEF others, wide
    <2>5. RangeMap!Resize(others, prev, wide) = q
      BY <2>2, <2>4 DEF RangeMap!Resize
    <2>6. DOMAIN rest = DOMAIN n \ {a, prev} /\ \A j \in DOMAIN rest : rest[j] = n[j]
      BY <2>1 DEF RangeMap!Erase
    <2> HIDE DEF rest
    <2>7. /\ \A x \in Nat : x \in RangeMap!Keys(wide)
                <=> x \in RangeMap!Keys(prev) \/ x \in RangeMap!Keys(a)
          /\ i.lower \in RangeMap!Keys(wide) /\ i.lower \in RangeMap!Keys(i)
      <3>1. /\ \A x \in Nat : x \in RangeMap!Keys(wide) <=> prev.lower <= x /\ x < a.upper
            /\ \A x \in Nat : x \in RangeMap!Keys(prev) <=> prev.lower <= x /\ x < i.lower
            /\ \A x \in Nat : x \in RangeMap!Keys(a) <=> i.lower <= x /\ x < a.upper
            /\ i.lower \in RangeMap!Keys(i)
        BY <1>4, <1>7, <2>3, <2>4, KeysOf
      <3>2. prev.lower <= i.lower /\ i.lower < a.upper
        BY <1>4, <1>6, <1>7
      <3> QED
        BY <1>6, <3>1, <3>2
    <2>8. wide \notin DOMAIN rest
      <3>1. \A j \in DOMAIN rest : j \in DOMAIN m
        BY <2>6 DEF Grown
      <3> QED
        BY <2>7, <3>1 DEF Free
    <2>9. DOMAIN q = DOMAIN rest \union {wide} /\ q[wide] = v /\ \A j \in DOMAIN rest : q[j] = n[j]
      BY <2>6, <2>8 DEF RangeMap!Put
    <2> HIDE DEF q
    <2>10. k \in Nat
      BY ContainersAssumption DEF RangeMap!Bound
    <2>11. ASSUME NEW x, x \in RangeMap!Mapped(q, k)
           PROVE  x \in RangeMap!Mapped(n, k)
      <3>1. PICK j \in DOMAIN q : k \in RangeMap!Keys(j) /\ q[j] = x
        BY <2>11, MappedIs
      <3>2. CASE j = wide
        <4>1. x = v /\ (k \in RangeMap!Keys(prev) \/ k \in RangeMap!Keys(a))
          BY <2>7, <2>9, <2>10, <3>1, <3>2
        <4> QED
          BY <1>4, <1>9, <4>1, MappedIs
      <3>3. CASE j \in DOMAIN rest
        BY <2>6, <2>9, <3>1, <3>3, MappedIs
      <3> QED
        BY <2>9, <3>2, <3>3
    <2>12. ASSUME NEW x, x \in RangeMap!Mapped(n, k)
           PROVE  x \in RangeMap!Mapped(q, k)
      <3>1. PICK j \in DOMAIN n : k \in RangeMap!Keys(j) /\ n[j] = x
        BY <2>12, MappedIs
      <3>2. CASE j \in {a, prev}
        <4>1. x = v /\ k \in RangeMap!Keys(wide)
          BY <1>4, <1>9, <2>7, <2>10, <3>1, <3>2
        <4> QED
          BY <2>9, <4>1, MappedIs
      <3>3. CASE j \in DOMAIN rest
        BY <2>9, <3>1, <3>3, MappedIs
      <3> QED
        BY <2>6, <3>1, <3>2, <3>3
    <2>13. RangeMap!Mapped(q, k) = RangeMap!Mapped(n, k)
      BY <2>11, <2>12
    <2> QED
      BY <2>5, <2>13
  <1> QED
    BY <1>8, <1>9

LEMMA FreeInsertStep ==
    ASSUME RangeMap!BoundsInOrder, NEW i \in RangeMap!Proper, NEW v \in Values,
           \A k \in RangeMap!Keys(i) : RangeMap!Mapped(mapEntries, k) = {},
           RangeMap!InsertOrAssign(i, v), NEW k \in RangeMap!Bound
    PROVE  RangeMap!Mapped(mapEntries', k)
             = IF k \in RangeMap!Keys(i) THEN {v} ELSE RangeMap!Mapped(mapEntries, k)
  <1> DEFINE r == RangeMap!Inserting(mapEntries, i, v)
  <1>1. DOMAIN mapEntries \subseteq RangeMap!Proper /\ Free(mapEntries, i)
    BY FreeIs DEF RangeMap!BoundsInOrder
  <1>2. DOMAIN r.map \subseteq RangeMap!Proper /\ Grown(r.map, r.at, mapEntries, i, v)
    BY <1>1, InsertingBounds, InsertingGrown DEF InsertingInOrder
  <1>3. mapEntries' = RangeMap!Joined(r.map, r.at, i)
    BY DEF RangeMap!InsertOrAssign, RangeMap!Assigned
  <1> HIDE DEF r
  <1>4. RangeMap!Mapped(mapEntries', k) = RangeMap!Mapped(r.map, k)
    BY <1>1, <1>2, <1>3, JoinedGrown
  <1> QED
    BY <1>2, <1>4 DEF Grown

-----------------------------------------------------------------------------
(* Interval maps among the other containers.                               *)

LEMMA RangeMapAlone ==
    ASSUME [AnyNext]_allVars
    PROVE  [RangeMap!Next]_mapEntries
  BY DEF AnyNext, allVars, SubsetsOnly, RangesOnly, RangeMapOnly, StackOnly, StableOnly,
     ForestOnly

\* The entries of an interval map are never empty nor inverted, whatever is
\* inserted over whatever is there: interval's NTH_REQUIREs never fail in
\* insert_or_assign.
THEOREM BoundsStayInOrder ==
    AnySpec => []RangeMap!BoundsInOrder
  <1>1. AnyInit => RangeMap!BoundsInOrder
    BY DEF AnyInit, RangeMap!Init, RangeMap!BoundsInOrder
  <1>2. RangeMap!BoundsInOrder /\ [AnyNext]_allVars => RangeMap!BoundsInOrder'
    BY RangeMapAlone, RangeMapStep
  <1> QED
    BY <1>1, <1>2, PTL DEF AnySpec

\* A step of disjoint sets takes a root away only at the end of a join; and in
\* interval maps of any bounds and values, an insertion among keys that are
\* free maps these and leaves every other key as it was, whichever neighbours
\* it merges with.
THEOREM StepsExactHolds ==
    AnySpec => StepsExact
  <1>1. SubsetsInv /\ [AnyNext]_allVars =>
           [\A n \in Subsets!Live \intersect Subsets!Live' :
               Subsets!IsRoot(n) => Subsets!IsRoot(n)' \/ pc = "link"]_Subsets!vars
    BY SubsetsAlone, RootsStep
  <1>2. RangeMap!BoundsInOrder /\ [AnyNext]_allVars =>
           [\A i \in RangeMap!Proper, v \in Values :
              /\ \A k \in RangeMap!Keys(i) : RangeMap!Mapped(mapEntries, k) = {}
              /\ RangeMap!InsertOrAssign(i, v)
              => \A k \in RangeMap!Bound :
                    RangeMap!Mapped(mapEntries', k)
                      = IF k \in RangeMap!Keys(i) THEN {v} ELSE RangeMap!Mapped(mapEntries, k)
           ]_mapEntries
    BY FreeInsertStep
  <1>3. AnySpec => Subsets!RootsKept
    BY <1>1, SubsetsInvariance, PTL DEF AnySpec, Subsets!RootsKept
  <1>4. AnySpec => RangeMap!FreeInsertExact
    BY <1>2, BoundsStayInOrder, PTL DEF AnySpec, RangeMap!FreeInsertExact, RangeMap!vars
  <1> QED
    BY <1>3, <1>4 DEF StepsExact

-----------------------------------------------------------------------------
(* Interval sets: vectors of intervals in order, and what is inserted.     *)

LEMMA RangesCardinality ==
    \A S : Ranges!Cardinality(S) = Cardinality(S)
  BY Zenon DEF Cardinality, Ranges!Cardinality


\* The keys of the intervals of a vector.
MembersOf(v) == UNION {Ranges!Keys(v[p]) : p \in DOMAIN v}

\* Sorted, and neither touching nor overlapping.
InOrder(v) ==
    /\ v \in Seq(Ranges!Interval(Ranges!Bound))
    /\ \A p, q \in DOMAIN v : p < q => v[p].upper < v[q].lower

LEMMA IntervalTypes ==
    ASSUME NEW i \in Ranges!Interval(Ranges!Bound)
    PROVE  /\ i.lower \in Nat /\ i.upper \in Nat /\ i.lower <= i.upper
           /\ i.lower <= MaxKey /\ i.upper <= MaxKey
           /\ i = Ranges!Between(i.lower, i.upper)
           /\ \A k : k \in Ranges!Keys(i) <=> k \in Nat /\ i.lower <= k /\ k < i.upper
<1>1. i \in [lower : Ranges!Bound, upper : Ranges!Bound] /\ i.lower <= i.upper
  BY DEF Ranges!Interval
<1>2. \A n \in Ranges!Bound : n \in Nat /\ n <= MaxKey
  BY ContainersAssumption DEF Ranges!Bound
<1>3. i.lower \in Nat /\ i.upper \in Nat /\ i.lower <= MaxKey /\ i.upper <= MaxKey
  BY <1>1, <1>2
<1> QED
  BY <1>1, <1>3 DEF Ranges!Keys, Ranges!Between

LEMMA BetweenTyped ==
    ASSUME NEW l \in Nat, NEW u \in Nat, l <= u, u <= MaxKey
    PROVE  Ranges!Between(l, u) \in Ranges!Interval(Ranges!Bound)
<1>1. l \in Ranges!Bound /\ u \in Ranges!Bound
  BY ContainersAssumption DEF Ranges!Bound
<1> QED
  BY <1>1 DEF Ranges!Between, Ranges!Interval

LEMMA OrderTypes ==
    ASSUME NEW v, InOrder(v)
    PROVE  /\ Len(v) \in Nat /\ DOMAIN v = 1 .. Len(v)
           /\ v \in Seq(Ranges!Interval(Ranges!Bound))
           /\ \A p \in 1 .. Len(v) :
                 /\ v[p] \in Ranges!Interval(Ranges!Bound)
                 /\ v[p].lower \in Nat /\ v[p].upper \in Nat /\ v[p].lower <= v[p].upper
                 /\ v[p].lower <= MaxKey /\ v[p].upper <= MaxKey
           /\ \A p, q \in 1 .. Len(v) : p < q => v[p].upper < v[q].lower
<1>1. v \in Seq(Ranges!Interval(Ranges!Bound))
  BY DEF InOrder
<1>2. Len(v) \in Nat /\ DOMAIN v = 1 .. Len(v)
      /\ \A p \in 1 .. Len(v) : v[p] \in Ranges!Interval(Ranges!Bound)
  BY <1>1
<1> QED
  BY <1>1, <1>2, IntervalTypes DEF InOrder

\* A key is one of some interval's.
LEMMA KeysAre ==
    ASSUME NEW v, InOrder(v)
    PROVE  \A k : k \in MembersOf(v) <=>
              k \in Nat /\ \E p \in 1 .. Len(v) : v[p].lower <= k /\ k < v[p].upper
<1>1. \A k : k \in MembersOf(v) <=> \E p \in 1 .. Len(v) : k \in Ranges!Keys(v[p])
  BY OrderTypes DEF MembersOf
<1>2. \A p \in 1 .. Len(v) : \A k :
         k \in Ranges!Keys(v[p]) <=> k \in Nat /\ v[p].lower <= k /\ k < v[p].upper
  BY OrderTypes, IntervalTypes
<1> QED
  BY <1>1, <1>2

\* The place std::partition_point finds is the first that is not in H.
LEMMA FirstOutside ==
    ASSUME NEW n \in Nat, NEW from \in 1 .. n + 1, NEW H
    PROVE  LET r == from + Ranges!Cardinality({p \in from .. n : \A q \in from .. p : q \in H})
           IN  /\ r \in from .. n + 1
               /\ \A q \in from .. r - 1 : q \in H
               /\ r <= n => r \notin H
<1> DEFINE B == {p \in from .. n + 1 : p = n + 1 \/ p \notin H}
           P == {p \in from .. n : \A q \in from .. p : q \in H}
<1>1. from \in Nat /\ from <= n + 1 /\ from >= 1
  OBVIOUS
<1>2. PICK m \in B : \A j \in B : m <= j
  <2>1. B \subseteq 0 .. n + 1 /\ n + 1 \in Nat
    BY <1>1
  <2>2. n + 1 \in B
    BY <1>1
  <2> HIDE DEF B
  <2> QED
    BY <2>1, <2>2, Least
<1>3. m \in Nat /\ from <= m /\ m <= n + 1 /\ (m <= n => m \notin H)
  BY <1>1, <1>2
<1>4. \A q \in from .. m - 1 : q \in H
  <2> SUFFICES ASSUME NEW q \in from .. m - 1, q \notin H PROVE FALSE
    OBVIOUS
  <2>1. q \in B
    BY <1>1, <1>3
  <2> QED
    BY <1>2, <1>3, <2>1
<1>5. P = from .. m - 1
  <2>1. ASSUME NEW p \in P PROVE p \in from .. m - 1
    <3>1. p \in Nat /\ from <= p /\ p <= n /\ \A q \in from .. p : q \in H
      BY <1>1
    <3>2. ~ (m <= p)
      BY <1>1, <1>3, <3>1
    <3> QED
      BY <1>3, <3>1, <3>2
  <2>2. ASSUME NEW p \in from .. m - 1 PROVE p \in P
    BY <1>1, <1>3, <1>4
  <2> QED
    BY <2>1, <2>2
<1>6. Ranges!Cardinality(P) = m - from
  <2>1. Cardinality(from .. m - 1) = m - from
    BY <1>1, <1>3, FS_Interval
  <2> QED
    BY <1>5, <2>1, RangesCardinality
<1> HIDE DEF P
<1>7. from + Ranges!Cardinality(P) = m
  BY <1>1, <1>3, <1>6
<1> QED
  BY <1>1, <1>3, <1>4, <1>7 DEF P

\* The searches of insert_hint.
LEMMA LowerIterIs ==
    ASSUME NEW v, InOrder(v), NEW from \in 1 .. Len(v) + 1, NEW i
    PROVE  LET low == Ranges!LowerIter(v, from, i)
           IN  /\ low \in from .. Len(v) + 1
               /\ \A q \in from .. low - 1 : v[q].upper < i.lower
               /\ low <= Len(v) => ~ (v[low].upper < i.lower)
<1> DEFINE H == {q \in Nat : v[q].upper < i.lower}
           P == {p \in from .. Len(v) : \A q \in from .. p : q \in H}
           low == Ranges!LowerIter(v, from, i)
<1>1. Len(v) \in Nat /\ from \in Nat /\ from >= 1 /\ \A q : \A p \in Nat : q \in from .. p => q \in Nat
  BY OrderTypes
<1>2. low = from + Ranges!Cardinality(P)
  <2>1. P = {p \in from .. Len(v) : \A q \in from .. p : v[q].upper < i.lower}
    BY <1>1
  <2> QED
    BY <2>1 DEF Ranges!LowerIter, Ranges!PartitionPoint
<1>3. /\ low \in from .. Len(v) + 1
      /\ \A q \in from .. low - 1 : q \in H
      /\ low <= Len(v) => low \notin H
  <2> HIDE DEF H, low
  <2> QED
    BY <1>1, <1>2, FirstOutside
<1>4. low \in Nat
  BY <1>1, <1>3
<1> HIDE DEF low
<1> QED
  BY <1>3, <1>4 DEF low

LEMMA UpperIterIs ==
    ASSUME NEW v, InOrder(v), NEW from \in 1 .. Len(v) + 1, NEW i
    PROVE  LET high == Ranges!UpperIter(v, from, i)
           IN  /\ high \in from .. Len(v) + 1
               /\ \A q \in from .. high - 1 : v[q].lower <= i.upper
               /\ high <= Len(v) => ~ (v[high].lower <= i.upper)
<1> DEFINE H == {q \in Nat : v[q].lower <= i.upper}
           P == {p \in from .. Len(v) : \A q \in from .. p : q \in H}
           high == Ranges!UpperIter(v, from, i)
<1>1. Len(v) \in Nat /\ from \in Nat /\ from >= 1 /\ \A q : \A p \in Nat : q \in from .. p => q \in Nat
  BY OrderTypes
<1>2. high = from + Ranges!Cardinality(P)
  <2>1. P = {p \in from .. Len(v) : \A q \in from .. p : v[q].lower <= i.upper}
    BY <1>1
  <2> QED
    BY <2>1 DEF Ranges!UpperIter, Ranges!PartitionPoint
<1>3. /\ high \in from .. Len(v) + 1
      /\ \A q \in from .. high - 1 : q \in H
      /\ high <= Len(v) => high \notin H
  <2> HIDE DEF H, high
  <2> QED
    BY <1>1, <1>2, FirstOutside
<1>4. high \in Nat
  BY <1>1, <1>3
<1> HIDE DEF high
<1> QED
  BY <1>3, <1>4 DEF high

\* Sequences one behind the other.
LEMMA Concatenated ==
    ASSUME NEW T, NEW a \in Seq(T), NEW c \in Seq(T)
    PROVE  /\ a \o c \in Seq(T) /\ Len(a \o c) = Len(a) + Len(c)
           /\ Len(a) \in Nat /\ Len(c) \in Nat
           /\ \A p \in 1 .. Len(a) : (a \o c)[p] = a[p]
           /\ \A p \in 1 .. Len(c) : (a \o c)[Len(a) + p] = c[p]
<1>1. /\ a \o c \in Seq(T) /\ Len(a \o c) = Len(a) + Len(c)
      /\ Len(a) \in Nat /\ Len(c) \in Nat
  OBVIOUS
<1>2. \A p \in 1 .. Len(a) + Len(c) : (a \o c)[p] = IF p <= Len(a) THEN a[p] ELSE c[p - Len(a)]
  OBVIOUS
<1>3. ASSUME NEW p \in 1 .. Len(a) PROVE (a \o c)[p] = a[p]
  <2>1. p \in 1 .. Len(a) + Len(c) /\ p <= Len(a)
    BY <1>1
  <2> QED
    BY <1>2, <2>1
<1>4. ASSUME NEW p \in 1 .. Len(c) PROVE (a \o c)[Len(a) + p] = c[p]
  <2>1. /\ Len(a) + p \in 1 .. Len(a) + Len(c) /\ ~ (Len(a) + p <= Len(a))
        /\ (Len(a) + p) - Len(a) = p
    BY <1>1
  <2> QED
    BY <1>2, <2>1
<1> QED
  BY <1>1, <1>3, <1>4

\* Part of a sequence, from low to before high, gives way to one element.
Parted(T, v, low, high, h) ==
    /\ v \in Seq(T) /\ h \in T
    /\ low \in 1 .. Len(v) + 1 /\ high \in low .. Len(v) + 1
Joint(T, v, low, high, h, r) ==
    /\ r \in Seq(T) /\ Len(r) = low + Len(v) - high + 1
    /\ \A p \in 1 .. low - 1 : r[p] = v[p]
    /\ r[low] = h
    /\ \A p \in low + 1 .. Len(r) : r[p] = v[p + high - low - 1]

LEMMA Spliced ==
    ASSUME NEW T, NEW v, NEW low, NEW high, NEW h, Parted(T, v, low, high, h)
    PROVE  Joint(T, v, low, high, h, SubSeq(v, 1, low - 1) \o <<h>> \o SubSeq(v, high, Len(v)))
<1> DEFINE a == SubSeq(v, 1, low - 1)
           one == <<h>>
           b == a \o one
           c == SubSeq(v, high, Len(v))
           r == b \o c
<1>1. Len(v) \in Nat /\ low \in Nat /\ high \in Nat /\ 1 <= low /\ low <= high /\ high <= Len(v) + 1
      /\ v \in Seq(T) /\ h \in T
  BY DEF Parted
<1>2. a \in Seq(T) /\ Len(a) = low - 1 /\ \A p \in 1 .. low - 1 : a[p] = v[p]
  BY <1>1
<1>3. c \in Seq(T) /\ Len(c) = Len(v) - high + 1
      /\ \A p \in 1 .. Len(c) : c[p] = v[high + p - 1]
  BY <1>1
<1>4. one \in Seq(T) /\ Len(one) = 1 /\ one[1] = h
  BY <1>1
<1> HIDE DEF a, c, one
<1>6. /\ b \in Seq(T) /\ Len(b) = Len(a) + Len(one)
      /\ \A p \in 1 .. Len(a) : b[p] = a[p]
      /\ \A p \in 1 .. Len(one) : b[Len(a) + p] = one[p]
  <2>1. a \in Seq(T) /\ one \in Seq(T)
    BY <1>2, <1>4
  <2>2. b \in Seq(T) /\ Len(b) = Len(a) + Len(one)
    BY <2>1, Concatenated
  <2>3. \A p \in 1 .. Len(a) : b[p] = a[p]
    BY <2>1, Concatenated
  <2>4. \A p \in 1 .. Len(one) : b[Len(a) + p] = one[p]
    BY <2>1, Concatenated
  <2> QED
    BY <2>2, <2>3, <2>4
<1> HIDE DEF b
<1>7. /\ r \in Seq(T) /\ Len(r) = Len(b) + Len(c)
      /\ \A p \in 1 .. Len(b) : r[p] = b[p]
      /\ \A p \in 1 .. Len(c) : r[Len(b) + p] = c[p]
  <2>1. b \in Seq(T) /\ c \in Seq(T)
    BY <1>3, <1>6
  <2>2. r \in Seq(T) /\ Len(r) = Len(b) + Len(c)
    BY <2>1, Concatenated
  <2>3. \A p \in 1 .. Len(b) : r[p] = b[p]
    BY <2>1, Concatenated
  <2>4. \A p \in 1 .. Len(c) : r[Len(b) + p] = c[p]
    BY <2>1, Concatenated
  <2> HIDE DEF r
  <2> QED
    BY <2>2, <2>3, <2>4
<1> HIDE DEF r
<1>8. Len(b) = low /\ b[low] = h /\ Len(r) = low + Len(v) - high + 1
  <2>1. Len(a) + 1 = low /\ 1 \in 1 .. Len(one)
    BY <1>1, <1>2, <1>4
  <2>2. b[Len(a) + 1] = h /\ Len(b) = Len(a) + 1
    BY <1>4, <1>6, <2>1
  <2>3. Len(a) \in Int /\ Len(a) + 1 = low
    BY <1>1, <1>2
  <2>4. Len(b) = low /\ b[low] = h
    BY <2>2, <2>3
  <2>5. Len(r) = low + Len(v) - high + 1
    BY <1>1, <1>3, <1>7, <2>4
  <2> QED
    BY <2>4, <2>5
<1>9. ASSUME NEW p \in 1 .. low - 1 PROVE r[p] = v[p]
  <2>1. p \in 1 .. Len(b) /\ p \in 1 .. Len(a)
    BY <1>1, <1>2, <1>8
  <2> QED
    BY <1>2, <1>6, <1>7, <2>1
<1>10. r[low] = h
  <2>1. low \in 1 .. Len(b)
    BY <1>1, <1>8
  <2> QED
    BY <1>7, <1>8, <2>1
<1>11. ASSUME NEW p \in low + 1 .. Len(r) PROVE r[p] = v[p + high - low - 1]
  <2>1. /\ p - low \in 1 .. Len(c) /\ high + (p - low) - 1 = p + high - low - 1
        /\ Len(b) + (p - low) = p
    <3>1. Len(r) \in Int /\ Len(r) = low + Len(v) - high + 1
      BY <1>1, <1>8
    <3>2. p \in Int /\ low + 1 <= p /\ p <= Len(r)
      BY <1>1, <3>1
    <3> QED
      BY <1>1, <1>3, <1>8, <3>1, <3>2
  <2> QED
    BY <1>3, <1>7, <2>1
<1> QED
  BY <1>7, <1>8, <1>9, <1>10, <1>11 DEF r, b, a, c, one, Joint

\* Inserting behind intervals that end before i: the vector stays in order and
\* has the keys of i as well, and the place that is returned lies behind none
\* but such intervals.
LEMMA InsertedIs ==
    ASSUME NEW v, InOrder(v), NEW from \in 1 .. Len(v) + 1,
           NEW i \in Ranges!Interval(Ranges!Bound),
           \A p \in 1 .. from - 1 : v[p].upper < i.lower
    PROVE  LET r == Ranges!Inserted(v, from, i)
               at == Ranges!InsertedAt(v, from, i)
           IN  /\ InOrder(r) /\ at \in 1 .. Len(r)
               /\ MembersOf(r) = MembersOf(v) \union Ranges!Keys(i)
               /\ \A p \in 1 .. at - 1 : r[p].upper < i.lower
               /\ r = Ranges!Inserted(v, 1, i)
<1> DEFINE low == Ranges!LowerIter(v, from, i)
           high == Ranges!UpperIter(v, low, i)
           h == IF low = high THEN i ELSE Ranges!Hull(v, low, high, i)
           r == SubSeq(v, 1, low - 1) \o <<h>> \o SubSeq(v, high, Len(v))
           n == Len(v)
<1>1. /\ n \in Nat /\ from \in Nat /\ from >= 1 /\ from <= n + 1
      /\ i.lower \in Nat /\ i.upper \in Nat /\ i.lower <= i.upper
      /\ i.lower <= MaxKey /\ i.upper <= MaxKey
  BY OrderTypes, IntervalTypes
<1>2. /\ low \in Nat /\ low <= n + 1 /\ low >= from /\ low \in 1 .. n + 1
      /\ \A q \in 1 .. low - 1 : v[q].upper < i.lower
      /\ low <= n => ~ (v[low].upper < i.lower)
  <2> HIDE DEF n
  <2>1. /\ low \in from .. n + 1
        /\ \A q \in from .. low - 1 : v[q].upper < i.lower
        /\ low <= n => ~ (v[low].upper < i.lower)
    BY LowerIterIs DEF n
  <2> HIDE DEF low
  <2>2. \A q \in 1 .. low - 1 : q \in 1 .. from - 1 \/ q \in from .. low - 1
    BY <1>1, <2>1
  <2> QED
    BY <1>1, <2>1, <2>2
<1> HIDE DEF low
<1>3. /\ high \in Nat /\ high >= low /\ high <= n + 1
      /\ \A q \in low .. high - 1 : v[q].lower <= i.upper
      /\ high <= n => ~ (v[high].lower <= i.upper)
  <2> HIDE DEF n
  <2>1. /\ high \in low .. n + 1
        /\ \A q \in low .. high - 1 : v[q].lower <= i.upper
        /\ high <= n => ~ (v[high].lower <= i.upper)
    BY <1>2, UpperIterIs DEF n
  <2> HIDE DEF high
  <2> QED
    BY <1>1, <1>2, <2>1
<1> HIDE DEF high
<1>4. \A p \in 1 .. n :
         /\ v[p].lower \in Nat /\ v[p].upper \in Nat /\ v[p].lower <= v[p].upper
         /\ v[p].lower <= MaxKey /\ v[p].upper <= MaxKey
         /\ \A q \in 1 .. n : p < q => v[p].upper < v[q].lower
  BY OrderTypes
\* The intervals from low to before high touch i.
<1>5. \A p \in low .. high - 1 :
         /\ p \in 1 .. n /\ v[p].lower <= i.upper /\ i.lower <= v[p].upper
  <2> SUFFICES ASSUME NEW p \in low .. high - 1
               PROVE  p \in 1 .. n /\ v[p].lower <= i.upper /\ i.lower <= v[p].upper
    OBVIOUS
  <2>1. p \in 1 .. n /\ low \in 1 .. n /\ low <= p
    BY <1>1, <1>2, <1>3
  <2>2. v[low].upper <= v[p].upper /\ i.lower <= v[low].upper
    <3>1. low = p \/ v[low].upper < v[p].lower
      BY <1>2, <1>4, <2>1
    <3> QED
      BY <1>1, <1>2, <1>4, <2>1, <3>1
  <2> QED
    BY <1>1, <1>3, <1>4, <2>1, <2>2
\* What becomes of them: from the least lower to the greatest upper bound.
<1>6. /\ h.lower \in Nat /\ h.upper \in Nat /\ h.lower <= h.upper /\ h.upper <= MaxKey
      /\ h \in Ranges!Interval(Ranges!Bound)
      /\ h.lower <= i.lower /\ i.upper <= h.upper
      /\ h.lower = i.lower \/ (low < high /\ h.lower = v[low].lower)
      /\ h.upper = i.upper \/ (low < high /\ h.upper = v[high - 1].upper)
      /\ \A p \in low .. high - 1 : h.lower <= v[p].lower /\ v[p].upper <= h.upper
  <2>1. CASE low = high
    <3>1. h = i /\ \A p \in low .. high - 1 : FALSE
      BY <1>2, <1>3, <2>1
    <3> HIDE DEF h
    <3> QED
      BY <1>1, <3>1
  <2>2. CASE low # high
    <3>1. low < high /\ low \in 1 .. n /\ high - 1 \in 1 .. n /\ low <= high - 1
          /\ high - 1 \in low .. high - 1 /\ low \in low .. high - 1
      BY <1>1, <1>2, <1>3, <2>2
    <3> DEFINE l == IF v[low].lower < i.lower THEN v[low].lower ELSE i.lower
               u == IF v[high - 1].upper > i.upper THEN v[high - 1].upper ELSE i.upper
    <3>2. h = Ranges!Between(l, u)
      BY <2>2 DEF Ranges!Hull
    <3>3. /\ l \in Nat /\ u \in Nat /\ l <= i.lower /\ i.upper <= u /\ u <= MaxKey
          /\ l = i.lower \/ l = v[low].lower
          /\ u = i.upper \/ u = v[high - 1].upper
          /\ l <= v[low].lower /\ v[high - 1].upper <= u
      BY <1>1, <1>4, <3>1
    <3> HIDE DEF l, u, h
    <3>4. h.lower = l /\ h.upper = u
      BY <3>2 DEF Ranges!Between
    <3>5. h \in Ranges!Interval(Ranges!Bound)
      BY <1>1, <3>2, <3>3, BetweenTyped
    <3>6. ASSUME NEW p \in low .. high - 1 PROVE l <= v[p].lower /\ v[p].upper <= u
      <4>1. p \in 1 .. n /\ low <= p /\ p <= high - 1
        BY <1>2, <1>3, <1>5
      <4>2. low = p \/ v[low].upper < v[p].lower
        BY <1>2, <1>4, <3>1, <4>1
      <4>3. p = high - 1 \/ v[p].upper < v[high - 1].lower
        BY <1>3, <1>4, <3>1, <4>1
      <4>4. v[p].lower \in Nat /\ v[p].upper \in Nat /\ v[p].lower <= v[p].upper
        BY <1>4, <4>1
      <4>5. l <= v[p].lower
        <5>1. v[low].lower \in Nat /\ v[low].upper \in Nat /\ v[low].lower <= v[low].upper
          BY <1>4, <3>1
        <5> QED
          BY <3>3, <4>2, <4>4, <5>1
      <4>6. v[p].upper <= u
        <5>1. /\ v[high - 1].lower \in Nat /\ v[high - 1].upper \in Nat
              /\ v[high - 1].lower <= v[high - 1].upper
          BY <1>4, <3>1
        <5> QED
          BY <3>3, <4>3, <4>4, <5>1
      <4> QED
        BY <4>5, <4>6
    <3> QED
      BY <1>1, <3>1, <3>3, <3>4, <3>5, <3>6
  <2> QED
    BY <2>1, <2>2
<1> HIDE DEF h
<1>7. /\ r \in Seq(Ranges!Interval(Ranges!Bound)) /\ Len(r) = low + n - high + 1
      /\ \A p \in 1 .. low - 1 : r[p] = v[p]
      /\ r[low] = h
      /\ \A p \in low + 1 .. Len(r) : r[p] = v[p + high - low - 1]
  <2> DEFINE T == Ranges!Interval(Ranges!Bound)
  <2>1. /\ v \in Seq(T) /\ low \in 1 .. Len(v) + 1 /\ high \in low .. Len(v) + 1
        /\ h \in T
    BY <1>1, <1>2, <1>3, <1>6, OrderTypes
  <2> HIDE DEF T
  <2>2. /\ r \in Seq(T) /\ Len(r) = low + Len(v) - high + 1
        /\ \A p \in 1 .. low - 1 : r[p] = v[p]
        /\ r[low] = h
        /\ \A p \in low + 1 .. Len(r) : r[p] = v[p + high - low - 1]
    <3>1. Parted(T, v, low, high, h)
      BY <2>1 DEF Parted
    <3>2. Joint(T, v, low, high, h, r)
      BY <3>1, Spliced
    <3> HIDE DEF r
    <3> QED
      BY <3>2 DEF Joint
  <2> QED
    BY <2>2 DEF T
<1>8. r = Ranges!Inserted(v, from, i) /\ low = Ranges!InsertedAt(v, from, i)
  BY DEF Ranges!Inserted, Ranges!InsertedAt, low, high, h
<1> HIDE DEF r
<1>9. \A p \in low + 1 .. Len(r) :
         p + high - low - 1 \in high .. n /\ p + high - low - 1 \in 1 .. n
  <2>1. Len(r) = low + n - high + 1
    BY <1>7
  <2> HIDE DEF n
  <2> QED
    BY <1>1, <1>2, <1>3, <2>1
<1>10. /\ Len(r) \in Nat /\ low <= Len(r) /\ low >= 1
       /\ \A p \in 1 .. Len(r) : p < low \/ p = low \/ p > low
  BY <1>1, <1>2, <1>3, <1>7
<1>11. \A q \in 1 .. low - 1 : q \in 1 .. n /\ v[q].upper < h.lower
  <2> SUFFICES ASSUME NEW q \in 1 .. low - 1
               PROVE  q \in 1 .. n /\ v[q].upper < h.lower
    OBVIOUS
  <2>1. q \in 1 .. n /\ v[q].upper < i.lower
    BY <1>1, <1>2
  <2>2. low < high => v[q].upper < v[low].lower
    <3>1. low < high => low \in 1 .. n /\ q < low
      BY <1>1, <1>2, <1>3
    <3> QED
      BY <1>4, <2>1, <3>1
  <2> QED
    BY <1>6, <2>1, <2>2
<1>12. \A q \in high .. n : q \in 1 .. n /\ h.upper < v[q].lower
  <2> SUFFICES ASSUME NEW q \in high .. n
               PROVE  q \in 1 .. n /\ h.upper < v[q].lower
    OBVIOUS
  <2>1. q \in 1 .. n /\ high \in 1 .. n /\ high <= q
    BY <1>1, <1>2, <1>3
  <2>2. i.upper < v[high].lower /\ v[high].lower <= v[q].lower
    <3>1. high = q \/ v[high].upper < v[q].lower
      BY <1>3, <1>4, <2>1
    <3>2. high <= n
      BY <1>1, <1>3, <2>1
    <3> QED
      BY <1>1, <1>3, <1>4, <2>1, <3>1, <3>2
  <2>3. low < high => v[high - 1].upper < v[q].lower
    <3>1. low < high => high - 1 \in 1 .. n /\ high - 1 < q
      BY <1>1, <1>2, <1>3, <2>1
    <3> QED
      BY <1>4, <2>1, <3>1
  <2> QED
    BY <1>1, <1>4, <1>6, <2>1, <2>2, <2>3
<1>13. ASSUME NEW p \in 1 .. Len(r), NEW q \in 1 .. Len(r), p < q
       PROVE  r[p].upper < r[q].lower
  <2>1. CASE q < low
    <3>1. p \in 1 .. low - 1 /\ q \in 1 .. low - 1
      BY <1>2, <1>10, <1>13, <2>1
    <3> QED
      BY <1>4, <1>7, <1>11, <1>13, <3>1
  <2>2. CASE q = low
    <3>1. p \in 1 .. low - 1
      BY <1>2, <1>10, <1>13, <2>2
    <3> QED
      BY <1>7, <1>11, <2>2, <3>1
  <2>3. CASE q > low /\ p = low
    <3>1. q \in low + 1 .. Len(r)
      BY <1>2, <1>10, <2>3
    <3> QED
      BY <1>7, <1>9, <1>12, <2>3, <3>1
  <2>4. CASE q > low /\ p > low
    <3>1. q \in low + 1 .. Len(r) /\ p \in low + 1 .. Len(r)
      BY <1>2, <1>10, <2>4
    <3>2. p + high - low - 1 < q + high - low - 1
      BY <1>2, <1>3, <1>10, <1>13, <3>1
    <3> QED
      BY <1>4, <1>7, <1>9, <3>1, <3>2
  <2>5. CASE q > low /\ p < low
    <3>1. q \in low + 1 .. Len(r) /\ p \in 1 .. low - 1 /\ p \in 1 .. n
      BY <1>1, <1>2, <1>10, <2>5
    <3>2. q + high - low - 1 \in 1 .. n /\ p < q + high - low - 1
      <4>1. q + high - low - 1 >= high
        BY <1>3, <1>9, <3>1
      <4> QED
        BY <1>2, <1>3, <1>9, <3>1, <4>1
    <3> QED
      BY <1>4, <1>7, <3>1, <3>2
  <2> QED
    BY <1>10, <2>1, <2>2, <2>3, <2>4, <2>5
<1>14. InOrder(r)
  <2>1. DOMAIN r = 1 .. Len(r)
    BY <1>7
  <2> QED
    BY <1>7, <1>13, <2>1 DEF InOrder
<1>15. MembersOf(r) = MembersOf(v) \union Ranges!Keys(i)
  <2> SUFFICES ASSUME NEW k
               PROVE  k \in MembersOf(r) <=> k \in MembersOf(v) \/ k \in Ranges!Keys(i)
    OBVIOUS
  <2>1. k \in MembersOf(v) <=> k \in Nat /\ \E p \in 1 .. n : v[p].lower <= k /\ k < v[p].upper
    BY KeysAre
  <2>2. k \in MembersOf(r) <=> k \in Nat /\ \E p \in 1 .. Len(r) : r[p].lower <= k /\ k < r[p].upper
    BY <1>14, KeysAre
  <2>3. k \in Ranges!Keys(i) <=> k \in Nat /\ i.lower <= k /\ k < i.upper
    BY IntervalTypes
  <2>4. ASSUME k \in Nat, NEW p \in 1 .. Len(r), r[p].lower <= k, k < r[p].upper
        PROVE  \/ \E q \in 1 .. n : v[q].lower <= k /\ k < v[q].upper
               \/ i.lower <= k /\ k < i.upper
    <3>1. CASE p < low
      <4>1. p \in 1 .. low - 1 /\ p \in 1 .. n
        BY <1>1, <1>2, <3>1
      <4> QED
        BY <1>7, <2>4, <4>1
    <3>2. CASE p > low
      <4>1. p \in low + 1 .. Len(r)
        BY <1>2, <1>10, <3>2
      <4> QED
        BY <1>7, <1>9, <2>4, <4>1
    <3>3. CASE p = low
      <4>1. h.lower <= k /\ k < h.upper
        BY <1>7, <2>4, <3>3
      <4>2. CASE k < i.lower
        <5>1. low < high /\ h.lower = v[low].lower
          BY <1>1, <1>6, <2>4, <4>1, <4>2
        <5>2. low \in 1 .. n /\ low \in low .. high - 1
          BY <1>1, <1>2, <1>3, <5>1
        <5>3. i.lower <= v[low].upper
          BY <1>5, <5>2
        <5>4. k < v[low].upper
          BY <1>1, <1>4, <2>4, <4>2, <5>2, <5>3
        <5> QED
          BY <4>1, <5>1, <5>2, <5>4
      <4>3. CASE k >= i.upper
        <5>1. low < high /\ h.upper = v[high - 1].upper
          BY <1>1, <1>6, <2>4, <4>1, <4>3
        <5>2. high - 1 \in 1 .. n /\ high - 1 \in low .. high - 1
          BY <1>1, <1>2, <1>3, <5>1
        <5>3. v[high - 1].lower <= i.upper
          BY <1>5, <5>2
        <5>4. v[high - 1].lower <= k
          BY <1>1, <1>4, <2>4, <4>3, <5>2, <5>3
        <5> QED
          BY <4>1, <5>1, <5>2, <5>4
      <4> QED
        BY <1>1, <2>4, <4>2, <4>3
    <3> QED
      BY <1>10, <3>1, <3>2, <3>3
  <2>5. ASSUME k \in Nat, NEW q \in 1 .. n, v[q].lower <= k, k < v[q].upper
        PROVE  \E p \in 1 .. Len(r) : r[p].lower <= k /\ k < r[p].upper
    <3>1. CASE q < low
      <4>1. q \in 1 .. low - 1 /\ q \in 1 .. Len(r)
        BY <1>1, <1>2, <1>10, <3>1
      <4> QED
        BY <1>7, <2>5, <4>1
    <3>2. CASE low <= q /\ q < high
      <4>1. q \in low .. high - 1 /\ low \in 1 .. Len(r)
        BY <1>1, <1>2, <1>3, <1>10, <3>2
      <4>2. h.lower <= v[q].lower /\ v[q].upper <= h.upper
        BY <1>6, <4>1
      <4>3. h.lower <= k /\ k < h.upper
        BY <1>4, <1>6, <2>5, <4>2
      <4> QED
        BY <1>7, <4>1, <4>3
    <3>3. CASE high <= q
      <4> DEFINE p == q - high + low + 1
      <4>1. p \in low + 1 .. Len(r) /\ p \in 1 .. Len(r) /\ p + high - low - 1 = q
        BY <1>1, <1>2, <1>3, <1>7, <3>3
      <4>2. r[p] = v[q]
        BY <1>7, <4>1
      <4> HIDE DEF p
      <4> QED
        BY <2>5, <4>1, <4>2
    <3> QED
      BY <1>1, <1>2, <1>3, <3>1, <3>2, <3>3
  <2>6. ASSUME k \in Nat, i.lower <= k, k < i.upper
        PROVE  \E p \in 1 .. Len(r) : r[p].lower <= k /\ k < r[p].upper
    <3>1. h.lower <= k /\ k < h.upper /\ low \in 1 .. Len(r)
      BY <1>1, <1>2, <1>6, <1>10, <2>6
    <3> QED
      BY <1>7, <3>1
  <2> QED
    BY <2>1, <2>2, <2>3, <2>4, <2>5, <2>6
<1>16. low \in 1 .. Len(r) /\ \A p \in 1 .. low - 1 : r[p].upper < i.lower
  BY <1>2, <1>7, <1>10
\* The search from the beginning finds the same place.
<1>17. r = Ranges!Inserted(v, 1, i)
  <2> DEFINE first == Ranges!LowerIter(v, 1, i)
  <2>1. /\ first \in 1 .. n + 1
        /\ \A q \in 1 .. first - 1 : v[q].upper < i.lower
        /\ first <= n => ~ (v[first].upper < i.lower)
    <3>1. 1 \in 1 .. Len(v) + 1
      BY <1>1
    <3> QED
      BY <3>1, LowerIterIs
  <2> HIDE DEF first, n
  <2>2. ~ (first < low)
    <3> SUFFICES ASSUME first < low PROVE FALSE
      OBVIOUS
    <3>1. first \in 1 .. low - 1 /\ first <= n
      BY <1>1, <1>2, <2>1
    <3> QED
      BY <1>2, <2>1, <3>1
  <2>3. ~ (low < first)
    <3> SUFFICES ASSUME low < first PROVE FALSE
      OBVIOUS
    <3>1. low \in 1 .. first - 1 /\ low <= n
      BY <1>1, <1>2, <2>1
    <3> QED
      BY <1>2, <2>1, <3>1
  <2>4. first = low
    BY <1>1, <1>2, <2>1, <2>2, <2>3
  <2> QED
    BY <2>4 DEF first, r, h, high, Ranges!Inserted
<1> HIDE DEF n
<1> QED
  BY <1>8, <1>14, <1>15, <1>16, <1>17

\* An interval that is there already, behind others that end before it, is
\* found, and nothing changes.
LEMMA InsertedAgain ==
    ASSUME NEW v, InOrder(v), NEW at \in 1 .. Len(v), NEW from \in 1 .. Len(v) + 1,
           \A p \in 1 .. from - 1 : v[p].upper < v[at].lower
    PROVE  /\ Ranges!Inserted(v, from, v[at]) = v
           /\ Ranges!InsertedAt(v, from, v[at]) = at
<1> DEFINE n == Len(v)
           i == v[at]
           low == Ranges!LowerIter(v, from, i)
           high == Ranges!UpperIter(v, at, i)
<1>1. /\ n \in Nat /\ from \in Nat /\ from >= 1 /\ from <= n + 1
      /\ at \in Nat /\ at >= 1 /\ at <= n
  BY OrderTypes
<1>2. \A p \in 1 .. n :
         /\ v[p].lower \in Nat /\ v[p].upper \in Nat /\ v[p].lower <= v[p].upper
         /\ \A q \in 1 .. n : p < q => v[p].upper < v[q].lower
  BY OrderTypes
<1>3. /\ low \in from .. n + 1
      /\ \A q \in from .. low - 1 : v[q].upper < i.lower
      /\ low <= n => ~ (v[low].upper < i.lower)
  <2> HIDE DEF i
  <2> QED
    BY LowerIterIs
<1> HIDE DEF low
<1>4. low \in Nat /\ from <= low /\ low <= n + 1
  BY <1>1, <1>3
<1>5. from <= at
  <2> SUFFICES ASSUME at < from PROVE FALSE
    BY <1>1
  <2>1. at \in 1 .. from - 1 /\ at \in 1 .. n
    BY <1>1
  <2>2. v[at].upper < v[at].lower
    BY <2>1
  <2> QED
    BY <1>2, <2>1, <2>2
<1>6. ~ (at < low)
  <2> SUFFICES ASSUME at < low PROVE FALSE
    OBVIOUS
  <2>1. at \in from .. low - 1 /\ at \in 1 .. n
    BY <1>1, <1>4, <1>5
  <2>2. v[at].upper < v[at].lower
    BY <1>3, <2>1
  <2> QED
    BY <1>2, <2>1, <2>2
<1>7. ~ (low < at)
  <2> SUFFICES ASSUME low < at PROVE FALSE
    OBVIOUS
  <2>1. low \in 1 .. n /\ at \in 1 .. n /\ low <= n
    BY <1>1, <1>4
  <2> QED
    BY <1>2, <1>3, <2>1
<1>8. low = at
  BY <1>1, <1>4, <1>6, <1>7
<1>9. /\ high \in at .. n + 1
      /\ \A q \in at .. high - 1 : v[q].lower <= i.upper
      /\ high <= n => ~ (v[high].lower <= i.upper)
  <2>1. at \in 1 .. Len(v) + 1
    BY <1>1
  <2> HIDE DEF i
  <2> QED
    BY <2>1, UpperIterIs
<1> HIDE DEF high
<1>10. high = at + 1
  <2>1. high \in Nat /\ at <= high /\ high <= n + 1
    BY <1>1, <1>9
  <2>2. high # at
    <3> SUFFICES ASSUME high = at PROVE FALSE
      OBVIOUS
    <3>1. high <= n /\ at \in 1 .. n
      BY <1>1
    <3> QED
      BY <1>2, <1>9, <3>1
  <2>3. ~ (at + 1 < high)
    <3> SUFFICES ASSUME at + 1 < high PROVE FALSE
      OBVIOUS
    <3>1. at + 1 \in at .. high - 1 /\ at + 1 \in 1 .. n /\ at \in 1 .. n /\ at < at + 1
      BY <1>1, <2>1
    <3>2. v[at + 1].lower <= v[at].upper /\ v[at].upper < v[at + 1].lower
      BY <1>2, <1>9, <3>1
    <3> QED
      BY <1>2, <3>1, <3>2
  <2> QED
    BY <1>1, <2>1, <2>2, <2>3
<1>11. Ranges!Hull(v, at, high, i) = i
  <2>1. at \in 1 .. n /\ high - 1 = at
    BY <1>1, <1>10
  <2>2. i = Ranges!Between(i.lower, i.upper)
    BY <2>1, OrderTypes, IntervalTypes
  <2>3. ~ (v[at].lower < i.lower) /\ ~ (v[high - 1].upper > i.upper)
    BY <1>2, <2>1
  <2> QED
    BY <2>2, <2>3 DEF Ranges!Hull
<1> DEFINE r == SubSeq(v, 1, at - 1) \o <<i>> \o SubSeq(v, high, Len(v))
<1>12. Ranges!Inserted(v, from, i) = r
  <2>1. at # high
    BY <1>1, <1>10
  <2> HIDE DEF i
  <2> QED
    BY <1>8, <1>11, <2>1 DEF Ranges!Inserted, low, high
<1> DEFINE T == Ranges!Interval(Ranges!Bound)
<1>13. Joint(T, v, at, high, i, r)
  <2>1. Parted(T, v, at, high, i)
    BY <1>1, <1>10, OrderTypes DEF Parted
  <2> HIDE DEF i, T
  <2> QED
    BY <2>1, Spliced
<1> HIDE DEF r
<1>14. /\ r \in Seq(T) /\ Len(r) = at + n - high + 1
       /\ \A p \in 1 .. at - 1 : r[p] = v[p]
       /\ r[at] = v[at]
       /\ \A p \in at + 1 .. Len(r) : r[p] = v[p + high - at - 1]
  BY <1>13 DEF Joint
<1>15. Len(r) = n
  BY <1>1, <1>10, <1>14
<1>16. ASSUME NEW p \in 1 .. n PROVE r[p] = v[p]
  <2>1. CASE p < at
    <3>1. p \in 1 .. at - 1
      BY <1>1, <2>1
    <3> QED
      BY <1>14, <3>1
  <2>2. CASE p = at
    BY <1>14, <2>2
  <2>3. CASE p > at
    <3>1. p \in at + 1 .. Len(r) /\ p + high - at - 1 = p
      BY <1>1, <1>10, <1>15, <2>3
    <3> QED
      BY <1>14, <3>1
  <2> QED
    BY <1>1, <2>1, <2>2, <2>3
<1>17. r = v
  <2>1. r \in Seq(T) /\ v \in Seq(T)
    BY <1>14, OrderTypes
  <2> HIDE DEF T
  <2> QED
    BY <1>15, <1>16, <2>1
<1> HIDE DEF i
<1> QED
  BY <1>8, <1>12, <1>17 DEF Ranges!InsertedAt, low, i

-----------------------------------------------------------------------------
(* Interval sets: what a vector in order answers.                          *)

LEMMA ContainsIs ==
    ASSUME NEW v, InOrder(v), NEW k \in Nat
    PROVE  Ranges!Contains(v, k) <=> k \in MembersOf(v)
<1> DEFINE n == Len(v)
           H == {q \in Nat : v[q].lower <= k}
           P == {p \in 1 .. Len(v) : \A q \in 1 .. p : q \in H}
           at == 1 + Ranges!Cardinality(P)
<1>1. /\ n \in Nat
      /\ \A p \in 1 .. n :
            /\ v[p].lower \in Nat /\ v[p].upper \in Nat /\ v[p].lower <= v[p].upper
            /\ \A q \in 1 .. n : p < q => v[p].upper < v[q].lower
  BY OrderTypes
<1>2. Ranges!Contains(v, k) <=> at > 1 /\ k < v[at - 1].upper
  <2>1. P = {p \in 1 .. Len(v) : \A q \in 1 .. p : v[q].lower <= k}
    <3>1. \A p \in 1 .. Len(v) : \A q \in 1 .. p : q \in Nat
      BY <1>1
    <3> QED
      BY <3>1
  <2> HIDE DEF P
  <2> QED
    BY <2>1 DEF Ranges!Contains, Ranges!PartitionPoint
<1>3. /\ at \in 1 .. n + 1
      /\ \A q \in 1 .. at - 1 : q \in H
      /\ at <= n => at \notin H
  <2> HIDE DEF H, at
  <2>1. 1 \in 1 .. n + 1
    BY <1>1
  <2> QED
    BY <1>1, <2>1, FirstOutside DEF at
<1> HIDE DEF P, at
<1>4. /\ at \in Nat /\ at >= 1 /\ at <= n + 1
      /\ \A q \in 1 .. at - 1 : v[q].lower <= k
      /\ at <= n => ~ (v[at].lower <= k)
  BY <1>1, <1>3
<1>5. k \in MembersOf(v) <=> \E p \in 1 .. n : v[p].lower <= k /\ k < v[p].upper
  BY KeysAre
<1>6. ASSUME at > 1, k < v[at - 1].upper
      PROVE  \E p \in 1 .. n : v[p].lower <= k /\ k < v[p].upper
  <2>1. at - 1 \in 1 .. at - 1 /\ at - 1 \in 1 .. n
    BY <1>1, <1>4, <1>6
  <2> QED
    BY <1>4, <1>6, <2>1
<1>7. ASSUME NEW p \in 1 .. n, v[p].lower <= k, k < v[p].upper
      PROVE  at > 1 /\ k < v[at - 1].upper
  <2>1. ~ (at <= p)
    <3> SUFFICES ASSUME at <= p PROVE FALSE
      OBVIOUS
    <3>1. at \in 1 .. n /\ at <= n
      BY <1>1, <1>4
    <3>2. at = p \/ v[at].upper < v[p].lower
      BY <1>1, <1>4, <3>1
    <3> QED
      BY <1>1, <1>4, <1>7, <3>1, <3>2
  <2>2. at - 1 \in 1 .. at - 1 /\ at - 1 \in 1 .. n /\ p <= at - 1
    BY <1>1, <1>4, <2>1
  <2>3. p = at - 1 \/ v[p].upper < v[at - 1].lower
    BY <1>1, <1>4, <2>2
  <2> QED
    BY <1>1, <1>4, <1>7, <2>2, <2>3
<1> QED
  BY <1>2, <1>5, <1>6, <1>7

LEMMA CoversIs ==
    ASSUME NEW v, InOrder(v), NEW i \in Ranges!Interval(Ranges!Bound), ~ Ranges!Empty(i)
    PROVE  Ranges!Covers(v, i) <=> Ranges!Keys(i) \subseteq MembersOf(v)
<1> DEFINE n == Len(v)
           H == {q \in Nat : v[q].lower <= i.lower}
           P == {p \in 1 .. Len(v) : \A q \in 1 .. p : q \in H}
           at == 1 + Ranges!Cardinality(P)
<1>1. /\ n \in Nat
      /\ \A p \in 1 .. n :
            /\ v[p].lower \in Nat /\ v[p].upper \in Nat /\ v[p].lower <= v[p].upper
            /\ \A q \in 1 .. n : p < q => v[p].upper < v[q].lower
  BY OrderTypes
<1>2. /\ i.lower \in Nat /\ i.upper \in Nat /\ i.lower < i.upper
      /\ \A k : k \in Ranges!Keys(i) <=> k \in Nat /\ i.lower <= k /\ k < i.upper
  BY IntervalTypes DEF Ranges!Empty
<1>3. Ranges!Covers(v, i) <=> at > 1 /\ i.upper <= v[at - 1].upper
  <2>1. P = {p \in 1 .. Len(v) : \A q \in 1 .. p : v[q].lower <= i.lower}
    <3>1. \A p \in 1 .. Len(v) : \A q \in 1 .. p : q \in Nat
      BY <1>1
    <3> QED
      BY <3>1
  <2> HIDE DEF P
  <2> QED
    BY <2>1 DEF Ranges!Covers, Ranges!PartitionPoint
<1>4. /\ at \in 1 .. n + 1
      /\ \A q \in 1 .. at - 1 : q \in H
      /\ at <= n => at \notin H
  <2> HIDE DEF H, at
  <2>1. 1 \in 1 .. n + 1
    BY <1>1
  <2> QED
    BY <1>1, <2>1, FirstOutside DEF at
<1> HIDE DEF P, at
<1>5. /\ at \in Nat /\ at >= 1 /\ at <= n + 1
      /\ \A q \in 1 .. at - 1 : v[q].lower <= i.lower
      /\ at <= n => ~ (v[at].lower <= i.lower)
  BY <1>1, <1>4
<1>6. \A k : k \in MembersOf(v) <=>
         k \in Nat /\ \E p \in 1 .. n : v[p].lower <= k /\ k < v[p].upper
  BY KeysAre
<1>7. ASSUME at > 1, i.upper <= v[at - 1].upper
      PROVE  Ranges!Keys(i) \subseteq MembersOf(v)
  <2>1. at - 1 \in 1 .. at - 1 /\ at - 1 \in 1 .. n
    BY <1>1, <1>5, <1>7
  <2>2. ASSUME NEW k \in Ranges!Keys(i) PROVE v[at - 1].lower <= k /\ k < v[at - 1].upper
    <3>1. k \in Nat /\ i.lower <= k /\ k < i.upper /\ v[at - 1].lower <= i.lower
      BY <1>2, <1>5, <2>1
    <3> QED
      BY <1>1, <1>2, <1>7, <2>1, <3>1
  <2> QED
    BY <1>2, <1>6, <2>1, <2>2
<1>8. ASSUME Ranges!Keys(i) \subseteq MembersOf(v)
      PROVE  at > 1 /\ i.upper <= v[at - 1].upper
  <2>1. PICK p \in 1 .. n : v[p].lower <= i.lower /\ i.lower < v[p].upper
    <3>1. i.lower \in Ranges!Keys(i)
      BY <1>2
    <3> QED
      BY <1>6, <1>8, <3>1
  <2>2. ~ (at <= p)
    <3> SUFFICES ASSUME at <= p PROVE FALSE
      OBVIOUS
    <3>1. at \in 1 .. n /\ at <= n
      BY <1>1, <1>5
    <3>2. at = p \/ v[at].upper < v[p].lower
      BY <1>1, <1>5, <3>1
    <3> QED
      BY <1>1, <1>2, <1>5, <2>1, <3>1, <3>2
  <2>3. at - 1 \in 1 .. at - 1 /\ at - 1 \in 1 .. n /\ p <= at - 1
    BY <1>1, <1>5, <2>2
  <2>4. p = at - 1
    <3>1. p = at - 1 \/ v[p].upper < v[at - 1].lower
      <4>1. p = at - 1 \/ p < at - 1
        BY <1>1, <1>5, <2>3
      <4> QED
        BY <1>1, <2>3, <4>1
    <3> QED
      BY <1>1, <1>2, <1>5, <2>1, <2>3, <3>1
\* If i went further, the key at the upper bound would be in another interval.
  <2>5. ~ (v[p].upper < i.upper)
    <3> SUFFICES ASSUME v[p].upper < i.upper PROVE FALSE
      OBVIOUS
    <3> DEFINE k == v[p].upper
    <3>1. k \in Nat /\ k \in Ranges!Keys(i)
      BY <1>1, <1>2, <2>1
    <3>2. PICK q \in 1 .. n : v[q].lower <= k /\ k < v[q].upper
      BY <1>6, <1>8, <3>1
    <3>3. /\ p < q => v[p].upper < v[q].lower
          /\ q < p => v[q].upper < v[p].lower
      BY <1>1
    <3>4. p < q \/ p = q \/ q < p
      OBVIOUS
    <3> QED
      BY <1>1, <2>1, <3>1, <3>2, <3>3, <3>4
  <2> QED
    BY <1>1, <1>2, <1>5, <2>1, <2>3, <2>4, <2>5
<1> QED
  BY <1>3, <1>7, <1>8

\* The number of keys in some of the intervals of a vector.
KeysIn(v, P) == UNION {Ranges!Keys(v[p]) : p \in P}

LEMMA OneMoreInterval ==
    ASSUME NEW v, InOrder(v), NEW P, P \subseteq DOMAIN v, NEW x \in P
    PROVE  /\ Cardinality(KeysIn(v, P)) =
                (v[x].upper - v[x].lower) + Cardinality(KeysIn(v, P \ {x}))
           /\ Cardinality(KeysIn(v, P)) \in Nat
<1> DEFINE a == Ranges!Keys(v[x])
           b == KeysIn(v, P \ {x})
<1>1. /\ Len(v) \in Nat /\ DOMAIN v = 1 .. Len(v) /\ x \in 1 .. Len(v)
      /\ \A p \in 1 .. Len(v) :
            /\ v[p] \in Ranges!Interval(Ranges!Bound)
            /\ v[p].lower \in Nat /\ v[p].upper \in Nat /\ v[p].lower <= v[p].upper
            /\ v[p].upper <= MaxKey
            /\ \A q \in 1 .. Len(v) : p < q => v[p].upper < v[q].lower
  BY OrderTypes
<1>2. \A p \in 1 .. Len(v) : \A k :
         k \in Ranges!Keys(v[p]) <=> k \in Nat /\ v[p].lower <= k /\ k < v[p].upper
  BY <1>1, IntervalTypes
<1>3. KeysIn(v, P) = a \union b
  BY DEF KeysIn
<1>4. IsFiniteSet(a) /\ Cardinality(a) = v[x].upper - v[x].lower
  <2>1. a = v[x].lower .. (v[x].upper - 1)
    BY DEF Ranges!Keys
  <2>2. v[x].lower \in Int /\ v[x].upper - 1 \in Int
    BY <1>1
  <2> HIDE DEF a
  <2>3. /\ IsFiniteSet(a)
        /\ Cardinality(a) = IF v[x].lower > v[x].upper - 1 THEN 0
                            ELSE (v[x].upper - 1) - v[x].lower + 1
    BY <2>1, <2>2, FS_Interval
  <2> QED
    BY <1>1, <2>3
<1>5. IsFiniteSet(b)
  <2>1. b \subseteq 0 .. MaxKey
    <3> SUFFICES ASSUME NEW p \in P \ {x}, NEW k \in Ranges!Keys(v[p])
                 PROVE  k \in 0 .. MaxKey
      BY DEF KeysIn
    <3>1. p \in 1 .. Len(v)
      BY <1>1
    <3>2. k \in Nat /\ k < v[p].upper /\ v[p].upper <= MaxKey /\ v[p].upper \in Nat
      BY <1>1, <1>2, <3>1
    <3>3. MaxKey \in Nat
      BY ContainersAssumption
    <3> QED
      BY <3>2, <3>3
  <2>2. IsFiniteSet(0 .. MaxKey)
    <3>1. 0 \in Int /\ MaxKey \in Int
      BY ContainersAssumption
    <3> QED
      BY <3>1, FS_Interval
  <2> HIDE DEF b
  <2> QED
    BY <2>1, <2>2, FS_Subset
<1>6. a \intersect b = {}
  <2> SUFFICES ASSUME NEW k \in Ranges!Keys(v[x]), NEW p \in P \ {x}, k \in Ranges!Keys(v[p])
               PROVE  FALSE
    BY DEF KeysIn
  <2>1. p \in 1 .. Len(v) /\ p # x
    BY <1>1
  <2>2. /\ v[x].lower <= k /\ k < v[x].upper /\ k \in Nat
        /\ v[p].lower <= k /\ k < v[p].upper
    BY <1>1, <1>2, <2>1
  <2>3. p < x \/ x < p
    BY <1>1, <2>1
  <2>4. v[p].upper < v[x].lower \/ v[x].upper < v[p].lower
    BY <1>1, <2>1, <2>3
  <2> QED
    BY <1>1, <2>1, <2>2, <2>4
<1> HIDE DEF a, b
<1>7. Cardinality(a) \in Nat /\ Cardinality(b) \in Nat /\ Cardinality(a \intersect b) = 0
  BY <1>4, <1>5, <1>6, FS_CardinalityType, FS_EmptySet
<1>8. Cardinality(a \union b) = Cardinality(a) + Cardinality(b) - Cardinality(a \intersect b)
  BY <1>4, <1>5, FS_Union
<1> QED
  BY <1>3, <1>4, <1>7, <1>8 DEF b

\* length(), a sum over the intervals, counts the keys.
LEMMA LengthIs ==
    ASSUME NEW v, InOrder(v)
    PROVE  Ranges!Length(v) = Cardinality(MembersOf(v))
<1> DEFINE D == DOMAIN v
           one(T) == CHOOSE x \in T : TRUE
           sum[T \in SUBSET D] ==
              IF T = {} THEN 0
              ELSE (v[one(T)].upper - v[one(T)].lower) + sum[T \ {one(T)}]
           g == [T \in SUBSET D |-> Cardinality(KeysIn(v, T))]
<1>1. Ranges!Length(v) = sum[D]
  BY DEF Ranges!Length, Ranges!MapThenSumSet, Ranges!MapThenFoldSet
<1>2. IsFiniteSet(D)
  BY OrderTypes, FS_Interval
<1>3. \A T \in SUBSET D : T # {} => one(T) \in T
  OBVIOUS
<1> HIDE DEF one
<1>4. \A T \in SUBSET D :
         g[T] = IF T = {} THEN 0
                ELSE (v[one(T)].upper - v[one(T)].lower) + g[T \ {one(T)}]
  <2> SUFFICES ASSUME NEW T \in SUBSET D
               PROVE  g[T] = IF T = {} THEN 0
                             ELSE (v[one(T)].upper - v[one(T)].lower) + g[T \ {one(T)}]
    OBVIOUS
  <2>1. CASE T = {}
    <3>1. KeysIn(v, {}) = {}
      BY DEF KeysIn
    <3> QED
      BY <2>1, <3>1, FS_EmptySet
  <2>2. CASE T # {}
    <3>1. T \ {one(T)} \in SUBSET D /\ one(T) \in T
      BY <1>3, <2>2
    <3>2. Cardinality(KeysIn(v, T)) =
             (v[one(T)].upper - v[one(T)].lower) + Cardinality(KeysIn(v, T \ {one(T)}))
      BY <3>1, OneMoreInterval
    <3> QED
      BY <2>2, <3>1, <3>2
  <2> QED
    BY <2>1, <2>2
<1>5. g = [T \in SUBSET D |->
             IF T = {} THEN 0
             ELSE (v[one(T)].upper - v[one(T)].lower) + g[T \ {one(T)}]]
  <2>1. g = [T \in SUBSET D |-> g[T]]
    OBVIOUS
  <2> HIDE DEF g, D
  <2> QED
    BY <1>4, <2>1
<1>6. sum = [T \in SUBSET D |->
               IF T = {} THEN 0
               ELSE (v[one(T)].upper - v[one(T)].lower) + sum[T \ {one(T)}]]
  <2> HIDE DEF g, D
  <2> QED
    BY <1>5
<1> HIDE DEF sum
<1>7. \A T \in SUBSET D : sum[T] = g[T]
  <2> DEFINE F == {T \in SUBSET D : sum[T] # g[T]}
  <2> SUFFICES ASSUME F # {} PROVE FALSE
    OBVIOUS
  <2>1. PICK T \in F : \A U \in F : U \subseteq T => U = T
    <3> HIDE DEF g
    <3>1. F \subseteq SUBSET D
      OBVIOUS
    <3> HIDE DEF F, D
    <3> QED
      BY <1>2, <3>1, Smallest
  <2> HIDE DEF g, D
  <2>2. T \in SUBSET D /\ sum[T] # g[T]
    OBVIOUS
  <2>3. CASE T = {}
    BY <1>4, <1>6, <2>2, <2>3
  <2>4. CASE T # {}
    <3> DEFINE U == T \ {one(T)}
    <3>1. U \in SUBSET D /\ U \subseteq T /\ U # T
      BY <1>3, <2>2, <2>4
    <3>2. sum[U] = g[U]
      BY <2>1, <3>1
    <3>3. sum[T] = (v[one(T)].upper - v[one(T)].lower) + sum[U]
      BY <1>6, <2>2, <2>4
    <3>4. g[T] = (v[one(T)].upper - v[one(T)].lower) + g[U]
      BY <1>4, <2>2, <2>4
    <3> QED
      BY <2>2, <3>2, <3>3, <3>4
  <2> QED
    BY <2>3, <2>4
<1>8. g[D] = Cardinality(MembersOf(v))
  BY DEF MembersOf, KeysIn
<1> HIDE DEF g
<1> QED
  BY <1>1, <1>7, <1>8

-----------------------------------------------------------------------------
(* Interval sets: the vectors stay in order and have the keys that were    *)
(* added, and a `+=` loses none.                                           *)

\* What has been read of the right-hand side is there, and what lies before
\* the place where the next search starts ends before what is read next.
AddingInv ==
    ~ Ranges!Idle =>
       /\ dest \in Sets /\ source \in Sets
       /\ iter \in 1 .. Len(intervals[source]) + 1
       /\ start \in 1 .. Len(intervals[dest]) + 1
       /\ \A p \in 1 .. iter - 1 : Ranges!Keys(intervals[source][p]) \subseteq members[dest]
       /\ iter <= Len(intervals[source]) =>
             \A p \in 1 .. start - 1 : intervals[dest][p].upper < intervals[source][iter].lower

VectorsInv ==
    /\ DOMAIN intervals = Sets /\ DOMAIN members = Sets
    /\ intervals = [s \in Sets |-> intervals[s]]
    /\ members = [s \in Sets |-> members[s]]
    /\ \A s \in Sets : InOrder(intervals[s]) /\ members[s] = MembersOf(intervals[s])

RangesInv == VectorsInv /\ AddingInv

LEMMA EmptyInOrder == InOrder(<<>>) /\ MembersOf(<<>>) = {}
  BY DEF InOrder, MembersOf

LEMMA SingleInOrder ==
    ASSUME NEW i \in Ranges!Interval(Ranges!Bound)
    PROVE  InOrder(<<i>>) /\ MembersOf(<<i>>) = Ranges!Keys(i)
<1> DEFINE one == <<i>>
           T == Ranges!Interval(Ranges!Bound)
<1>1. one \in Seq(T) /\ DOMAIN one = {1} /\ one[1] = i
  OBVIOUS
<1> HIDE DEF one, T
<1>2. \A p, q \in DOMAIN one : ~ (p < q)
  BY <1>1
<1>3. InOrder(one)
  BY <1>1, <1>2 DEF InOrder, T
<1>4. MembersOf(one) = Ranges!Keys(i)
  BY <1>1 DEF MembersOf
<1> QED
  BY <1>3, <1>4 DEF one

LEMMA RangesInit == Ranges!Init => RangesInv
<1> SUFFICES ASSUME Ranges!Init PROVE RangesInv
  OBVIOUS
<1>1. Ranges!Idle
  BY DEF Ranges!Init, Ranges!Idle
<1>2. VectorsInv
  BY EmptyInOrder DEF Ranges!Init, VectorsInv
<1> QED
  BY <1>1, <1>2 DEF RangesInv, AddingInv

\* One set changes to a vector in order, and gets its keys.
LEMMA OneVector ==
    ASSUME VectorsInv, NEW s \in Sets, NEW v, InOrder(v),
           intervals' = [intervals EXCEPT ![s] = v],
           members' = [members EXCEPT ![s] = MembersOf(v)]
    PROVE  VectorsInv'
<1>1. /\ DOMAIN intervals' = Sets /\ DOMAIN members' = Sets
      /\ intervals' = [t \in Sets |-> intervals'[t]]
      /\ members' = [t \in Sets |-> members'[t]]
      /\ \A t \in Sets : /\ intervals'[t] = IF t = s THEN v ELSE intervals[t]
                         /\ members'[t] = IF t = s THEN MembersOf(v) ELSE members[t]
  BY DEF VectorsInv
<1>2. \A t \in Sets : InOrder(intervals'[t]) /\ members'[t] = MembersOf(intervals'[t])
  BY <1>1 DEF VectorsInv
<1> QED
  BY <1>1, <1>2 DEF VectorsInv

LEMMA InsertKeeps ==
    ASSUME RangesInv, NEW s \in Sets, NEW i \in Ranges!Interval(Ranges!Bound),
           Ranges!Insert(s, i) \/ Ranges!Construct(s, i)
    PROVE  RangesInv'
<1>1. Ranges!Idle /\ Ranges!Idle' /\ VectorsInv
  BY DEF RangesInv, Ranges!Insert, Ranges!Construct, Ranges!adding, Ranges!Idle
<1>2. CASE Ranges!Insert(s, i)
  <2> DEFINE v == Ranges!Inserted(intervals[s], 1, i)
  <2>1. /\ intervals' = [intervals EXCEPT ![s] = v]
        /\ members' = [members EXCEPT ![s] = members[s] \union Ranges!Keys(i)]
    BY <1>2 DEF Ranges!Insert
  <2>2. InOrder(intervals[s]) /\ members[s] = MembersOf(intervals[s])
    BY <1>1 DEF VectorsInv
  <2>3. 1 \in 1 .. Len(intervals[s]) + 1 /\ \A p \in 1 .. 1 - 1 : FALSE
    BY <2>2, OrderTypes
  <2>4. InOrder(v) /\ MembersOf(v) = MembersOf(intervals[s]) \union Ranges!Keys(i)
    BY <2>2, <2>3, InsertedIs
  <2> HIDE DEF v
  <2>5. VectorsInv'
    BY <1>1, <2>1, <2>2, <2>4, OneVector
  <2> QED
    BY <1>1, <2>5 DEF RangesInv, AddingInv
<1>3. CASE Ranges!Construct(s, i)
  <2>1. /\ intervals' = [intervals EXCEPT ![s] = <<i>>]
        /\ members' = [members EXCEPT ![s] = MembersOf(<<i>>)]
    BY <1>3, SingleInOrder DEF Ranges!Construct
  <2>2. VectorsInv'
    BY <1>1, <2>1, SingleInOrder, OneVector
  <2> QED
    BY <1>1, <2>2 DEF RangesInv, AddingInv
<1> QED
  BY <1>2, <1>3

\* A call of += begins at the beginning of both.
LEMMA BeginKeeps ==
    ASSUME NEW d \in Sets, NEW s \in Sets, Ranges!Begin(d, s), VectorsInv'
    PROVE  RangesInv'
<1>1. dest' = d /\ source' = s /\ iter' = 1 /\ start' = 1
  BY DEF Ranges!Begin
<1>2. InOrder(intervals'[s]) /\ InOrder(intervals'[d])
  BY DEF VectorsInv
<1>3. 1 \in 1 .. Len(intervals'[s]) + 1 /\ 1 \in 1 .. Len(intervals'[d]) + 1
      /\ \A p \in 1 .. 1 - 1 : FALSE
  BY <1>2, OrderTypes
<1> QED
  BY <1>1, <1>3 DEF RangesInv, AddingInv

LEMMA CallsKeep ==
    ASSUME RangesInv, NEW d \in Sets, NEW a \in Sets, NEW s \in Sets,
           Ranges!AddAssign(d, s) \/ Ranges!Take(d, s) \/ Ranges!AddCopy(d, a, s)
    PROVE  RangesInv'
<1>1. VectorsInv
  BY DEF RangesInv
<1>2. CASE Ranges!AddAssign(d, s)
  <2>1. VectorsInv' /\ Ranges!Begin(d, s)
    BY <1>1, <1>2 DEF Ranges!AddAssign, VectorsInv
  <2> QED
    BY <2>1, BeginKeeps
<1>3. CASE Ranges!Take(d, s)
  <2>1. /\ intervals' = [intervals EXCEPT ![d] = intervals[s], ![s] = <<>>]
        /\ members' = [members EXCEPT ![d] = members[s], ![s] = {}]
        /\ d # s /\ Ranges!Idle'
    BY <1>3 DEF Ranges!Take, Ranges!adding, Ranges!Idle
  <2>2. /\ DOMAIN intervals' = Sets /\ DOMAIN members' = Sets
        /\ intervals' = [t \in Sets |-> intervals'[t]]
        /\ members' = [t \in Sets |-> members'[t]]
        /\ \A t \in Sets :
              /\ intervals'[t] = IF t = s THEN <<>> ELSE IF t = d THEN intervals[s] ELSE intervals[t]
              /\ members'[t] = IF t = s THEN {} ELSE IF t = d THEN members[s] ELSE members[t]
    BY <1>1, <2>1 DEF VectorsInv
  <2>3. \A t \in Sets : InOrder(intervals'[t]) /\ members'[t] = MembersOf(intervals'[t])
    BY <1>1, <2>2, EmptyInOrder DEF VectorsInv
  <2>4. VectorsInv'
    BY <2>2, <2>3 DEF VectorsInv
  <2> QED
    BY <2>1, <2>4 DEF RangesInv, AddingInv
<1>4. CASE Ranges!AddCopy(d, a, s)
  <2>1. /\ intervals' = [intervals EXCEPT ![d] = intervals[a]]
        /\ members' = [members EXCEPT ![d] = members[a]]
        /\ Ranges!Begin(d, s)
    BY <1>4 DEF Ranges!AddCopy
  <2>2. InOrder(intervals[a]) /\ members[a] = MembersOf(intervals[a])
    BY <1>1 DEF VectorsInv
  <2>3. VectorsInv'
    BY <1>1, <2>1, <2>2, OneVector
  <2> QED
    BY <2>1, <2>3, BeginKeeps
<1> QED
  BY <1>2, <1>3, <1>4

\* A turn of the loop, from the place where the last left off.  If a set is
\* added to itself, the turn changes nothing.
LEMMA AddNextKeeps ==
    ASSUME RangesInv, Ranges!AddNext
    PROVE  RangesInv'
<1> DEFINE from == intervals[source]
           to == intervals[dest]
           i == from[iter]
           v == Ranges!Inserted(to, start, i)
           at == Ranges!InsertedAt(to, start, i)
<1>1. /\ ~ Ranges!Idle /\ iter <= Len(from)
      /\ intervals' = [intervals EXCEPT ![dest] = v]
      /\ members' = [members EXCEPT ![dest] = members[dest] \union Ranges!Keys(i)]
      /\ start' = at /\ iter' = iter + 1 /\ dest' = dest /\ source' = source
  BY DEF Ranges!AddNext
<1>2. /\ dest \in Sets /\ source \in Sets
      /\ iter \in 1 .. Len(from) + 1 /\ start \in 1 .. Len(to) + 1
      /\ \A p \in 1 .. iter - 1 : Ranges!Keys(from[p]) \subseteq members[dest]
      /\ \A p \in 1 .. start - 1 : to[p].upper < i.lower
  BY <1>1 DEF RangesInv, AddingInv
<1>3. /\ VectorsInv /\ InOrder(from) /\ InOrder(to)
      /\ members[dest] = MembersOf(to)
  BY <1>2 DEF RangesInv, VectorsInv
<1>4. /\ Len(from) \in Nat /\ Len(to) \in Nat /\ iter \in 1 .. Len(from)
      /\ i \in Ranges!Interval(Ranges!Bound)
  <2>1. Len(from) \in Nat /\ Len(to) \in Nat /\ iter \in 1 .. Len(from)
    BY <1>1, <1>2, <1>3, OrderTypes
  <2> QED
    BY <1>3, <2>1, OrderTypes
<1>5. /\ InOrder(v) /\ at \in 1 .. Len(v)
      /\ MembersOf(v) = MembersOf(to) \union Ranges!Keys(i)
      /\ \A p \in 1 .. at - 1 : v[p].upper < i.lower
  <2> HIDE DEF to, i
  <2> QED
    BY <1>2, <1>3, <1>4, InsertedIs
<1>6. dest = source => v = to /\ at = iter
  <2> SUFFICES ASSUME dest = source PROVE v = to /\ at = iter
    OBVIOUS
  <2>1. to = from /\ iter \in 1 .. Len(to) /\ i = to[iter]
    BY <1>4
  <2> HIDE DEF to, from
  <2> QED
    BY <1>2, <1>3, <2>1, InsertedAgain
<1> HIDE DEF v, at
<1>7. VectorsInv'
  <2>1. members' = [members EXCEPT ![dest] = MembersOf(v)]
    BY <1>1, <1>3, <1>5
  <2> HIDE DEF i
  <2> QED
    BY <1>1, <1>2, <1>3, <1>5, <2>1, OneVector
<1>8. intervals'[source] = from /\ intervals'[dest] = v
  BY <1>1, <1>2, <1>3, <1>6 DEF VectorsInv
<1>9. members'[dest] = members[dest] \union Ranges!Keys(i)
  BY <1>1, <1>2, <1>3 DEF VectorsInv
<1>10. ASSUME NEW p \in 1 .. (iter + 1) - 1
       PROVE  Ranges!Keys(from[p]) \subseteq members[dest] \union Ranges!Keys(i)
  <2>1. p \in 1 .. iter - 1 \/ p = iter
    BY <1>4
  <2> QED
    BY <1>2, <2>1
<1>11. ASSUME iter + 1 <= Len(from), NEW p \in 1 .. at - 1
       PROVE  v[p].upper < from[iter + 1].lower
  <2>1. iter + 1 \in 1 .. Len(from) /\ iter < iter + 1
    BY <1>4, <1>11
  <2>2. /\ i.lower \in Nat /\ i.upper \in Nat /\ i.lower <= i.upper
        /\ i.upper < from[iter + 1].lower /\ from[iter + 1].lower \in Nat
    <3> HIDE DEF from
    <3> QED
      BY <1>3, <1>4, <2>1, OrderTypes
  <2>3. p \in 1 .. Len(v) /\ v[p].upper \in Nat
    <3>1. Len(v) \in Nat
      BY <1>5, OrderTypes
    <3>2. p \in 1 .. Len(v)
      BY <1>5, <3>1
    <3> QED
      BY <1>5, <3>2, OrderTypes
  <2> HIDE DEF i, from
  <2> QED
    BY <1>5, <2>2, <2>3
<1>12. /\ iter + 1 \in 1 .. Len(from) + 1
       /\ at \in 1 .. Len(v) + 1
  <2>1. Len(v) \in Nat
    BY <1>5, OrderTypes
  <2> QED
    BY <1>4, <1>5, <2>1
<1>13. AddingInv'
  <2> HIDE DEF from, i
  <2> QED
    BY <1>1, <1>2, <1>8, <1>9, <1>10, <1>11, <1>12 DEF AddingInv
<1> QED
  BY <1>7, <1>13 DEF RangesInv

LEMMA RangesStep == RangesInv /\ [Ranges!Next]_rangeVars => RangesInv'
<1> SUFFICES ASSUME RangesInv, [Ranges!Next]_rangeVars PROVE RangesInv'
  OBVIOUS
<1>1. CASE Ranges!Added
  <2>1. Ranges!Idle' /\ intervals' = intervals /\ members' = members
    BY <1>1 DEF Ranges!Added, Ranges!Idle
  <2> QED
    BY <2>1 DEF RangesInv, VectorsInv, AddingInv
<1>2. CASE UNCHANGED rangeVars
  BY <1>2 DEF rangeVars, RangesInv, VectorsInv, AddingInv, Ranges!Idle
<1> QED
  BY <1>1, <1>2, InsertKeeps, CallsKeep, AddNextKeeps DEF Ranges!Next

\* What is read off the invariant.
LEMMA RangesAnswers ==
    RangesInv => Ranges!Canonical /\ Ranges!MembersExact /\ Ranges!UnionExact
<1> SUFFICES ASSUME RangesInv
             PROVE  Ranges!Canonical /\ Ranges!MembersExact /\ Ranges!UnionExact
  OBVIOUS
<1>1. \A s \in Sets : InOrder(intervals[s]) /\ members[s] = MembersOf(intervals[s])
  BY DEF RangesInv, VectorsInv
<1>2. Ranges!Canonical
  BY <1>1 DEF Ranges!Canonical, InOrder
<1>3. Ranges!MembersExact
  <2> SUFFICES ASSUME NEW s \in Sets
               PROVE  /\ \A k \in Ranges!Bound :
                            Ranges!Contains(intervals[s], k) <=> k \in members[s]
                      /\ \A i \in Ranges!Interval(Ranges!Bound) :
                            ~ Ranges!Empty(i) =>
                               (Ranges!Covers(intervals[s], i)
                                  <=> Ranges!Keys(i) \subseteq members[s])
                      /\ Ranges!Length(intervals[s]) = Cardinality(members[s])
    BY RangesCardinality DEF Ranges!MembersExact
  <2>1. \A k \in Ranges!Bound : k \in Nat
    BY ContainersAssumption DEF Ranges!Bound
  <2> QED
    BY <1>1, <2>1, ContainsIs, CoversIs, LengthIs
<1>4. Ranges!UnionExact
  <2> SUFFICES ASSUME ~ Ranges!Idle
               PROVE  IF iter > Len(intervals[source])
                      THEN members[source] \subseteq members[dest]
                      ELSE LET i == intervals[source][iter]
                               next1 == Ranges!Inserted(intervals[dest], start, i)
                           IN  /\ next1 = Ranges!Inserted(intervals[dest], 1, i)
                               /\ dest = source => next1 = intervals[dest]
    BY DEF Ranges!UnionExact
  <2> DEFINE from == intervals[source]
             to == intervals[dest]
             i == from[iter]
  <2>1. /\ dest \in Sets /\ source \in Sets
        /\ iter \in 1 .. Len(from) + 1 /\ start \in 1 .. Len(to) + 1
        /\ \A p \in 1 .. iter - 1 : Ranges!Keys(from[p]) \subseteq members[dest]
        /\ iter <= Len(from) => \A p \in 1 .. start - 1 : to[p].upper < i.lower
    BY DEF RangesInv, AddingInv
  <2>2. InOrder(from) /\ InOrder(to) /\ Len(from) \in Nat /\ DOMAIN from = 1 .. Len(from)
    BY <1>1, <2>1, OrderTypes
  <2>3. CASE iter > Len(from)
    <3>1. \A p \in DOMAIN from : p \in 1 .. iter - 1
      BY <2>1, <2>2, <2>3
    <3>2. members[source] = MembersOf(from)
      BY <1>1, <2>1
    <3>3. members[source] \subseteq members[dest]
      BY <2>1, <3>1, <3>2 DEF MembersOf
    <3> QED
      BY <2>3, <3>3
  <2>4. CASE ~ (iter > Len(from))
    <3>1. iter \in 1 .. Len(from) /\ iter <= Len(from)
      BY <2>1, <2>2, <2>4
    <3>2. i \in Ranges!Interval(Ranges!Bound)
      BY <2>2, <3>1, OrderTypes
    <3>3. \A p \in 1 .. start - 1 : to[p].upper < i.lower
      BY <2>1, <3>1
    <3>4. Ranges!Inserted(to, start, i) = Ranges!Inserted(to, 1, i)
      <4> HIDE DEF to, i
      <4> QED
        BY <2>1, <2>2, <3>2, <3>3, InsertedIs
    <3>5. dest = source => Ranges!Inserted(to, start, i) = to
      <4> SUFFICES ASSUME dest = source PROVE Ranges!Inserted(to, start, i) = to
        OBVIOUS
      <4>1. to = from /\ iter \in 1 .. Len(to) /\ i = to[iter]
        BY <3>1
      <4> HIDE DEF to, from, i
      <4> QED
        BY <2>1, <2>2, <3>3, <4>1, InsertedAgain
    <3> QED
      BY <2>4, <3>4, <3>5
  <2> QED
    BY <2>3, <2>4
<1> QED
  BY <1>2, <1>3, <1>4

LEMMA RangesAlone ==
    ASSUME [AnyNext]_allVars
    PROVE  [Ranges!Next]_rangeVars
  BY DEF AnyNext, allVars, SubsetsOnly, RangesOnly, RangeMapOnly, StackOnly, StableOnly,
     ForestOnly

\* Interval sets of any number of bounds: each vector stays sorted, with gaps
\* between its intervals, and contains, covers and length answer as the keys
\* that were added demand, in the middle of a `+=` too; starting a search where
\* the last insertion left off finds what a search from the beginning would,
\* and a set may be added to itself.  The bounds of a map stay in order.
THEOREM RangesExactHolds ==
    AnySpec => []RangesExact
<1>1. AnyInit => RangesInv
  BY RangesInit DEF AnyInit
<1>2. RangesInv /\ [AnyNext]_allVars => RangesInv'
  BY RangesAlone, RangesStep
<1>3. AnySpec => []RangesInv
  BY <1>1, <1>2, PTL DEF AnySpec
<1>4. RangesInv /\ RangeMap!BoundsInOrder => RangesExact
  BY RangesAnswers DEF RangesExact
<1> QED
  BY <1>3, <1>4, BoundsStayInOrder, PTL

-----------------------------------------------------------------------------
(* Stacks: what the sizes of buffers come to.                              *)

\* The room for cap elements, rounded up to words, and a word fit in the buffer
\* that is made for cap elements.
LEMMA BufferRoom ==
    ASSUME layout \in MCLayouts, NEW cap \in Nat \ {0}
    PROVE  /\ Stack!BufferSize(cap) \in Nat
           /\ Stack!CapacityAddress(cap) \in Nat
           /\ cap * Stack!Size <= Stack!CapacityAddress(cap)
           /\ Stack!CapacityAddress(cap) + Word <= Stack!BufferSize(cap)
           /\ Stack!BufferSize(cap) \div Stack!Size \in Nat
<1> USE DEF Stack!BufferSize, Stack!CapacityAddress, Stack!OrBelow, Stack!RoundUp,
            Stack!RoundDown, Stack!Size, Stack!Alignment
<1>1. Word = 4 \/ Word = 8
  BY ContainersAssumption
<1>2. CASE layout = <<3, 1>>
  <2>1. Stack!Size = 3 /\ Stack!Alignment = 1
    BY <1>2
  <2> QED
    BY <1>1, <2>1
<1>3. CASE layout = <<8, 8>>
  <2>1. Stack!Size = 8 /\ Stack!Alignment = 8
    BY <1>3
  <2> QED
    BY <1>1, <2>1
<1>4. CASE layout = <<16, 16>>
  <2>1. Stack!Size = 16 /\ Stack!Alignment = 16
    BY <1>4
  <2> QED
    BY <1>1, <2>1
<1> QED
  BY <1>2, <1>3, <1>4 DEF MCLayouts

\* The first buffer has room for an element.
LEMMA FirstRoom ==
    ASSUME layout \in MCLayouts,
           NEW cap, cap = Stack!CapacityOffset(Stack!BufferSize(1)) \div Stack!Size
    PROVE  /\ cap \in Nat \ {0}
           /\ Stack!CapacityAddress(cap) \in Nat
           /\ Stack!CapacityAddress(cap) + Word <= Stack!BufferSize(1)
<1>1. Word = 4 \/ Word = 8
  BY ContainersAssumption
<1>2. CASE layout = <<3, 1>>
  <2>1. Stack!Size = 3 /\ Stack!Alignment = 1
    BY <1>2 DEF Stack!Size, Stack!Alignment
  <2>2. Stack!BufferSize(1) = IF Word = 4 THEN 8 ELSE 16
    BY <1>1, <2>1 DEF Stack!BufferSize, Stack!OrBelow, Stack!RoundDown
  <2>3. cap = IF Word = 4 THEN 1 ELSE 2
    BY <1>1, <2>1, <2>2 DEF Stack!CapacityOffset, Stack!RoundDown
  <2> QED
    BY <1>1, <2>1, <2>2, <2>3 DEF Stack!CapacityAddress, Stack!RoundUp, Stack!RoundDown
<1>3. CASE layout = <<8, 8>>
  <2>1. Stack!Size = 8 /\ Stack!Alignment = 8
    BY <1>3 DEF Stack!Size, Stack!Alignment
  <2>2. Stack!BufferSize(1) = 16
    BY <1>1, <2>1 DEF Stack!BufferSize, Stack!OrBelow, Stack!RoundDown
  <2>3. cap = 1
    BY <1>1, <2>1, <2>2 DEF Stack!CapacityOffset, Stack!RoundDown
  <2> QED
    BY <1>1, <2>1, <2>2, <2>3 DEF Stack!CapacityAddress, Stack!RoundUp, Stack!RoundDown
<1>4. CASE layout = <<16, 16>>
  <2>1. Stack!Size = 16 /\ Stack!Alignment = 16
    BY <1>4 DEF Stack!Size, Stack!Alignment
  <2>2. Stack!BufferSize(1) = 32
    BY <1>1, <2>1 DEF Stack!BufferSize, Stack!OrBelow, Stack!RoundDown
  <2>3. cap = 1
    BY <1>1, <2>1, <2>2 DEF Stack!CapacityOffset, Stack!RoundDown
  <2> QED
    BY <1>1, <2>1, <2>2, <2>3 DEF Stack!CapacityAddress, Stack!RoundUp, Stack!RoundDown
<1> QED
  BY <1>2, <1>3, <1>4 DEF MCLayouts

\* A larger buffer has room for as many elements as the one before it, with the
\* word behind; and for more, if as many were asked for as reallocate() asks for.
LEMMA GrowthRoom ==
    ASSUME layout \in MCLayouts, NEW cap \in Nat \ {0}, NEW n \in Nat, n >= cap,
           NEW larger, larger = Stack!Capacities(cap, n)
    PROVE  /\ larger.bytes \in Nat /\ larger.capacity \in Nat
           /\ larger.capacity >= cap
           /\ n >= Stack!BufferSize(cap) \div Stack!Size + cap => larger.capacity > cap
           /\ Stack!CapacityAddress(larger.capacity) \in Nat
           /\ Stack!CapacityAddress(larger.capacity) + Word <= larger.bytes
<1> DEFINE new == IF n > 2 * cap THEN n ELSE 2 * cap
           bytes == new * Stack!Size + (Stack!BufferSize(cap) - cap * Stack!Size)
           most == Stack!CapacityOffset(bytes) \div Stack!Size
<1>1. larger.bytes = bytes /\ larger.capacity = most
  BY DEF Stack!Capacities
<1>2. new \in Nat /\ new >= 2 * cap /\ new >= n
  OBVIOUS
<1> HIDE DEF new
<1> SUFFICES
       /\ bytes \in Nat /\ most \in Nat /\ most >= cap
       /\ n >= Stack!BufferSize(cap) \div Stack!Size + cap => most > cap
       /\ Stack!CapacityAddress(most) \in Nat
       /\ Stack!CapacityAddress(most) + Word <= bytes
  BY <1>1
<1> USE DEF Stack!BufferSize, Stack!CapacityAddress, Stack!CapacityOffset, Stack!OrBelow,
            Stack!RoundUp, Stack!RoundDown
<1>3. Word = 4 \/ Word = 8
  BY ContainersAssumption
<1>4. CASE layout = <<3, 1>>
  <2>1. Stack!Size = 3 /\ Stack!Alignment = 1
    BY <1>4 DEF Stack!Size, Stack!Alignment
  <2>2. most = Stack!CapacityOffset(bytes) \div 3
    BY <2>1
  <2>3. bytes = new * 3 + (Stack!BufferSize(cap) - cap * 3)
    BY <2>1
  <2> HIDE DEF most, bytes
  <2> QED
    BY <1>2, <1>3, <2>1, <2>2, <2>3, SMTT(30)
<1>5. CASE layout = <<8, 8>>
  <2>1. Stack!Size = 8 /\ Stack!Alignment = 8
    BY <1>5 DEF Stack!Size, Stack!Alignment
  <2>2. most = Stack!CapacityOffset(bytes) \div 8
    BY <2>1
  <2>3. bytes = new * 8 + (Stack!BufferSize(cap) - cap * 8)
    BY <2>1
  <2> HIDE DEF most, bytes
  <2> QED
    BY <1>2, <1>3, <2>1, <2>2, <2>3, SMTT(30)
<1>6. CASE layout = <<16, 16>>
  <2>1. Stack!Size = 16 /\ Stack!Alignment = 16
    BY <1>6 DEF Stack!Size, Stack!Alignment
  <2>2. most = Stack!CapacityOffset(bytes) \div 16
    BY <2>1
  <2>3. bytes = new * 16 + (Stack!BufferSize(cap) - cap * 16)
    BY <2>1
  <2> HIDE DEF most, bytes
  <2> QED
    BY <1>2, <1>3, <2>1, <2>2, <2>3, SMTT(30)
<1> QED
  BY <1>4, <1>5, <1>6 DEF MCLayouts

-----------------------------------------------------------------------------
(* Stacks: who has a buffer, and what is in it.                            *)

Addresses == [n \in Nat |-> Stack!CapacityAddress(n)]

\* A buffer with the elements p and room for l more, and the capacity where a
\* stack looks for it.
Filled(where, b, l, p) ==
    /\ b.values = p /\ b.capacity = Len(p) + l /\ b.word = where[Len(p) + l]
    /\ b \in [bytes : Nat, values : Seq(Values), capacity : Nat \ {0}, word : Nat]
    /\ b.word + Word <= b.bytes

\* n and l are the words of a stack of the elements p.
Held(where, bufs, n, l, p) ==
    \/ n = Stack!NullPointer /\ p = <<>>
    \/ /\ n \in [buffer : Stack!Buffers, at : Nat]
       /\ l \in Nat /\ p \in Seq(Values) /\ n.at = Len(p)
       /\ Filled(where, bufs[n.buffer], l, p)

\* Two pointers do not refer to one buffer.
Separate(n, m) ==
    n = Stack!NullPointer \/ m = Stack!NullPointer \/ n.buffer # m.buffer

StackInv ==
    /\ layout \in MCLayouts
    /\ \E S : buffers \in [Stack!Buffers -> S]
    /\ object \in [Stacks -> BOOLEAN]
    /\ \E S : next \in [Stacks -> S] /\ left \in [Stacks -> S] /\ pushed \in [Stacks -> S]
    /\ \A s \in Stacks :
          /\ Held(Addresses, buffers, next[s], left[s], pushed[s])
          /\ Separate(next[s], loose.next)
          /\ ~ object[s] => next[s] = Stack!NullPointer
    /\ \A s, t \in Stacks : s # t => Separate(next[s], next[t])
    /\ Held(Addresses, buffers, loose.next, loose.left, loose.pushed)
    /\ loose = Stack!Nothing \/ loose.next # Stack!NullPointer

LEMMA Pointers ==
    /\ \A n \in [buffer : Stack!Buffers, at : Nat] : n # Stack!NullPointer
    /\ \A b \in Stack!Buffers : b # None
    /\ Stack!NullPointer.buffer = None
  BY ContainersAssumption DEF Stack!NullPointer, Stack!Buffers

LEMMA StackInit == Stack!Init => StackInv
  <1> SUFFICES ASSUME Stack!Init PROVE StackInv
    OBVIOUS
  <1>1. /\ layout \in MCLayouts
        /\ buffers = [b \in Stack!Buffers |-> None]
        /\ object = [s \in Stacks |-> FALSE]
        /\ next = [s \in Stacks |-> Stack!NullPointer]
        /\ left = [s \in Stacks |-> 0]
        /\ loose = Stack!Nothing
        /\ pushed = [s \in Stacks |-> <<>>]
    BY DEF Stack!Init
  <1>2. buffers \in [Stack!Buffers -> {None}]
    BY <1>1
  <1>3. next \in [Stacks -> {Stack!NullPointer, 0, <<>>}]
    BY <1>1
  <1>4. left \in [Stacks -> {Stack!NullPointer, 0, <<>>}]
    BY <1>1
  <1>5. pushed \in [Stacks -> {Stack!NullPointer, 0, <<>>}]
    BY <1>1
  <1>6. /\ loose.next = Stack!NullPointer /\ loose.left = 0 /\ loose.pushed = <<>>
    BY <1>1 DEF Stack!Nothing
  <1>7. Held(Addresses, buffers, loose.next, loose.left, loose.pushed)
    BY <1>6 DEF Held
  <1>8. ASSUME NEW s \in Stacks
        PROVE  /\ Held(Addresses, buffers, next[s], left[s], pushed[s])
               /\ next[s] = Stack!NullPointer
    BY <1>1 DEF Held
  <1>9. \E S : buffers \in [Stack!Buffers -> S]
    BY <1>2
  <1>10. \E S : next \in [Stacks -> S] /\ left \in [Stacks -> S] /\ pushed \in [Stacks -> S]
    BY <1>3, <1>4, <1>5
  <1>11. object \in [Stacks -> BOOLEAN]
    BY <1>1
  <1> QED
    BY <1>1, <1>6, <1>7, <1>8, <1>9, <1>10, <1>11 DEF StackInv, Separate

\* What a stack in use finds.
LEMMA InUse ==
    ASSUME StackInv, NEW s \in Stacks, Stack!Usable(s)
    PROVE  LET b == buffers[next[s].buffer]
           IN  /\ next[s] \in [buffer : Stack!Buffers, at : Nat]
               /\ left[s] \in Nat /\ pushed[s] \in Seq(Values)
               /\ next[s].at = Len(pushed[s])
               /\ Filled(Addresses, b, left[s], pushed[s])
               /\ Stack!BufferOf(s) = b /\ b # None
               /\ Stack!Capacity(s) = Len(pushed[s]) + left[s]
               /\ Stack!Capacity(s) \in Nat \ {0}
               /\ Stack!SizeOf(s) = Len(pushed[s])
               /\ Stack!Elements(s) = pushed[s]
  <1> DEFINE b == buffers[next[s].buffer]
  <1>1. /\ next[s] \in [buffer : Stack!Buffers, at : Nat]
        /\ left[s] \in Nat /\ pushed[s] \in Seq(Values)
        /\ next[s].at = Len(pushed[s])
        /\ Filled(Addresses, b, left[s], pushed[s])
    BY DEF StackInv, Held, Stack!Usable
  <1>2. Len(pushed[s]) \in Nat
    BY <1>1, LenProperties
  <1>3. Stack!BufferOf(s) = b
    BY DEF Stack!BufferOf
  <1>4. b # None
    BY <1>1, ContainersAssumption DEF Filled
  <1>5. /\ b.capacity = Len(pushed[s]) + left[s] /\ b.capacity \in Nat \ {0}
        /\ b.values = pushed[s]
        /\ b.word = Stack!CapacityAddress(Len(pushed[s]) + left[s])
    BY <1>1, <1>2 DEF Filled, Addresses
  <1>6. Stack!Capacity(s) = Len(pushed[s]) + left[s]
    BY <1>1, <1>3, <1>5 DEF Stack!Capacity
  <1>7. Stack!SizeOf(s) = Len(pushed[s])
    BY <1>1, <1>2, <1>6 DEF Stack!SizeOf
  <1>8. Stack!Elements(s) = pushed[s]
    <2>1. Stack!Elements(s) = SubSeq(pushed[s], 1, Len(pushed[s]))
      <3>1. next[s].at - Stack!SizeOf(s) + 1 = 1
        BY <1>1, <1>2, <1>7
      <3> QED
        BY <1>1, <1>3, <1>5, <3>1 DEF Stack!Elements
    <2> QED
      BY <1>1, <2>1, SubSeqFull
  <1> QED
    BY <1>1, <1>3, <1>4, <1>5, <1>6, <1>7, <1>8

\* A new buffer holds what it was made for.
LEMMA Filling ==
    ASSUME NEW p \in Seq(Values), NEW l \in Nat, NEW m \in Nat, Len(p) + l # 0,
           Stack!CapacityAddress(Len(p) + l) \in Nat,
           Stack!CapacityAddress(Len(p) + l) + Word <= m
    PROVE  Filled(Addresses, Stack!Buffer(m, p, Len(p) + l, l), l, p)
  <1>1. Len(p) \in Nat /\ Len(p) + l \in Nat \ {0}
    BY LenProperties
  <1>2. Addresses[Len(p) + l] = Stack!CapacityAddress(Len(p) + l)
    BY <1>1 DEF Addresses
  <1> DEFINE b == Stack!Buffer(m, p, Len(p) + l, l)
  <1>3. b = [bytes |-> m, values |-> p, capacity |-> Len(p) + l,
             word |-> Stack!CapacityAddress(Len(p) + l)]
    BY DEF Stack!Buffer
  <1> QED
    BY <1>1, <1>2, <1>3 DEF Filled

LEMMA StillHeld ==
    ASSUME NEW where, NEW bufs, NEW others, NEW n, NEW l, NEW p,
           Held(where, bufs, n, l, p),
           n # Stack!NullPointer => others[n.buffer] = bufs[n.buffer]
    PROVE  Held(where, others, n, l, p)
  BY Pointers DEF Held

\* Only one stack changes, and no other refers to its buffer.
LEMMA OneStack ==
    ASSUME StackInv, NEW s \in Stacks, NEW b \in Stack!Buffers, NEW l \in Nat,
           NEW p \in Seq(Values),
           \A t \in Stacks : t # s /\ next[t] # Stack!NullPointer => next[t].buffer # b,
           loose.next # Stack!NullPointer => loose.next.buffer # b,
           \E S : buffers' \in [Stack!Buffers -> S],
           \A c \in Stack!Buffers : c # b /\ c # next[s].buffer => buffers'[c] = buffers[c],
           Filled(Addresses, buffers'[b], l, p),
           next' = [next EXCEPT ![s] = [buffer |-> b, at |-> Len(p)]],
           left' = [left EXCEPT ![s] = l],
           pushed' = [pushed EXCEPT ![s] = p],
           object' = [object EXCEPT ![s] = TRUE],
           layout' = layout, loose' = loose
    PROVE  StackInv'
  <1> DEFINE n == [buffer |-> b, at |-> Len(p)]
  <1>1. Addresses' = Addresses
    BY DEF Addresses, Stack!CapacityAddress, Stack!RoundUp, Stack!RoundDown, Stack!Size
  <1>2. PICK S : next \in [Stacks -> S] /\ left \in [Stacks -> S] /\ pushed \in [Stacks -> S]
    BY DEF StackInv
  <1>3. \A t \in Stacks :
           /\ next'[t] = IF t = s THEN n ELSE next[t]
           /\ left'[t] = IF t = s THEN l ELSE left[t]
           /\ pushed'[t] = IF t = s THEN p ELSE pushed[t]
    BY <1>2
  <1>4. n \in [buffer : Stack!Buffers, at : Nat] /\ n.buffer = b /\ n.at = Len(p)
    BY LenProperties
  <1>5. n # Stack!NullPointer
    BY <1>4, Pointers
  <1> HIDE DEF n
  <1>6. Held(Addresses, buffers', n, l, p)
    BY <1>4 DEF Held
  <1>7. ASSUME NEW t \in Stacks, t # s
        PROVE  Held(Addresses, buffers', next[t], left[t], pushed[t])
    <2>1. Held(Addresses, buffers, next[t], left[t], pushed[t]) /\ Separate(next[t], next[s])
      BY <1>7 DEF StackInv
    <2>2. CASE next[t] = Stack!NullPointer
      BY <2>1, <2>2, StillHeld
    <2>3. CASE next[t] # Stack!NullPointer
      <3>1. next[t].buffer \in Stack!Buffers /\ next[t].buffer # b
        BY <1>7, <2>1, <2>3 DEF Held
      <3>2. next[t].buffer # next[s].buffer
        BY <2>1, <2>3, <3>1, Pointers DEF Separate
      <3>3. buffers'[next[t].buffer] = buffers[next[t].buffer]
        BY <3>1, <3>2
      <3> QED
        BY <2>1, <3>3, StillHeld
    <2> QED
      BY <2>2, <2>3
  <1>8. Held(Addresses, buffers', loose.next, loose.left, loose.pushed)
    <2>1. /\ Held(Addresses, buffers, loose.next, loose.left, loose.pushed)
          /\ Separate(next[s], loose.next)
      BY DEF StackInv
    <2>2. CASE loose.next = Stack!NullPointer
      BY <2>1, <2>2, StillHeld
    <2>3. CASE loose.next # Stack!NullPointer
      <3>1. loose.next.buffer \in Stack!Buffers /\ loose.next.buffer # b
        BY <2>1, <2>3 DEF Held
      <3>2. loose.next.buffer # next[s].buffer
        BY <2>1, <2>3, <3>1, Pointers DEF Separate
      <3>3. buffers'[loose.next.buffer] = buffers[loose.next.buffer]
        BY <3>1, <3>2
      <3> QED
        BY <2>1, <3>3, StillHeld
    <2> QED
      BY <2>2, <2>3
  <1>9. Held(Addresses', buffers', loose'.next, loose'.left, loose'.pushed)
    BY <1>1, <1>8
  <1>10. ASSUME NEW t \in Stacks
         PROVE  /\ Held(Addresses', buffers', next'[t], left'[t], pushed'[t])
                /\ Separate(next'[t], loose'.next)
                /\ ~ object'[t] => next'[t] = Stack!NullPointer
    <2>1. Held(Addresses', buffers', next'[t], left'[t], pushed'[t])
      BY <1>1, <1>3, <1>6, <1>7
    <2>2. Separate(next'[t], loose'.next)
      BY <1>3, <1>4 DEF Separate, StackInv
    <2>3. ~ object'[t] => next'[t] = Stack!NullPointer
      BY <1>3 DEF StackInv
    <2> QED
      BY <2>1, <2>2, <2>3
  <1>11. \A t, u \in Stacks : t # u => Separate(next'[t], next'[u])
    BY <1>3, <1>4 DEF StackInv, Separate
  <1>12. \E T : next' \in [Stacks -> T] /\ left' \in [Stacks -> T] /\ pushed' \in [Stacks -> T]
    <2>1. /\ next' \in [Stacks -> S \union {n, l, p}]
          /\ left' \in [Stacks -> S \union {n, l, p}]
          /\ pushed' \in [Stacks -> S \union {n, l, p}]
      BY <1>2 DEF n
    <2> QED
      BY <2>1
  <1>13. object' \in [Stacks -> BOOLEAN]
    BY DEF StackInv
  <1>14. layout' \in MCLayouts /\ (loose' = Stack!Nothing \/ loose'.next # Stack!NullPointer)
    BY DEF StackInv
  <1> QED
    BY <1>9, <1>10, <1>11, <1>12, <1>13, <1>14 DEF StackInv

\* The words of stacks pass from one to another, and a buffer that changes is
\* nobody's then.
LEMMA Passing ==
    ASSUME StackInv, layout' = layout,
           \E S : buffers' \in [Stack!Buffers -> S],
           object' \in [Stacks -> BOOLEAN],
           \E S : next' \in [Stacks -> S] /\ left' \in [Stacks -> S] /\ pushed' \in [Stacks -> S],
           \A s \in Stacks :
              /\ Held(Addresses, buffers, next'[s], left'[s], pushed'[s])
              /\ next'[s] # Stack!NullPointer =>
                    buffers'[next'[s].buffer] = buffers[next'[s].buffer]
              /\ Separate(next'[s], loose'.next)
              /\ ~ object'[s] => next'[s] = Stack!NullPointer,
           \A s, t \in Stacks : s # t => Separate(next'[s], next'[t]),
           Held(Addresses, buffers, loose'.next, loose'.left, loose'.pushed),
           loose'.next # Stack!NullPointer =>
              buffers'[loose'.next.buffer] = buffers[loose'.next.buffer],
           loose' = Stack!Nothing \/ loose'.next # Stack!NullPointer
    PROVE  StackInv'
  <1>1. Addresses' = Addresses
    BY DEF Addresses, Stack!CapacityAddress, Stack!RoundUp, Stack!RoundDown, Stack!Size
  <1>2. \A s \in Stacks : Held(Addresses', buffers', next'[s], left'[s], pushed'[s])
    BY <1>1, StillHeld
  <1>3. Held(Addresses', buffers', loose'.next, loose'.left, loose'.pushed)
    BY <1>1, StillHeld
  <1>4. layout' \in MCLayouts
    BY DEF StackInv
  <1>5. \A s \in Stacks :
           /\ Held(Addresses', buffers', next'[s], left'[s], pushed'[s])
           /\ Separate(next'[s], loose'.next)
           /\ ~ object'[s] => next'[s] = Stack!NullPointer
    BY <1>2
  <1> QED
    BY <1>3, <1>4, <1>5, Zenon DEF StackInv

LEMMA SeparateBoth == \A n, m : Separate(n, m) <=> Separate(m, n)
  BY DEF Separate

\* operator new returns a buffer that no other stack has.
LEMMA FreshBuffer ==
    ASSUME StackInv, NEW s \in Stacks, Stack!Unused(s) # {}
    PROVE  /\ Stack!Fresh(s) \in Stack!Buffers
           /\ \A t \in Stacks : t # s /\ next[t] # Stack!NullPointer =>
                 next[t].buffer # Stack!Fresh(s)
           /\ loose.next # Stack!NullPointer => loose.next.buffer # Stack!Fresh(s)
  <1>1. Stack!Unused(s) \subseteq 0 .. MaxBuffers
    BY ContainersAssumption DEF Stack!Unused, Stack!Buffers
  <1>2. PICK k \in Stack!Unused(s) : \A j \in Stack!Unused(s) : k <= j
    BY <1>1, Least, ContainersAssumption
  <1>3. Stack!Fresh(s) \in Stack!Unused(s)
    BY <1>2, Zenon DEF Stack!Fresh, Stack!Min
  <1>4. /\ Stack!Fresh(s) \in Stack!Buffers
        /\ Stack!Fresh(s) = next[s].buffer \/ buffers[Stack!Fresh(s)] = None
    BY <1>3 DEF Stack!Unused, Stack!Without
  <1>5. ASSUME NEW n, NEW l, NEW p, Held(Addresses, buffers, n, l, p),
               n # Stack!NullPointer, Separate(n, next[s])
        PROVE  n.buffer # Stack!Fresh(s)
    <2>1. buffers[n.buffer] # None /\ n.buffer \in Stack!Buffers
      BY <1>5, ContainersAssumption DEF Held, Filled
    <2>2. n.buffer # next[s].buffer
      BY <1>5, <2>1, Pointers DEF Separate
    <2> QED
      BY <1>4, <2>1, <2>2
  <1>6. \A t \in Stacks : t # s => Separate(next[t], next[s])
    BY DEF StackInv
  <1>7. Separate(loose.next, next[s])
    BY SeparateBoth DEF StackInv
  <1> QED
    BY <1>4, <1>5, <1>6, <1>7 DEF StackInv

LEMMA WithoutIs ==
    ASSUME StackInv, NEW s \in Stacks
    PROVE  /\ \E S : Stack!Without(s) \in [Stack!Buffers -> S]
           /\ \A c \in Stack!Buffers : c # next[s].buffer => Stack!Without(s)[c] = buffers[c]
  <1>1. PICK S : buffers \in [Stack!Buffers -> S]
    BY DEF StackInv
  <1>2. Stack!Without(s) \in [Stack!Buffers -> S \union {None}]
    BY <1>1 DEF Stack!Without
  <1> QED
    BY <1>2 DEF Stack!Without

-----------------------------------------------------------------------------
(* Stacks: every call keeps that.                                          *)

LEMMA ConstructKeeps ==
    ASSUME StackInv, NEW s \in Stacks, Stack!Construct(s)
    PROVE  StackInv'
  <1> DEFINE cap == Stack!CapacityOffset(Stack!BufferSize(1)) \div Stack!Size
             buf == Stack!Buffer(Stack!BufferSize(1), <<>>, cap, cap)
             b == Stack!Fresh(s)
  <1>1. /\ Stack!Unused(s) # {}
        /\ ~ object[s]
        /\ object' = [object EXCEPT ![s] = TRUE]
        /\ buffers' = [buffers EXCEPT ![b] = buf]
        /\ next' = [next EXCEPT ![s] = Stack!Start(b)]
        /\ left' = [left EXCEPT ![s] = cap]
        /\ layout' = layout /\ loose' = loose /\ pushed' = pushed
    BY DEF Stack!Construct
  <1>2. layout \in MCLayouts
    BY DEF StackInv
  <1>3. /\ cap \in Nat \ {0}
        /\ Stack!CapacityAddress(cap) \in Nat
        /\ Stack!CapacityAddress(cap) + Word <= Stack!BufferSize(1)
    <2> HIDE DEF cap
    <2>1. cap = Stack!CapacityOffset(Stack!BufferSize(1)) \div Stack!Size
      BY DEF cap
    <2> QED
      BY <1>2, <2>1, FirstRoom
  <1>4. Stack!BufferSize(1) \in Nat
    BY <1>2, BufferRoom
  <1>5. <<>> \in Seq(Values) /\ Len(<<>>) = 0
    OBVIOUS
  <1>6. Filled(Addresses, buf, cap, <<>>)
    <2> HIDE DEF cap
    <2>1. 0 + cap = cap
      BY <1>3
    <2> QED
      BY <1>3, <1>4, <1>5, <2>1, Filling
  <1>7. b \in Stack!Buffers
    BY <1>1, FreshBuffer
  <1>8. PICK S : buffers \in [Stack!Buffers -> S]
    BY DEF StackInv
  <1>9. next[s] = Stack!NullPointer /\ pushed[s] = <<>>
    BY <1>1, <1>5, Pointers DEF StackInv, Held
  <1>10. pushed' = [pushed EXCEPT ![s] = <<>>]
    BY <1>1, <1>9 DEF StackInv
  <1>11. next' = [next EXCEPT ![s] = [buffer |-> b, at |-> Len(<<>>)]]
    BY <1>1, <1>5 DEF Stack!Start
  <1> HIDE DEF buf, b, cap
  <1>12. /\ \E T : buffers' \in [Stack!Buffers -> T]
         /\ buffers'[b] = buf
         /\ \A c \in Stack!Buffers : c # b /\ c # next[s].buffer => buffers'[c] = buffers[c]
    <2>1. buffers' \in [Stack!Buffers -> S \union {buf}]
      BY <1>1, <1>8
    <2> QED
      BY <1>1, <1>7, <1>8, <2>1
  <1>13. /\ \A t \in Stacks : t # s /\ next[t] # Stack!NullPointer => next[t].buffer # b
         /\ loose.next # Stack!NullPointer => loose.next.buffer # b
    BY <1>1, FreshBuffer DEF b
  <1> QED
    BY <1>1, <1>3, <1>5, <1>6, <1>7, <1>10, <1>11, <1>12, <1>13, OneStack

LEMMA CopyKeeps ==
    ASSUME StackInv, NEW s \in Stacks, NEW o \in Stacks, s # o,
           Stack!Usable(o), Stack!CopyTo(s, o)
    PROVE  StackInv'
  <1> DEFINE p == pushed[o]
             cap == Stack!Capacity(o)
             buf == Stack!Buffer(Stack!BufferSize(cap), Stack!Elements(o), cap, left[o])
             b == Stack!Fresh(s)
  <1>1. /\ Stack!Unused(s) # {}
        /\ object' = [object EXCEPT ![s] = TRUE]
        /\ buffers' = [Stack!Without(s) EXCEPT ![b] = buf]
        /\ next' = [next EXCEPT ![s] = [buffer |-> b, at |-> Len(Stack!Elements(o))]]
        /\ left' = [left EXCEPT ![s] = left[o]]
        /\ pushed' = [pushed EXCEPT ![s] = pushed[o]]
        /\ layout' = layout /\ loose' = loose
    BY DEF Stack!CopyTo
  <1>2. /\ left[o] \in Nat /\ p \in Seq(Values)
        /\ cap = Len(p) + left[o] /\ cap \in Nat \ {0}
        /\ Stack!Elements(o) = p
    BY InUse
  <1>3. /\ Stack!BufferSize(cap) \in Nat /\ Stack!CapacityAddress(cap) \in Nat
        /\ Stack!CapacityAddress(cap) + Word <= Stack!BufferSize(cap)
    <2>1. layout \in MCLayouts
      BY DEF StackInv
    <2> HIDE DEF cap
    <2> QED
      BY <1>2, <2>1, BufferRoom
  <1>4. Filled(Addresses, buf, left[o], p)
    <2> HIDE DEF cap, p
    <2> QED
      BY <1>2, <1>3, Filling
  <1>5. /\ b \in Stack!Buffers
        /\ \A t \in Stacks : t # s /\ next[t] # Stack!NullPointer => next[t].buffer # b
        /\ loose.next # Stack!NullPointer => loose.next.buffer # b
    BY <1>1, FreshBuffer
  <1> HIDE DEF buf, b, cap
  <1>6. /\ \E S : buffers' \in [Stack!Buffers -> S]
        /\ buffers'[b] = buf
        /\ \A c \in Stack!Buffers : c # b /\ c # next[s].buffer => buffers'[c] = buffers[c]
    <2>1. PICK S : Stack!Without(s) \in [Stack!Buffers -> S]
      BY WithoutIs
    <2>2. buffers' \in [Stack!Buffers -> S \union {buf}]
      BY <1>1, <2>1
    <2> QED
      BY <1>1, <1>5, <2>1, <2>2, WithoutIs
  <1> QED
    BY <1>1, <1>2, <1>4, <1>5, <1>6, OneStack

\* What a buffer holds when its stack changes in place.
LEMMA InPlace ==
    ASSUME StackInv, NEW s \in Stacks, Stack!Usable(s), NEW buf, NEW l \in Nat,
           NEW p \in Seq(Values), Filled(Addresses, buf, l, p),
           buffers' = [buffers EXCEPT ![next[s].buffer] = buf],
           next' = [next EXCEPT ![s].at = Len(p)],
           left' = [left EXCEPT ![s] = l],
           pushed' = [pushed EXCEPT ![s] = p],
           object' = object, layout' = layout, loose' = loose
    PROVE  StackInv'
  <1> DEFINE b == next[s].buffer
  <1>1. /\ next[s] \in [buffer : Stack!Buffers, at : Nat] /\ object[s]
        /\ next[s] # Stack!NullPointer
    BY InUse DEF Stack!Usable
  <1>2. PICK S : buffers \in [Stack!Buffers -> S]
    BY DEF StackInv
  <1>3. PICK S2 : next \in [Stacks -> S2]
    BY DEF StackInv
  <1>4. next' = [next EXCEPT ![s] = [buffer |-> b, at |-> Len(p)]]
    <2>1. [next[s] EXCEPT !.at = Len(p)] = [buffer |-> b, at |-> Len(p)]
      BY <1>1
    <2> QED
      BY <1>3, <2>1
  <1>5. object' = [object EXCEPT ![s] = TRUE]
    BY <1>1 DEF StackInv
  <1>6. b \in Stack!Buffers
    BY <1>1
  <1>7. \A t \in Stacks : t # s /\ next[t] # Stack!NullPointer => next[t].buffer # b
    BY <1>1 DEF StackInv, Separate
  <1>8. loose.next # Stack!NullPointer => loose.next.buffer # b
    BY <1>1 DEF StackInv, Separate
  <1>9. /\ \E T : buffers' \in [Stack!Buffers -> T]
        /\ buffers'[b] = buf
        /\ \A c \in Stack!Buffers : c # b /\ c # next[s].buffer => buffers'[c] = buffers[c]
    <2>1. buffers' \in [Stack!Buffers -> S \union {buf}]
      BY <1>2
    <2> QED
      BY <1>2, <1>6, <2>1
  <1>10. Filled(Addresses, buffers'[b], l, p)
    BY <1>9
  <1>11. \A c \in Stack!Buffers : c # b /\ c # next[s].buffer => buffers'[c] = buffers[c]
    BY <1>9
  <1>12. \E T : buffers' \in [Stack!Buffers -> T]
    BY <1>9
  <1> HIDE DEF b
  <1> QED
    BY <1>4, <1>5, <1>6, <1>7, <1>8, <1>10, <1>11, <1>12, OneStack

\* reserve(n) keeps the elements and finds no less room than there was, and
\* more if as many were asked for as reallocate() asks for.
LEMMA GrownIs ==
    ASSUME StackInv, NEW s \in Stacks, Stack!Usable(s), NEW n \in Nat,
           NEW grown, grown = Stack!Grown(s, n)
    PROVE  /\ Filled(Addresses, grown.buffer, grown.left, pushed[s])
           /\ grown.left \in Nat
           /\ n >= Stack!BufferSize(Stack!Capacity(s)) \div Stack!Size + Stack!Capacity(s)
                 => grown.left > 0
  <1> DEFINE p == pushed[s]
             cap == Stack!Capacity(s)
             larger == Stack!Capacities(cap, n)
             spare == larger.capacity - Stack!SizeOf(s)
  <1>1. /\ left[s] \in Nat /\ p \in Seq(Values) /\ Len(p) \in Nat
        /\ cap = Len(p) + left[s] /\ cap \in Nat \ {0}
        /\ Stack!SizeOf(s) = Len(p) /\ Stack!Elements(s) = p
        /\ Filled(Addresses, Stack!BufferOf(s), left[s], p)
    <2>1. /\ left[s] \in Nat /\ p \in Seq(Values)
          /\ cap = Len(p) + left[s] /\ cap \in Nat \ {0}
          /\ Stack!SizeOf(s) = Len(p) /\ Stack!Elements(s) = p
          /\ Filled(Addresses, Stack!BufferOf(s), left[s], p)
      BY InUse
    <2> QED
      BY <2>1, LenProperties
  <1>2. layout \in MCLayouts
    BY DEF StackInv
  <1>3. CASE n < cap
    <2>1. grown = [buffer |-> Stack!BufferOf(s), left |-> left[s]]
      BY <1>3 DEF Stack!Grown
    <2>2. Stack!BufferSize(cap) \div Stack!Size \in Nat
      <3> HIDE DEF cap
      <3> QED
        BY <1>1, <1>2, BufferRoom
    <2>3. ~ (n >= Stack!BufferSize(cap) \div Stack!Size + cap)
      <3> HIDE DEF cap
      <3> QED
        BY <1>1, <1>3, <2>2
    <2> QED
      BY <1>1, <2>1, <2>3
  <1>4. CASE ~ (n < cap)
    <2>1. grown = [buffer |-> Stack!Buffer(larger.bytes, p, larger.capacity, spare),
                   left |-> spare]
      BY <1>1, <1>4 DEF Stack!Grown
    <2> HIDE DEF p
    <2>2. /\ larger.bytes \in Nat /\ larger.capacity \in Nat
          /\ larger.capacity >= cap
          /\ n >= Stack!BufferSize(cap) \div Stack!Size + cap => larger.capacity > cap
          /\ Stack!CapacityAddress(larger.capacity) \in Nat
          /\ Stack!CapacityAddress(larger.capacity) + Word <= larger.bytes
      <3> HIDE DEF cap
      <3>1. n >= cap
        BY <1>1, <1>4
      <3> QED
        BY <1>1, <1>2, <3>1, GrowthRoom
    <2> HIDE DEF larger, cap
    <2>3. /\ spare \in Nat /\ Len(p) + spare = larger.capacity /\ Len(p) + spare # 0
          /\ larger.capacity > cap => spare > 0
      <3>1. /\ Len(p) \in Nat /\ left[s] \in Nat /\ cap = Len(p) + left[s] /\ cap # 0
            /\ spare = larger.capacity - Len(p)
            /\ larger.capacity \in Nat /\ larger.capacity >= cap
        BY <1>1, <2>2
      <3> HIDE DEF spare
      <3> QED
        BY <3>1
    <2> HIDE DEF spare
    <2>4. Filled(Addresses, Stack!Buffer(larger.bytes, p, larger.capacity, spare), spare, p)
      BY <1>1, <2>2, <2>3, Filling
    <2> QED
      BY <2>1, <2>2, <2>3, <2>4 DEF p, cap
  <1> QED
    BY <1>3, <1>4

LEMMA ReserveKeeps ==
    ASSUME StackInv, NEW s \in Stacks, NEW n \in Nat, Stack!Reserve(s, n)
    PROVE  StackInv'
  <1> DEFINE p == pushed[s]
             grown == Stack!Grown(s, n)
  <1>1. /\ Stack!Usable(s)
        /\ buffers' = [buffers EXCEPT ![next[s].buffer] = grown.buffer]
        /\ next' = [next EXCEPT ![s].at = Stack!SizeOf(s)]
        /\ left' = [left EXCEPT ![s] = grown.left]
        /\ layout' = layout /\ object' = object /\ loose' = loose /\ pushed' = pushed
    BY DEF Stack!Reserve
  <1>2. p \in Seq(Values) /\ Stack!SizeOf(s) = Len(p)
    BY <1>1, InUse
  <1>3. Filled(Addresses, grown.buffer, grown.left, p) /\ grown.left \in Nat
    BY <1>1, GrownIs
  <1>4. pushed' = [pushed EXCEPT ![s] = p]
    BY <1>1 DEF StackInv
  <1> HIDE DEF p, grown
  <1>5. next' = [next EXCEPT ![s].at = Len(p)]
    BY <1>1, <1>2
  <1> QED
    BY <1>1, <1>2, <1>3, <1>4, <1>5, InPlace

\* Elements come and go, and the room changes by as many.
LEMMA Exchanged ==
    ASSUME NEW b, NEW l \in Nat, NEW p \in Seq(Values), Filled(Addresses, b, l, p),
           NEW m \in Nat, NEW q \in Seq(Values), Len(q) + m = Len(p) + l
    PROVE  Filled(Addresses, [b EXCEPT !.values = q], m, q)
  BY DEF Filled

LEMMA PushKeeps ==
    ASSUME StackInv, NEW s \in Stacks, NEW v \in Values, Stack!Push(s, v)
    PROVE  StackInv'
  <1> DEFINE p == pushed[s]
             room == IF left[s] = 0 THEN Stack!Reallocated(s)
                     ELSE [buffer |-> Stack!BufferOf(s), left |-> left[s]]
             q == Append(p, v)
             buf == [room.buffer EXCEPT !.values = q]
  <1>1. /\ Stack!Usable(s)
        /\ buffers' = [buffers EXCEPT ![next[s].buffer] =
                          [room.buffer EXCEPT !.values = Append(@, v)]]
        /\ next' = [next EXCEPT ![s].at = @ + 1]
        /\ left' = [left EXCEPT ![s] = room.left - 1]
        /\ pushed' = [pushed EXCEPT ![s] = Append(@, v)]
        /\ layout' = layout /\ object' = object /\ loose' = loose
    BY DEF Stack!Push
  <1>2. /\ next[s] \in [buffer : Stack!Buffers, at : Nat]
        /\ left[s] \in Nat /\ p \in Seq(Values) /\ next[s].at = Len(p)
        /\ Stack!Capacity(s) \in Nat \ {0}
        /\ Filled(Addresses, Stack!BufferOf(s), left[s], p)
    BY <1>1, InUse
  <1>3. /\ Filled(Addresses, room.buffer, room.left, p)
        /\ room.left \in Nat /\ room.left # 0
    <2>1. CASE left[s] # 0
      <3>1. room.buffer = Stack!BufferOf(s) /\ room.left = left[s]
        BY <2>1
      <3> QED
        BY <1>2, <2>1, <3>1
    <2>2. CASE left[s] = 0
      <3> DEFINE n == Stack!BufferSize(Stack!Capacity(s)) \div Stack!Size + Stack!Capacity(s)
      <3>1. room = Stack!Grown(s, n)
        BY <2>2 DEF Stack!Reallocated
      <3>2. n \in Nat /\ n >= n
        <4>1. layout \in MCLayouts
          BY DEF StackInv
        <4>2. \A cap \in Nat \ {0} : Stack!BufferSize(cap) \div Stack!Size \in Nat
          BY <4>1, BufferRoom
        <4>3. Stack!BufferSize(Stack!Capacity(s)) \div Stack!Size \in Nat
          BY <1>2, <4>2
        <4> QED
          BY <1>2, <4>3
      <3> HIDE DEF room
      <3>3. /\ Filled(Addresses, room.buffer, room.left, p) /\ room.left \in Nat
            /\ n >= n => room.left > 0
        BY <1>1, <3>1, <3>2, GrownIs
      <3> QED
        BY <3>2, <3>3
    <2> QED
      BY <2>1, <2>2
  <1> HIDE DEF room
  <1>4. q \in Seq(Values) /\ Len(p) \in Nat /\ Len(q) = Len(p) + 1
    BY <1>2, LenProperties, AppendProperties
  <1>5. room.left - 1 \in Nat /\ Len(q) + (room.left - 1) = Len(p) + room.left
    BY <1>3, <1>4
  <1>6. Filled(Addresses, buf, room.left - 1, q)
    <2> HIDE DEF p, q
    <2> QED
      BY <1>2, <1>3, <1>4, <1>5, Exchanged
  <1>7. buffers' = [buffers EXCEPT ![next[s].buffer] = buf]
    <2>1. room.buffer.values = p
      BY <1>3 DEF Filled
    <2>2. [room.buffer EXCEPT !.values = Append(@, v)] = buf
      <3>1. [room.buffer EXCEPT !.values = Append(@, v)]
               = [room.buffer EXCEPT !.values = Append(room.buffer.values, v)]
        OBVIOUS
      <3> QED
        BY <2>1, <3>1
    <2> QED
      BY <1>1, <2>2
  <1>8. next' = [next EXCEPT ![s].at = Len(q)]
    BY <1>1, <1>2, <1>4 DEF StackInv
  <1>9. pushed' = [pushed EXCEPT ![s] = q]
    BY <1>1
  <1> HIDE DEF q, buf
  <1> QED
    BY <1>1, <1>4, <1>5, <1>6, <1>7, <1>8, <1>9, InPlace

LEMMA PopKeeps ==
    ASSUME StackInv, NEW s \in Stacks, NEW n \in Nat, Stack!Pop(s, n)
    PROVE  StackInv'
  <1> DEFINE p == pushed[s]
             b == Stack!BufferOf(s)
             q == SubSeq(p, 1, Len(p) - n)
             buf == [b EXCEPT !.values = q]
  <1>1. /\ Stack!Usable(s) /\ Stack!SizeOf(s) >= n
        /\ buffers' = [buffers EXCEPT ![next[s].buffer].values =
                          SubSeq(@, 1, next[s].at - n)]
        /\ next' = [next EXCEPT ![s].at = @ - n]
        /\ left' = [left EXCEPT ![s] = @ + n]
        /\ pushed' = [pushed EXCEPT ![s] = SubSeq(@, 1, Len(@) - n)]
        /\ layout' = layout /\ object' = object /\ loose' = loose
    BY DEF Stack!Pop
  <1>2. /\ next[s] \in [buffer : Stack!Buffers, at : Nat]
        /\ left[s] \in Nat /\ p \in Seq(Values) /\ next[s].at = Len(p)
        /\ Stack!SizeOf(s) = Len(p) /\ b = buffers[next[s].buffer]
        /\ Filled(Addresses, b, left[s], p)
    BY <1>1, InUse
  <1>3. Len(p) \in Nat /\ Len(p) >= n /\ Len(p) - n \in Nat
    BY <1>1, <1>2, LenProperties
  <1>4. q \in Seq(Values) /\ Len(q) = Len(p) - n
    <2>1. \A i \in 1 .. Len(p) - n : p[i] \in Values
      BY <1>2, <1>3, ElementOfSeq
    <2>2. /\ q \in Seq(Values)
          /\ Len(q) = IF 1 <= Len(p) - n THEN (Len(p) - n) - 1 + 1 ELSE 0
      BY <1>3, <2>1, SubSeqProperties
    <2> QED
      BY <1>3, <2>2
  <1>5. left[s] + n \in Nat /\ Len(q) + (left[s] + n) = Len(p) + left[s]
    <2> HIDE DEF q
    <2> QED
      BY <1>2, <1>3, <1>4
  <1>6. Filled(Addresses, buf, left[s] + n, q)
    <2> HIDE DEF p, q, b
    <2> QED
      BY <1>2, <1>3, <1>4, <1>5, Exchanged
  <1>7. buffers' = [buffers EXCEPT ![next[s].buffer] = buf]
    <2>1. b.values = p
      BY <1>2 DEF Filled
    <2>2. buffers' = [buffers EXCEPT ![next[s].buffer] =
                        [b EXCEPT !.values = SubSeq(b.values, 1, next[s].at - n)]]
      BY <1>1, <1>2
    <2> QED
      BY <1>2, <2>1, <2>2
  <1>8. next' = [next EXCEPT ![s].at = Len(q)]
    <2> HIDE DEF q
    <2> QED
      BY <1>1, <1>2, <1>4 DEF StackInv
  <1>9. pushed' = [pushed EXCEPT ![s] = q] /\ left' = [left EXCEPT ![s] = left[s] + n]
    BY <1>1
  <1> HIDE DEF q, buf
  <1> QED
    BY <1>1, <1>4, <1>5, <1>6, <1>7, <1>8, <1>9, InPlace

\* The buffers without that of s, which nobody else has.
LEMMA WithoutKeeps ==
    ASSUME StackInv, NEW s \in Stacks
    PROVE  /\ \E S : Stack!Without(s) \in [Stack!Buffers -> S]
           /\ \A t \in Stacks : t # s /\ next[t] # Stack!NullPointer =>
                 Stack!Without(s)[next[t].buffer] = buffers[next[t].buffer]
           /\ loose.next # Stack!NullPointer =>
                 Stack!Without(s)[loose.next.buffer] = buffers[loose.next.buffer]
  <1>1. ASSUME NEW n, NEW l, NEW p, Held(Addresses, buffers, n, l, p),
               n # Stack!NullPointer, Separate(n, next[s])
        PROVE  Stack!Without(s)[n.buffer] = buffers[n.buffer]
    <2>1. n.buffer \in Stack!Buffers
      BY <1>1 DEF Held
    <2>2. n.buffer # next[s].buffer
      BY <1>1, <2>1, Pointers DEF Separate
    <2> QED
      BY <2>1, <2>2, WithoutIs
  <1>2. \A t \in Stacks : t # s => Separate(next[t], next[s])
    BY DEF StackInv
  <1>3. Separate(loose.next, next[s])
    BY SeparateBoth DEF StackInv
  <1> QED
    BY <1>1, <1>2, <1>3, WithoutIs DEF StackInv

\* What a moved-from, released or destroyed stack has.
LEMMA NullHeld == \A l : Held(Addresses, buffers, Stack!NullPointer, l, <<>>)
  BY DEF Held

LEMMA MoveKeeps ==
    ASSUME StackInv, NEW s \in Stacks, NEW o \in Stacks, s # o, object[o],
           Stack!MoveTo(s, o)
    PROVE  StackInv'
  <1>1. /\ object' = [object EXCEPT ![s] = TRUE]
        /\ buffers' = Stack!Without(s)
        /\ next' = [next EXCEPT ![s] = next[o], ![o] = Stack!NullPointer]
        /\ left' = [left EXCEPT ![s] = left[o], ![o] = 0]
        /\ pushed' = [pushed EXCEPT ![s] = pushed[o], ![o] = <<>>]
        /\ layout' = layout /\ loose' = loose
    BY DEF Stack!MoveTo
  <1>2. PICK S : next \in [Stacks -> S] /\ left \in [Stacks -> S] /\ pushed \in [Stacks -> S]
    BY DEF StackInv
  <1>3. \A t \in Stacks :
           /\ next'[t] = IF t = o THEN Stack!NullPointer ELSE IF t = s THEN next[o] ELSE next[t]
           /\ left'[t] = IF t = o THEN 0 ELSE IF t = s THEN left[o] ELSE left[t]
           /\ pushed'[t] = IF t = o THEN <<>> ELSE IF t = s THEN pushed[o] ELSE pushed[t]
    BY <1>1, <1>2
  <1>4. \E T : next' \in [Stacks -> T] /\ left' \in [Stacks -> T] /\ pushed' \in [Stacks -> T]
    <2>1. /\ next' \in [Stacks -> S \union {Stack!NullPointer, 0, <<>>}]
          /\ left' \in [Stacks -> S \union {Stack!NullPointer, 0, <<>>}]
          /\ pushed' \in [Stacks -> S \union {Stack!NullPointer, 0, <<>>}]
      BY <1>1, <1>2
    <2> QED
      BY <2>1
  <1>5. /\ \A t \in Stacks : Held(Addresses, buffers, next[t], left[t], pushed[t])
        /\ \A t \in Stacks : Separate(next[t], loose.next)
        /\ \A t \in Stacks : ~ object[t] => next[t] = Stack!NullPointer
        /\ \A t, u \in Stacks : t # u => Separate(next[t], next[u])
        /\ Held(Addresses, buffers, loose.next, loose.left, loose.pushed)
        /\ loose = Stack!Nothing \/ loose.next # Stack!NullPointer
        /\ object \in [Stacks -> BOOLEAN]
    BY DEF StackInv
  <1>6. object' \in [Stacks -> BOOLEAN]
    BY <1>1, <1>5
  <1>7. ASSUME NEW t \in Stacks
        PROVE  /\ Held(Addresses, buffers, next'[t], left'[t], pushed'[t])
               /\ next'[t] # Stack!NullPointer =>
                     buffers'[next'[t].buffer] = buffers[next'[t].buffer]
               /\ Separate(next'[t], loose'.next)
               /\ ~ object'[t] => next'[t] = Stack!NullPointer
    <2>1. \/ next'[t] = Stack!NullPointer /\ pushed'[t] = <<>>
          \/ \E u \in Stacks : /\ u # s /\ next'[t] = next[u]
                               /\ left'[t] = left[u] /\ pushed'[t] = pushed[u]
      BY <1>3
    <2>2. CASE next'[t] = Stack!NullPointer /\ pushed'[t] = <<>>
      <3>1. Held(Addresses, buffers, next'[t], left'[t], pushed'[t])
        BY <2>2, NullHeld
      <3>2. Separate(next'[t], loose'.next)
        BY <2>2 DEF Separate
      <3> QED
        BY <2>2, <3>1, <3>2
    <2>3. ASSUME NEW u \in Stacks, u # s, next'[t] = next[u],
                 left'[t] = left[u], pushed'[t] = pushed[u]
          PROVE  /\ Held(Addresses, buffers, next'[t], left'[t], pushed'[t])
                 /\ next'[t] # Stack!NullPointer =>
                       buffers'[next'[t].buffer] = buffers[next'[t].buffer]
                 /\ Separate(next'[t], loose'.next)
      <3>1. Held(Addresses, buffers, next'[t], left'[t], pushed'[t])
        BY <1>5, <2>3
      <3>2. next[u] # Stack!NullPointer => buffers'[next[u].buffer] = buffers[next[u].buffer]
        BY <1>1, <2>3, WithoutKeeps
      <3>3. Separate(next[u], loose.next) /\ loose' = loose
        BY <1>1, <1>5
      <3> QED
        BY <2>3, <3>1, <3>2, <3>3
    <2>4. ~ object'[t] => next'[t] = Stack!NullPointer
      BY <1>1, <1>3, <1>5
    <2> QED
      BY <2>1, <2>2, <2>3, <2>4
  <1>8. \A t, u \in Stacks : t # u => Separate(next'[t], next'[u])
    <2>1. \A n : Separate(Stack!NullPointer, n) /\ Separate(n, Stack!NullPointer)
      BY DEF Separate
    <2> QED
      BY <1>3, <1>5, <2>1
  <1>9. /\ Held(Addresses, buffers, loose'.next, loose'.left, loose'.pushed)
        /\ loose'.next # Stack!NullPointer =>
              buffers'[loose'.next.buffer] = buffers[loose'.next.buffer]
        /\ loose' = Stack!Nothing \/ loose'.next # Stack!NullPointer
    BY <1>1, <1>5, WithoutKeeps
  <1>10. \E T : buffers' \in [Stack!Buffers -> T]
    BY <1>1, WithoutKeeps
  <1> QED
    BY <1>1, <1>4, <1>6, <1>7, <1>8, <1>9, <1>10, Passing

LEMMA DestroyKeeps ==
    ASSUME StackInv, NEW s \in Stacks, Stack!Destroy(s)
    PROVE  StackInv'
  <1>1. /\ object' = [object EXCEPT ![s] = FALSE]
        /\ buffers' = Stack!Without(s)
        /\ next' = [next EXCEPT ![s] = Stack!NullPointer]
        /\ left' = [left EXCEPT ![s] = 0]
        /\ pushed' = [pushed EXCEPT ![s] = <<>>]
        /\ layout' = layout /\ loose' = loose
    BY DEF Stack!Destroy
  <1>2. PICK S : next \in [Stacks -> S] /\ left \in [Stacks -> S] /\ pushed \in [Stacks -> S]
    BY DEF StackInv
  <1>3. \A t \in Stacks :
           /\ next'[t] = IF t = s THEN Stack!NullPointer ELSE next[t]
           /\ left'[t] = IF t = s THEN 0 ELSE left[t]
           /\ pushed'[t] = IF t = s THEN <<>> ELSE pushed[t]
    BY <1>1, <1>2
  <1>4. \E T : next' \in [Stacks -> T] /\ left' \in [Stacks -> T] /\ pushed' \in [Stacks -> T]
    <2>1. /\ next' \in [Stacks -> S \union {Stack!NullPointer, 0, <<>>}]
          /\ left' \in [Stacks -> S \union {Stack!NullPointer, 0, <<>>}]
          /\ pushed' \in [Stacks -> S \union {Stack!NullPointer, 0, <<>>}]
      BY <1>1, <1>2
    <2> QED
      BY <2>1
  <1>5. /\ \A t \in Stacks : Held(Addresses, buffers, next[t], left[t], pushed[t])
        /\ \A t \in Stacks : Separate(next[t], loose.next)
        /\ \A t \in Stacks : ~ object[t] => next[t] = Stack!NullPointer
        /\ \A t, u \in Stacks : t # u => Separate(next[t], next[u])
        /\ Held(Addresses, buffers, loose.next, loose.left, loose.pushed)
        /\ loose = Stack!Nothing \/ loose.next # Stack!NullPointer
        /\ object \in [Stacks -> BOOLEAN]
    BY DEF StackInv
  <1>6. object' \in [Stacks -> BOOLEAN]
    BY <1>1, <1>5
  <1>7. \A n : Separate(Stack!NullPointer, n) /\ Separate(n, Stack!NullPointer)
    BY DEF Separate
  <1>8. ASSUME NEW t \in Stacks
        PROVE  /\ Held(Addresses, buffers, next'[t], left'[t], pushed'[t])
               /\ next'[t] # Stack!NullPointer =>
                     buffers'[next'[t].buffer] = buffers[next'[t].buffer]
               /\ Separate(next'[t], loose'.next)
               /\ ~ object'[t] => next'[t] = Stack!NullPointer
    <2>1. Held(Addresses, buffers, next'[t], left'[t], pushed'[t])
      BY <1>3, <1>5, NullHeld
    <2>2. next'[t] # Stack!NullPointer =>
             buffers'[next'[t].buffer] = buffers[next'[t].buffer]
      BY <1>1, <1>3, WithoutKeeps
    <2>3. Separate(next'[t], loose'.next)
      BY <1>1, <1>3, <1>5, <1>7
    <2>4. ~ object'[t] => next'[t] = Stack!NullPointer
      BY <1>1, <1>3, <1>5
    <2> QED
      BY <2>1, <2>2, <2>3, <2>4
  <1>9. \A t, u \in Stacks : t # u => Separate(next'[t], next'[u])
    BY <1>3, <1>5, <1>7
  <1>10. /\ Held(Addresses, buffers, loose'.next, loose'.left, loose'.pushed)
         /\ loose'.next # Stack!NullPointer =>
               buffers'[loose'.next.buffer] = buffers[loose'.next.buffer]
         /\ loose' = Stack!Nothing \/ loose'.next # Stack!NullPointer
    BY <1>1, <1>5, WithoutKeeps
  <1>11. \E T : buffers' \in [Stack!Buffers -> T]
    BY <1>1, WithoutKeeps
  <1> QED
    BY <1>1, <1>4, <1>6, <1>8, <1>9, <1>10, <1>11, Passing

LEMMA SwapKeeps ==
    ASSUME StackInv, NEW s \in Stacks, NEW o \in Stacks, Stack!Swap(s, o)
    PROVE  StackInv'
  <1>1. /\ object[s] /\ object[o]
        /\ next' = [next EXCEPT ![s] = next[o], ![o] = next[s]]
        /\ left' = [left EXCEPT ![s] = left[o], ![o] = left[s]]
        /\ pushed' = [pushed EXCEPT ![s] = pushed[o], ![o] = pushed[s]]
        /\ layout' = layout /\ loose' = loose /\ buffers' = buffers /\ object' = object
    BY DEF Stack!Swap
  <1>2. PICK S : next \in [Stacks -> S] /\ left \in [Stacks -> S] /\ pushed \in [Stacks -> S]
    BY DEF StackInv
  <1> DEFINE from(t) == IF t = o THEN s ELSE IF t = s THEN o ELSE t
  <1>3. /\ \A t \in Stacks :
              /\ from(t) \in Stacks /\ (object[t] <=> object[from(t)])
              /\ next'[t] = next[from(t)] /\ left'[t] = left[from(t)]
              /\ pushed'[t] = pushed[from(t)]
        /\ \A t, u \in Stacks : t # u => from(t) # from(u)
    BY <1>1, <1>2 DEF StackInv
  <1>4. \E T : next' \in [Stacks -> T] /\ left' \in [Stacks -> T] /\ pushed' \in [Stacks -> T]
    <2>1. next' \in [Stacks -> S] /\ left' \in [Stacks -> S] /\ pushed' \in [Stacks -> S]
      BY <1>1, <1>2
    <2> QED
      BY <2>1
  <1>5. /\ \A t \in Stacks : Held(Addresses, buffers, next[t], left[t], pushed[t])
        /\ \A t \in Stacks : Separate(next[t], loose.next)
        /\ \A t \in Stacks : ~ object[t] => next[t] = Stack!NullPointer
        /\ \A t, u \in Stacks : t # u => Separate(next[t], next[u])
        /\ Held(Addresses, buffers, loose.next, loose.left, loose.pushed)
        /\ loose = Stack!Nothing \/ loose.next # Stack!NullPointer
        /\ object \in [Stacks -> BOOLEAN]
        /\ \E T : buffers \in [Stack!Buffers -> T]
    BY DEF StackInv
  <1> HIDE DEF from
  <1>6. ASSUME NEW t \in Stacks
        PROVE  /\ Held(Addresses, buffers, next'[t], left'[t], pushed'[t])
               /\ next'[t] # Stack!NullPointer =>
                     buffers'[next'[t].buffer] = buffers[next'[t].buffer]
               /\ Separate(next'[t], loose'.next)
               /\ ~ object'[t] => next'[t] = Stack!NullPointer
    <2>1. PICK u \in Stacks : /\ object[t] <=> object[u]
                              /\ next'[t] = next[u] /\ left'[t] = left[u]
                              /\ pushed'[t] = pushed[u]
      BY <1>3
    <2>2. Held(Addresses, buffers, next[u], left[u], pushed[u]) /\ Separate(next[u], loose.next)
      BY <1>5
    <2>3. Held(Addresses, buffers, next'[t], left'[t], pushed'[t])
      BY <2>1, <2>2
    <2>4. /\ buffers' = buffers /\ loose' = loose
          /\ ~ object'[t] => next[u] = Stack!NullPointer
      BY <1>1, <1>5, <2>1
    <2> QED
      BY <2>1, <2>2, <2>3, <2>4
  <1>7. \A t, u \in Stacks : t # u => Separate(next'[t], next'[u])
    BY <1>3, <1>5
  <1>8. /\ object' \in [Stacks -> BOOLEAN]
        /\ \E T : buffers' \in [Stack!Buffers -> T]
        /\ Held(Addresses, buffers, loose'.next, loose'.left, loose'.pushed)
        /\ loose'.next # Stack!NullPointer =>
              buffers'[loose'.next.buffer] = buffers[loose'.next.buffer]
        /\ loose' = Stack!Nothing \/ loose'.next # Stack!NullPointer
    BY <1>1, <1>5
  <1> QED
    BY <1>1, <1>4, <1>6, <1>7, <1>8, Passing

LEMMA ReleaseKeeps ==
    ASSUME StackInv, NEW s \in Stacks, Stack!Release(s)
    PROVE  StackInv'
  <1>1. /\ Stack!Usable(s)
        /\ loose' = [next |-> next[s], left |-> left[s], pushed |-> pushed[s]]
        /\ next' = [next EXCEPT ![s] = Stack!NullPointer]
        /\ pushed' = [pushed EXCEPT ![s] = <<>>]
        /\ layout' = layout /\ buffers' = buffers /\ object' = object /\ left' = left
    BY DEF Stack!Release
  <1>2. PICK S : next \in [Stacks -> S] /\ left \in [Stacks -> S] /\ pushed \in [Stacks -> S]
    BY DEF StackInv
  <1>3. /\ \A t \in Stacks :
              /\ next'[t] = IF t = s THEN Stack!NullPointer ELSE next[t]
              /\ left'[t] = left[t]
              /\ pushed'[t] = IF t = s THEN <<>> ELSE pushed[t]
        /\ loose'.next = next[s] /\ loose'.left = left[s] /\ loose'.pushed = pushed[s]
    BY <1>1, <1>2
  <1>4. \E T : next' \in [Stacks -> T] /\ left' \in [Stacks -> T] /\ pushed' \in [Stacks -> T]
    <2>1. /\ next' \in [Stacks -> S \union {Stack!NullPointer, <<>>}]
          /\ left' \in [Stacks -> S \union {Stack!NullPointer, <<>>}]
          /\ pushed' \in [Stacks -> S \union {Stack!NullPointer, <<>>}]
      BY <1>1, <1>2
    <2> QED
      BY <2>1
  <1>5. /\ \A t \in Stacks : Held(Addresses, buffers, next[t], left[t], pushed[t])
        /\ \A t \in Stacks : ~ object[t] => next[t] = Stack!NullPointer
        /\ \A t, u \in Stacks : t # u => Separate(next[t], next[u])
        /\ object \in [Stacks -> BOOLEAN]
        /\ \E T : buffers \in [Stack!Buffers -> T]
    BY DEF StackInv
  <1>6. \A n : Separate(Stack!NullPointer, n) /\ Separate(n, Stack!NullPointer)
    BY DEF Separate
  <1>7. ASSUME NEW t \in Stacks
        PROVE  /\ Held(Addresses, buffers, next'[t], left'[t], pushed'[t])
               /\ next'[t] # Stack!NullPointer =>
                     buffers'[next'[t].buffer] = buffers[next'[t].buffer]
               /\ Separate(next'[t], loose'.next)
               /\ ~ object'[t] => next'[t] = Stack!NullPointer
    <2>1. Held(Addresses, buffers, next'[t], left'[t], pushed'[t])
      BY <1>3, <1>5, NullHeld
    <2>2. Separate(next'[t], loose'.next)
      BY <1>3, <1>5, <1>6
    <2>3. ~ object'[t] => next'[t] = Stack!NullPointer
      BY <1>1, <1>3, <1>5
    <2> QED
      BY <1>1, <2>1, <2>2, <2>3
  <1>8. \A t, u \in Stacks : t # u => Separate(next'[t], next'[u])
    BY <1>3, <1>5, <1>6
  <1>9. /\ object' \in [Stacks -> BOOLEAN]
        /\ \E T : buffers' \in [Stack!Buffers -> T]
        /\ Held(Addresses, buffers, loose'.next, loose'.left, loose'.pushed)
        /\ loose'.next # Stack!NullPointer =>
              buffers'[loose'.next.buffer] = buffers[loose'.next.buffer]
        /\ loose'.next # Stack!NullPointer
    <2>1. Held(Addresses, buffers, loose'.next, loose'.left, loose'.pushed)
      BY <1>3, <1>5
    <2> QED
      BY <1>1, <1>3, <1>5, <2>1 DEF Stack!Usable
  <1> QED
    BY <1>1, <1>4, <1>7, <1>8, <1>9, Passing

LEMMA ReconstituteKeeps ==
    ASSUME StackInv, NEW s \in Stacks, Stack!Reconstitute(s)
    PROVE  StackInv'
  <1>1. /\ ~ object[s] /\ loose # Stack!Nothing
        /\ object' = [object EXCEPT ![s] = TRUE]
        /\ next' = [next EXCEPT ![s] = loose.next]
        /\ left' = [left EXCEPT ![s] = loose.left]
        /\ pushed' = [pushed EXCEPT ![s] = loose.pushed]
        /\ loose' = Stack!Nothing
        /\ layout' = layout /\ buffers' = buffers
    BY DEF Stack!Reconstitute
  <1>2. PICK S : next \in [Stacks -> S] /\ left \in [Stacks -> S] /\ pushed \in [Stacks -> S]
    BY DEF StackInv
  <1>3. /\ \A t \in Stacks :
              /\ next'[t] = IF t = s THEN loose.next ELSE next[t]
              /\ left'[t] = IF t = s THEN loose.left ELSE left[t]
              /\ pushed'[t] = IF t = s THEN loose.pushed ELSE pushed[t]
        /\ loose'.next = Stack!NullPointer /\ loose'.pushed = <<>>
    <2>1. /\ Stack!Nothing.next = Stack!NullPointer /\ Stack!Nothing.pushed = <<>>
      BY DEF Stack!Nothing
    <2> QED
      BY <1>1, <1>2, <2>1
  <1>4. \E T : next' \in [Stacks -> T] /\ left' \in [Stacks -> T] /\ pushed' \in [Stacks -> T]
    <2>1. /\ next' \in [Stacks -> S \union {loose.next, loose.left, loose.pushed}]
          /\ left' \in [Stacks -> S \union {loose.next, loose.left, loose.pushed}]
          /\ pushed' \in [Stacks -> S \union {loose.next, loose.left, loose.pushed}]
      BY <1>1, <1>2
    <2> QED
      BY <2>1
  <1>5. /\ \A t \in Stacks : Held(Addresses, buffers, next[t], left[t], pushed[t])
        /\ \A t \in Stacks : ~ object[t] => next[t] = Stack!NullPointer
        /\ \A t \in Stacks : Separate(next[t], loose.next) /\ Separate(loose.next, next[t])
        /\ \A t, u \in Stacks : t # u => Separate(next[t], next[u])
        /\ Held(Addresses, buffers, loose.next, loose.left, loose.pushed)
        /\ object \in [Stacks -> BOOLEAN]
        /\ \E T : buffers \in [Stack!Buffers -> T]
    BY SeparateBoth DEF StackInv
  <1>6. \A n : Separate(Stack!NullPointer, n) /\ Separate(n, Stack!NullPointer)
    BY DEF Separate
  <1>7. ASSUME NEW t \in Stacks
        PROVE  /\ Held(Addresses, buffers, next'[t], left'[t], pushed'[t])
               /\ next'[t] # Stack!NullPointer =>
                     buffers'[next'[t].buffer] = buffers[next'[t].buffer]
               /\ Separate(next'[t], loose'.next)
               /\ ~ object'[t] => next'[t] = Stack!NullPointer
    <2>1. Held(Addresses, buffers, next'[t], left'[t], pushed'[t])
      BY <1>3, <1>5
    <2>2. Separate(next'[t], loose'.next)
      BY <1>3, <1>6
    <2>3. ~ object'[t] => next'[t] = Stack!NullPointer
      BY <1>1, <1>3, <1>5
    <2> QED
      BY <1>1, <2>1, <2>2, <2>3
  <1>8. \A t, u \in Stacks : t # u => Separate(next'[t], next'[u])
    BY <1>3, <1>5
  <1>9. /\ object' \in [Stacks -> BOOLEAN]
        /\ \E T : buffers' \in [Stack!Buffers -> T]
        /\ Held(Addresses, buffers, loose'.next, loose'.left, loose'.pushed)
        /\ loose'.next # Stack!NullPointer =>
              buffers'[loose'.next.buffer] = buffers[loose'.next.buffer]
        /\ loose' = Stack!Nothing
    <2>1. Held(Addresses, buffers, loose'.next, loose'.left, loose'.pushed)
      BY <1>3, NullHeld
    <2> QED
      BY <1>1, <1>3, <1>5, <2>1
  <1> QED
    BY <1>1, <1>4, <1>7, <1>8, <1>9, Passing

LEMMA StackStep == StackInv /\ [Stack!Next]_stackVars => StackInv'
  <1> SUFFICES ASSUME StackInv, [Stack!Next]_stackVars PROVE StackInv'
    OBVIOUS
  <1>1. CASE UNCHANGED stackVars
    <2>1. /\ layout' = layout /\ buffers' = buffers /\ object' = object /\ next' = next
          /\ left' = left /\ loose' = loose /\ pushed' = pushed
      BY <1>1 DEF stackVars
    <2>2. Addresses' = Addresses
      BY <2>1 DEF Addresses, Stack!CapacityAddress, Stack!RoundUp, Stack!RoundDown, Stack!Size
    <2> QED
      BY <2>1, <2>2 DEF StackInv
  <1>2. CASE Stack!Next
    <2>1. PICK s \in Stacks :
             \/ Stack!Construct(s) \/ Stack!Destroy(s) \/ Stack!Release(s)
             \/ Stack!Reconstitute(s)
             \/ \E other \in Stacks :
                   \/ Stack!CopyConstruct(s, other) \/ Stack!CopyAssign(s, other)
                   \/ Stack!MoveConstruct(s, other) \/ Stack!MoveAssign(s, other)
                   \/ Stack!Swap(s, other)
             \/ \E n \in 1 .. MaxReserve : Stack!Reserve(s, n) \/ Stack!Pop(s, n)
             \/ \E v \in Values : Stack!Push(s, v)
      BY <1>2 DEF Stack!Next
    <2>2. CASE \/ Stack!Construct(s) \/ Stack!Destroy(s) \/ Stack!Release(s)
               \/ Stack!Reconstitute(s)
      BY <2>2, ConstructKeeps, DestroyKeeps, ReleaseKeeps, ReconstituteKeeps
    <2>3. ASSUME NEW o \in Stacks,
                 \/ Stack!CopyConstruct(s, o) \/ Stack!CopyAssign(s, o)
                 \/ Stack!MoveConstruct(s, o) \/ Stack!MoveAssign(s, o)
                 \/ Stack!Swap(s, o)
          PROVE  StackInv'
      <3>1. CASE Stack!CopyConstruct(s, o) \/ Stack!CopyAssign(s, o)
        <4>1. s # o /\ Stack!Usable(o) /\ Stack!CopyTo(s, o)
          BY <3>1 DEF Stack!CopyConstruct, Stack!CopyAssign, Stack!Usable
        <4> QED
          BY <4>1, CopyKeeps
      <3>2. CASE Stack!MoveConstruct(s, o) \/ Stack!MoveAssign(s, o)
        <4>1. s # o /\ object[o] /\ Stack!MoveTo(s, o)
          BY <3>2 DEF Stack!MoveConstruct, Stack!MoveAssign
        <4> QED
          BY <4>1, MoveKeeps
      <3> QED
        BY <2>3, <3>1, <3>2, SwapKeeps
    <2>4. ASSUME NEW n \in 1 .. MaxReserve, Stack!Reserve(s, n) \/ Stack!Pop(s, n)
          PROVE  StackInv'
      <3>1. n \in Nat
        BY ContainersAssumption
      <3> QED
        BY <2>4, <3>1, ReserveKeeps, PopKeeps
    <2>5. ASSUME NEW v \in Values, Stack!Push(s, v)
          PROVE  StackInv'
      BY <2>5, PushKeeps
    <2> QED
      BY <2>1, <2>2, <2>3, <2>4, <2>5
  <1> QED
    BY <1>1, <1>2

\* What is read off the invariant.
LEMMA StackAnswers ==
    StackInv => Stack!WordsAgree /\ Stack!SoleOwner /\ Stack!ElementsKept
  <1> SUFFICES ASSUME StackInv
               PROVE  Stack!WordsAgree /\ Stack!SoleOwner /\ Stack!ElementsKept
    OBVIOUS
  <1>1. ASSUME NEW s \in Stacks, Stack!Usable(s)
        PROVE  LET b == Stack!BufferOf(s)
               IN  /\ Stack!Capacity(s) # None
                   /\ Stack!Capacity(s) * Stack!Size <= b.word /\ b.word + Word <= b.bytes
                   /\ left[s] >= 0 /\ Stack!SizeOf(s) = next[s].at
                   /\ Len(b.values) = next[s].at
    <2> DEFINE b == Stack!BufferOf(s)
               cap == Stack!Capacity(s)
    <2>1. /\ left[s] \in Nat /\ pushed[s] \in Seq(Values) /\ next[s].at = Len(pushed[s])
          /\ Filled(Addresses, b, left[s], pushed[s])
          /\ cap = Len(pushed[s]) + left[s] /\ cap \in Nat \ {0}
          /\ Stack!SizeOf(s) = Len(pushed[s])
      BY <1>1, InUse
    <2>2. cap * Stack!Size <= Stack!CapacityAddress(cap)
      <3>1. layout \in MCLayouts
        BY DEF StackInv
      <3> HIDE DEF cap
      <3> QED
        BY <2>1, <3>1, BufferRoom
    <2>3. b.word = Stack!CapacityAddress(cap)
      <3> HIDE DEF cap
      <3> QED
        BY <2>1 DEF Filled, Addresses
    <2>4. b.values = pushed[s] /\ b.word + Word <= b.bytes
      BY <2>1 DEF Filled
    <2>5. cap # None
      <3> HIDE DEF cap
      <3> QED
        BY <2>1, ContainersAssumption
    <2>6. left[s] >= 0
      BY <2>1
    <2> HIDE DEF b
    <2>7. /\ cap # None
          /\ cap * Stack!Size <= b.word /\ b.word + Word <= b.bytes
          /\ left[s] >= 0 /\ Stack!SizeOf(s) = next[s].at
          /\ Len(b.values) = next[s].at
      BY <2>1, <2>2, <2>3, <2>4, <2>5, <2>6
    <2> QED
      BY <2>7 DEF b
  <1>2. Stack!WordsAgree
    BY <1>1 DEF Stack!WordsAgree
  <1>3. Stack!ElementsKept
    <2>1. ASSUME NEW s \in Stacks, ~ Stack!Usable(s) PROVE pushed[s] = <<>>
      <3>1. next[s] = Stack!NullPointer
        BY <2>1 DEF Stack!Usable, StackInv
      <3>2. Held(Addresses, buffers, next[s], left[s], pushed[s])
        BY DEF StackInv
      <3> QED
        BY <3>1, <3>2, Pointers DEF Held
    <2> QED
      BY <2>1, InUse DEF Stack!ElementsKept
  <1>4. Stack!SoleOwner
    <2>1. ASSUME NEW s \in Stacks, NEW b \in Stack!Owned(s)
          PROVE  object[s] /\ buffers[b] # None /\ b # loose.next.buffer
      <3>1. next[s] # Stack!NullPointer /\ b = next[s].buffer
        BY <2>1 DEF Stack!Owned
      <3>2. object[s]
        BY <3>1 DEF StackInv
      <3>3. Stack!Usable(s)
        BY <3>1, <3>2 DEF Stack!Usable
      <3>4. b \in Stack!Buffers /\ buffers[b] # None
        BY <3>1, <3>3, InUse
      <3>5. Separate(next[s], loose.next)
        BY DEF StackInv
      <3> QED
        BY <3>1, <3>2, <3>4, <3>5, Pointers DEF Separate
    <2>2. ASSUME NEW s \in Stacks, NEW t \in Stacks \ {s}
          PROVE  Stack!Owned(s) \intersect Stack!Owned(t) = {}
      <3>1. Separate(next[s], next[t])
        BY DEF StackInv
      <3> QED
        BY <3>1 DEF Separate, Stack!Owned
    <2> QED
      BY <2>1, <2>2 DEF Stack!SoleOwner
  <1> QED
    BY <1>2, <1>3, <1>4

-----------------------------------------------------------------------------
(* Stable containers: powers of two.                                       *)

\* The first powers of two, up to the n-th.
Powers(n) == {f \in [0 .. n -> Nat] : f[0] = 1 /\ \A i \in 1 .. n : f[i] = 2 * f[i - 1]}

\* There are such numbers, and no others.
LEMMA PowersExist ==
    /\ \A n \in Nat : Powers(n) # {}
    /\ \A n, m \in Nat : \A f \in Powers(n), g \in Powers(m) :
          \A i \in 0 .. n : i <= m => f[i] = g[i]
<1>1. Powers(0) # {}
  <2>1. [i \in 0 .. 0 |-> 1] \in Powers(0)
    BY DEF Powers
  <2> QED
    BY <2>1
<1>2. ASSUME NEW n \in Nat, Powers(n) # {}
      PROVE  Powers(n + 1) # {}
  <2>1. PICK f \in Powers(n) : TRUE
    BY <1>2
  <2>2. /\ f \in [0 .. n -> Nat] /\ f[0] = 1 /\ \A i \in 1 .. n : f[i] = 2 * f[i - 1]
    BY <2>1 DEF Powers
  <2> DEFINE g == [i \in 0 .. n + 1 |-> IF i = n + 1 THEN 2 * f[n] ELSE f[i]]
  <2>3. g \in [0 .. n + 1 -> Nat]
    BY <2>2
  <2>4. g[0] = 1
    BY <2>2
  <2>5. ASSUME NEW i \in 1 .. n + 1 PROVE g[i] = 2 * g[i - 1]
    <3>1. CASE i = n + 1
      BY <3>1
    <3>2. CASE i \in 1 .. n
      BY <2>2, <3>2
    <3> QED
      BY <3>1, <3>2
  <2> HIDE DEF g
  <2>6. g \in Powers(n + 1)
    BY <2>3, <2>4, <2>5 DEF Powers
  <2> QED
    BY <2>6
<1>3. ASSUME NEW n \in Nat PROVE Powers(n) # {}
  <2> DEFINE B == {k \in 0 .. n : Powers(k) = {}}
  <2> SUFFICES ASSUME B # {} PROVE FALSE
    OBVIOUS
  <2>1. PICK k \in B : \A j \in B : k <= j
    <3>1. B \subseteq 0 .. n
      OBVIOUS
    <3> HIDE DEF B
    <3> QED
      BY <3>1, Least
  <2>2. k # 0 /\ k - 1 \in 0 .. n /\ k - 1 \in Nat /\ (k - 1) + 1 = k
    BY <1>1, <2>1
  <2>3. Powers(k - 1) # {}
    BY <2>1, <2>2
  <2>4. Powers((k - 1) + 1) # {}
    BY <1>2, <2>2, <2>3
  <2> QED
    BY <2>1, <2>2, <2>4
<1>4. ASSUME NEW n \in Nat, NEW m \in Nat, NEW f \in Powers(n), NEW g \in Powers(m),
             NEW i \in 0 .. n, i <= m
      PROVE  f[i] = g[i]
  <2> DEFINE B == {k \in 0 .. n : k <= m /\ f[k] # g[k]}
  <2> SUFFICES ASSUME B # {} PROVE FALSE
    BY <1>4
  <2>1. PICK k \in B : \A j \in B : k <= j
    <3>1. B \subseteq 0 .. n
      OBVIOUS
    <3> HIDE DEF B
    <3> QED
      BY <3>1, Least
  <2>2. /\ f[0] = 1 /\ \A j \in 1 .. n : f[j] = 2 * f[j - 1]
        /\ g[0] = 1 /\ \A j \in 1 .. m : g[j] = 2 * g[j - 1]
    BY DEF Powers
  <2>3. k # 0
    BY <2>1, <2>2
  <2>4. k \in 1 .. n /\ k \in 1 .. m /\ k - 1 \in 0 .. n /\ k - 1 <= m /\ ~ (k <= k - 1)
    BY <2>1, <2>3
  <2>5. f[k - 1] = g[k - 1]
    BY <2>1, <2>4
  <2> QED
    BY <2>1, <2>2, <2>4, <2>5
<1> QED
  BY <1>3, <1>4

\* 1 << n, which the code computes for every number of chunks.
LEMMA ShiftedIs ==
    /\ Stable!Shifted[0] = 1
    /\ \A n \in Nat : Stable!Shifted[n] \in Nat /\ Stable!Shifted[n] > 0
    /\ \A n \in Nat : Stable!Shifted[n + 1] = 2 * Stable!Shifted[n]
<1> DEFINE some(n) == CHOOSE f \in Powers(n) : TRUE
           g == [n \in Nat |-> some(n)[n]]
           shifted[n \in Nat] == IF n = 0 THEN 1 ELSE 2 * shifted[n - 1]
<1>1. \A n \in Nat : some(n) \in Powers(n)
  BY PowersExist
<1>2. \A n \in Nat : g[n] = some(n)[n]
  OBVIOUS
<1> HIDE DEF some
<1>3. \A n \in Nat : g[n] = IF n = 0 THEN 1 ELSE 2 * g[n - 1]
  <2> SUFFICES ASSUME NEW n \in Nat PROVE g[n] = IF n = 0 THEN 1 ELSE 2 * g[n - 1]
    OBVIOUS
  <2>1. CASE n = 0
    BY <1>1, <1>2, <2>1 DEF Powers
  <2>2. CASE n # 0
    <3>1. n - 1 \in Nat /\ n - 1 \in 0 .. n /\ n - 1 \in 0 .. n - 1 /\ n \in 1 .. n
      BY <2>2
    <3>2. some(n)[n] = 2 * some(n)[n - 1]
      BY <1>1, <3>1 DEF Powers
    <3>3. some(n) \in Powers(n) /\ some(n - 1) \in Powers(n - 1)
      BY <1>1, <3>1
    <3>4. some(n)[n - 1] = some(n - 1)[n - 1]
      BY <3>1, <3>3, PowersExist
    <3>5. g[n - 1] = some(n - 1)[n - 1]
      BY <1>2, <3>1
    <3> QED
      BY <1>2, <2>2, <3>2, <3>4, <3>5
  <2> QED
    BY <2>1, <2>2
<1>4. g = [n \in Nat |-> IF n = 0 THEN 1 ELSE 2 * g[n - 1]]
  <2>1. g = [n \in Nat |-> g[n]]
    OBVIOUS
  <2> HIDE DEF g
  <2> QED
    BY <1>3, <2>1
<1>5. shifted = [n \in Nat |-> IF n = 0 THEN 1 ELSE 2 * shifted[n - 1]]
  <2> HIDE DEF g
  <2> QED
    BY <1>4
<1>6. Stable!Shifted = shifted
  BY DEF Stable!Shifted
<1> HIDE DEF g, shifted
<1>7. \A n \in Nat : shifted[n + 1] = 2 * shifted[n]
  <2> TAKE n \in Nat
  <2>1. n + 1 \in Nat /\ n + 1 # 0 /\ (n + 1) - 1 = n
    OBVIOUS
  <2> QED
    BY <1>5, <2>1
<1>8. shifted[0] = 1
  BY <1>5
<1>9. ASSUME NEW n \in Nat PROVE shifted[n] \in Nat /\ shifted[n] > 0
  <2> DEFINE B == {k \in 0 .. n : ~ (shifted[k] \in Nat /\ shifted[k] > 0)}
  <2> SUFFICES ASSUME B # {} PROVE FALSE
    OBVIOUS
  <2>1. PICK k \in B : \A j \in B : k <= j
    <3>1. B \subseteq 0 .. n
      OBVIOUS
    <3> HIDE DEF B
    <3> QED
      BY <3>1, Least
  <2>2. k # 0 /\ k \in 0 .. n
    BY <1>8, <2>1
  <2>3. k - 1 \in 0 .. n /\ k - 1 \in Nat /\ (k - 1) + 1 = k /\ ~ (k <= k - 1)
    BY <2>2
  <2>4. shifted[k - 1] \in Nat /\ shifted[k - 1] > 0
    BY <2>1, <2>3
  <2>5. shifted[k] = 2 * shifted[k - 1]
    BY <1>7, <2>3
  <2>6. shifted[k] \in Nat /\ shifted[k] > 0
    BY <2>4, <2>5
  <2> QED
    BY <2>1, <2>6
<1> QED
  BY <1>6, <1>7, <1>8, <1>9

LEMMA ShiftedGrows ==
    ASSUME NEW m \in Nat, NEW n \in Nat, m <= n
    PROVE  Stable!Shifted[m] <= Stable!Shifted[n]
  <1> DEFINE B == {k \in 0 .. n : m <= k /\ ~ (Stable!Shifted[m] <= Stable!Shifted[k])}
  <1> SUFFICES ASSUME B # {} PROVE FALSE
    OBVIOUS
  <1>1. PICK k \in B : \A j \in B : k <= j
    <2>1. B \subseteq 0 .. n
      OBVIOUS
    <2> HIDE DEF B
    <2> QED
      BY <2>1, Least
  <1>2. /\ Stable!Shifted[m] \in Nat /\ k \in Nat /\ Stable!Shifted[k] \in Nat
        /\ ~ (Stable!Shifted[m] <= Stable!Shifted[k]) /\ m <= k
    BY <1>1, ShiftedIs
  <1>3. k # m
    BY <1>2
  <1>4. k - 1 \in 0 .. n /\ k - 1 \in Nat /\ m <= k - 1 /\ (k - 1) + 1 = k /\ ~ (k <= k - 1)
    BY <1>1, <1>2, <1>3
  <1>5. Stable!Shifted[m] <= Stable!Shifted[k - 1]
    BY <1>1, <1>4
  <1>6. Stable!Shifted[k - 1] \in Nat /\ Stable!Shifted[k] = 2 * Stable!Shifted[k - 1]
    BY <1>4, ShiftedIs
  <1> QED
    BY <1>2, <1>5, <1>6

-----------------------------------------------------------------------------
(* Stable containers: what is where.                                       *)

\* The element of index k is in the i-th chunk, behind a others.
Spot(k, i, a) ==
    /\ i \in Nat \ {0} /\ a \in Nat
    /\ a < Stable!Shifted[i - 1] /\ k = Stable!Shifted[i - 1] - 1 + a

LEMMA SpotUnique ==
    ASSUME NEW k, NEW i, NEW a, NEW j, NEW b, Spot(k, i, a), Spot(k, j, b)
    PROVE  i = j /\ a = b
  <1>1. ASSUME NEW x, NEW y, NEW c, NEW d, Spot(k, x, c), Spot(k, y, d)
        PROVE  ~ (x < y)
    <2> SUFFICES ASSUME x < y PROVE FALSE
      OBVIOUS
    <2>1. /\ x \in Nat \ {0} /\ c \in Nat /\ y \in Nat \ {0} /\ d \in Nat
          /\ c < Stable!Shifted[x - 1] /\ k = Stable!Shifted[x - 1] - 1 + c
          /\ k = Stable!Shifted[y - 1] - 1 + d
      BY <1>1 DEF Spot
    <2>2. x - 1 \in Nat /\ (x - 1) + 1 = x /\ y - 1 \in Nat /\ x <= y - 1
      BY <2>1
    <2>3. /\ Stable!Shifted[x - 1] \in Nat /\ Stable!Shifted[y - 1] \in Nat
          /\ Stable!Shifted[x] = 2 * Stable!Shifted[x - 1]
      BY <2>2, ShiftedIs
    <2>4. Stable!Shifted[x] <= Stable!Shifted[y - 1]
      BY <2>1, <2>2, ShiftedGrows
    <2> QED
      BY <2>1, <2>3, <2>4
  <1>2. ~ (i < j) /\ ~ (j < i)
    BY <1>1
  <1>3. i \in Nat /\ j \in Nat
    BY DEF Spot
  <1>4. i = j
    BY <1>2, <1>3
  <1>5. Stable!Shifted[i - 1] \in Nat
    <2>1. i - 1 \in Nat
      BY DEF Spot
    <2> QED
      BY <2>1, ShiftedIs
  <1> QED
    BY <1>4, <1>5 DEF Spot

LEMMA SpotExists ==
    ASSUME NEW k \in Nat, NEW n \in Nat, k + 1 < Stable!Shifted[n]
    PROVE  \E i \in 1 .. n, a \in Nat : Spot(k, i, a)
  <1> DEFINE B == {i \in 0 .. n : k + 1 < Stable!Shifted[i]}
  <1>1. PICK i \in B : \A j \in B : i <= j
    <2>1. B \subseteq 0 .. n /\ n \in B
      OBVIOUS
    <2> HIDE DEF B
    <2> QED
      BY <2>1, Least
  <1>2. i # 0
    BY <1>1, ShiftedIs
  <1>3. i \in 1 .. n /\ i - 1 \in 0 .. n /\ i - 1 \in Nat /\ (i - 1) + 1 = i /\ ~ (i <= i - 1)
    BY <1>1, <1>2
  <1>4. /\ Stable!Shifted[i - 1] \in Nat /\ Stable!Shifted[i] = 2 * Stable!Shifted[i - 1]
        /\ Stable!Shifted[i - 1] > 0
    BY <1>3, ShiftedIs
  <1>5. ~ (k + 1 < Stable!Shifted[i - 1]) /\ k + 1 < Stable!Shifted[i]
    BY <1>1, <1>3
  <1> DEFINE a == k - (Stable!Shifted[i - 1] - 1)
  <1>6. a \in Nat /\ a < Stable!Shifted[i - 1] /\ k = Stable!Shifted[i - 1] - 1 + a
    BY <1>4, <1>5
  <1> HIDE DEF a
  <1>7. Spot(k, i, a)
    BY <1>3, <1>6 DEF Spot
  <1> QED
    BY <1>3, <1>6, <1>7

Chunks == [block : Stable!Blocks, end : Nat, cap : Nat]

\* The i-th of some chunks: all but the last are full, and but for the first
\* none is empty.
ChunkRight(bufs, q, i) ==
    /\ q[i].cap = Stable!Shifted[i - 1] /\ q[i].end <= q[i].cap
    /\ i < Len(q) => q[i].end = q[i].cap
    /\ i > 1 => q[i].end > 0
    /\ bufs[q[i].block] # None /\ Len(bufs[q[i].block]) = q[i].end

\* What an entry refers to.
Refers(bufs, q, h, i) ==
    /\ i \in DOMAIN q
    /\ h.block = q[i].block /\ h.at < q[i].end /\ Spot(h.index, i, h.at)
    /\ bufs[h.block][h.at + 1] = h.value

StableInv ==
    /\ blocks \in [Stable!Blocks -> Seq(Values) \union {None}]
    /\ exists \in [Containers -> BOOLEAN]
    /\ chunks \in [Containers -> Seq(Chunks)]
    /\ handles \subseteq [owner : Containers, index : Nat, value : Values,
                          block : Stable!Blocks, at : Nat]
    /\ \A c \in Containers : ~ exists[c] => chunks[c] = <<>>
    /\ \A c \in Containers : \A i \in DOMAIN chunks[c] : ChunkRight(blocks, chunks[c], i)
    /\ \A c, d \in Containers : \A i \in DOMAIN chunks[c], j \in DOMAIN chunks[d] :
          chunks[c][i].block = chunks[d][j].block => c = d /\ i = j
    /\ \A h \in handles : \E i \in Nat : Refers(blocks, chunks[h.owner], h, i)
    /\ \A c \in Containers : \A i \in DOMAIN chunks[c], a \in Nat :
          a < chunks[c][i].end =>
             \E h \in handles : h.owner = c /\ h.block = chunks[c][i].block /\ h.at = a
    /\ \A g, h \in handles : g.block = h.block /\ g.at = h.at => g = h

\* The number of elements of a container.
Count(q) == IF q = <<>> THEN 0 ELSE Stable!Shifted[Len(q) - 1] - 1 + q[Len(q)].end

\* The last chunk is the one to look at.
LEMMA TopIs ==
    ASSUME StableInv, NEW c \in Containers, chunks[c] # <<>>
    PROVE  LET q == chunks[c]
           IN  /\ Len(q) \in Nat \ {0} /\ Len(q) \in DOMAIN q
               /\ Stable!Top(c) = q[Len(q)] /\ q[Len(q)] \in Chunks
               /\ Stable!Remaining(c) = q[Len(q)].cap - q[Len(q)].end
               /\ Stable!Remaining(c) \in Nat
               /\ Stable!SizeOf(c) = Count(q) /\ Count(q) \in Nat
               /\ Count(q) + 1 + Stable!Remaining(c) = Stable!Shifted[Len(q)]
  <1> DEFINE q == chunks[c]
             n == Len(q)
  <1>1. q \in Seq(Chunks) /\ q # <<>>
    BY DEF StableInv
  <1>2. n \in Nat \ {0} /\ n \in DOMAIN q /\ q[n] \in Chunks /\ Stable!Last(q) = q[n]
    BY <1>1, EmptySeq, LenProperties, ElementOfSeq DEF Stable!Last
  <1>3. ChunkRight(blocks, q, n)
    BY <1>2 DEF StableInv
  <1>4. n - 1 \in Nat /\ (n - 1) + 1 = n
    BY <1>2
  <1>5. /\ Stable!Shifted[n - 1] \in Nat /\ Stable!Shifted[n] = 2 * Stable!Shifted[n - 1]
        /\ Stable!Shifted[n - 1] > 0
    BY <1>4, ShiftedIs
  <1>6. Stable!Top(c) = q[n]
    BY <1>2 DEF Stable!Top
  <1>7. Stable!Remaining(c) = q[n].cap - q[n].end /\ q[n].cap \in Nat /\ q[n].end \in Nat
    BY <1>2, <1>6 DEF Stable!Remaining, Chunks
  <1>8. q[n].cap = Stable!Shifted[n - 1] /\ q[n].end <= q[n].cap
    BY <1>3 DEF ChunkRight
  <1>9. Stable!SizeOf(c) = Stable!Shifted[n] - Stable!Remaining(c) - 1
    BY DEF Stable!SizeOf
  <1>10. Count(q) = Stable!Shifted[n - 1] - 1 + q[n].end
    BY <1>1 DEF Count
  <1>11. /\ Stable!Remaining(c) \in Nat
         /\ Stable!SizeOf(c) = Count(q) /\ Count(q) \in Nat
         /\ Count(q) + 1 + Stable!Remaining(c) = Stable!Shifted[n]
    <2> HIDE DEF q, n
    <2> QED
      BY <1>5, <1>7, <1>8, <1>9, <1>10
  <1> QED
    BY <1>2, <1>6, <1>7, <1>11

\* A spot is that of an element just below the number of elements.
LEMMA SpotWithin ==
    ASSUME StableInv, NEW c \in Containers, chunks[c] # <<>>,
           NEW k \in Nat, NEW i, NEW a, Spot(k, i, a)
    PROVE  (i \in DOMAIN chunks[c] /\ a < chunks[c][i].end) <=> k < Count(chunks[c])
  <1> DEFINE q == chunks[c]
             n == Len(q)
  <1>1. /\ q \in Seq(Chunks) /\ n \in Nat \ {0} /\ DOMAIN q = 1 .. n
        /\ Count(q) = Stable!Shifted[n - 1] - 1 + q[n].end
        /\ Count(q) \in Nat /\ Stable!Remaining(c) \in Nat
        /\ Count(q) + 1 + Stable!Remaining(c) = Stable!Shifted[n]
    <2>1. q \in Seq(Chunks)
      BY DEF StableInv
    <2> QED
      BY <2>1, TopIs, LenProperties DEF Count
  <1>2. \A j \in 1 .. n : /\ q[j].cap = Stable!Shifted[j - 1] /\ q[j].end <= q[j].cap
                          /\ j < n => q[j].end = q[j].cap
                          /\ q[j].end \in Nat
    <2>1. \A j \in 1 .. n : ChunkRight(blocks, q, j)
      BY <1>1 DEF StableInv
    <2>2. \A j \in 1 .. n : q[j] \in Chunks
      BY <1>1, ElementOfSeq
    <2> QED
      BY <2>1, <2>2 DEF ChunkRight, Chunks
  <1> HIDE DEF q, n
  <1>3. /\ i \in Nat \ {0} /\ a \in Nat /\ a < Stable!Shifted[i - 1]
        /\ k = Stable!Shifted[i - 1] - 1 + a
    BY DEF Spot
  <1>4. i - 1 \in Nat /\ (i - 1) + 1 = i /\ n - 1 \in Nat
    BY <1>1, <1>3
  <1>5. /\ Stable!Shifted[i - 1] \in Nat /\ Stable!Shifted[i] = 2 * Stable!Shifted[i - 1]
        /\ Stable!Shifted[n - 1] \in Nat /\ Stable!Shifted[n] \in Nat
    BY <1>1, <1>4, ShiftedIs
  <1>6. ASSUME i \in 1 .. n, a < q[i].end PROVE k < Count(q)
    <2>1. CASE i = n
      BY <1>1, <1>2, <1>3, <1>5, <1>6, <2>1
    <2>2. CASE i # n
      <3>1. i <= n - 1
        BY <1>1, <1>6, <2>2
      <3>2. Stable!Shifted[i] <= Stable!Shifted[n - 1]
        BY <1>3, <1>4, <3>1, ShiftedGrows
      <3>3. q[n].end \in Nat
        BY <1>1, <1>2
      <3>4. k < Stable!Shifted[i] - 1
        BY <1>3, <1>5
      <3>5. Stable!Shifted[n - 1] - 1 <= Count(q)
        BY <1>1, <1>5, <3>3
      <3> QED
        BY <1>1, <1>5, <3>2, <3>4, <3>5
    <2> QED
      BY <2>1, <2>2
  <1>7. ASSUME k < Count(q) PROVE i \in 1 .. n /\ a < q[i].end
    <2>1. k + 1 < Stable!Shifted[n]
      BY <1>1, <1>5, <1>7
    <2>2. PICK j \in 1 .. n, b \in Nat : Spot(k, j, b)
      BY <1>1, <2>1, SpotExists
    <2>3. i = j
      BY <2>2, SpotUnique
    <2>4. CASE i = n
      BY <1>1, <1>2, <1>3, <1>5, <1>7, <2>4
    <2>5. CASE i # n
      <3>1. i \in 1 .. n /\ i < n
        BY <1>1, <2>3, <2>5
      <3> QED
        BY <1>2, <1>3, <3>1
    <2> QED
      BY <2>3, <2>4, <2>5
  <1> QED
    BY <1>1, <1>6, <1>7 DEF q

\* The entries of a container have the indices below the number of elements,
\* each of them once.
LEMMA OwnIndices ==
    ASSUME StableInv, NEW c \in Containers, chunks[c] # <<>>
    PROVE  LET own == {h \in handles : h.owner = c}
           IN  /\ \A h \in own : h.index \in 0 .. Count(chunks[c]) - 1
               /\ \A k \in 0 .. Count(chunks[c]) - 1 : \E h \in own : h.index = k
               /\ \A g, h \in own : g.index = h.index => g = h
  <1> DEFINE q == chunks[c]
             own == {h \in handles : h.owner = c}
  <1>1. Count(q) \in Nat
    BY TopIs
  <1>2. ASSUME NEW h \in own
        PROVE  h.index \in Nat /\ \E i \in Nat : Refers(blocks, q, h, i)
    <2>1. h \in handles /\ h.owner = c
      OBVIOUS
    <2> QED
      BY <2>1 DEF StableInv
  <1>3. ASSUME NEW h \in own PROVE h.index \in 0 .. Count(q) - 1
    <2>1. PICK i \in Nat : Refers(blocks, q, h, i)
      BY <1>2
    <2>2. i \in DOMAIN q /\ h.at < q[i].end /\ Spot(h.index, i, h.at)
      BY <2>1 DEF Refers
    <2>3. h.index \in Nat
      BY <1>2
    <2>4. h.index < Count(q)
      <3> HIDE DEF own
      <3> QED
        BY <2>2, <2>3, SpotWithin
    <2> QED
      BY <1>1, <2>3, <2>4
  <1>4. ASSUME NEW k \in 0 .. Count(q) - 1 PROVE \E h \in own : h.index = k
    <2>1. k \in Nat /\ k < Count(q)
      BY <1>1
    <2>2. k + 1 < Stable!Shifted[Len(q)] /\ Len(q) \in Nat
      <3>1. /\ Stable!Remaining(c) \in Nat /\ Len(q) \in Nat
            /\ Count(q) + 1 + Stable!Remaining(c) = Stable!Shifted[Len(q)]
        BY TopIs
      <3> QED
        BY <1>1, <2>1, <3>1
    <2>3. PICK i \in 1 .. Len(q), a \in Nat : Spot(k, i, a)
      BY <2>1, <2>2, SpotExists
    <2>4. i \in DOMAIN q /\ a < q[i].end
      BY <2>1, <2>3, SpotWithin
    <2>5. PICK h \in handles : h.owner = c /\ h.block = q[i].block /\ h.at = a
      BY <2>4 DEF StableInv
    <2>6. h \in own
      BY <2>5
    <2>7. PICK j \in Nat : Refers(blocks, q, h, j)
      BY <1>2, <2>6
    <2>8. j \in DOMAIN q /\ h.block = q[j].block /\ Spot(h.index, j, a)
      BY <2>5, <2>7 DEF Refers
    <2>9. \A x, y \in DOMAIN q : q[x].block = q[y].block => x = y
      BY DEF StableInv
    <2>10. i = j
      BY <2>4, <2>5, <2>8, <2>9
    <2>11. h.index = k
      BY <2>3, <2>8, <2>10 DEF Spot
    <2> QED
      BY <2>6, <2>11
  <1>5. ASSUME NEW g \in own, NEW h \in own, g.index = h.index PROVE g = h
    <2>1. PICK i \in Nat : Refers(blocks, q, g, i)
      BY <1>2
    <2>2. PICK j \in Nat : Refers(blocks, q, h, j)
      BY <1>2
    <2>3. Spot(g.index, i, g.at) /\ Spot(g.index, j, h.at)
      BY <1>5, <2>1, <2>2 DEF Refers
    <2>4. i = j /\ g.at = h.at
      BY <2>3, SpotUnique
    <2>5. g.block = h.block
      BY <2>1, <2>2, <2>4 DEF Refers
    <2> QED
      BY <2>4, <2>5 DEF StableInv
  <1> QED
    BY <1>3, <1>4, <1>5

LEMMA StableCardinality ==
    \A S : Stable!Cardinality(S) = Cardinality(S)
  BY Zenon DEF Cardinality, Stable!Cardinality

\* As many entries as indices.
LEMMA OwnCount ==
    ASSUME StableInv, NEW c \in Containers, chunks[c] # <<>>
    PROVE  Cardinality({h \in handles : h.owner = c}) = Count(chunks[c])
  <1> DEFINE q == chunks[c]
             own == {h \in handles : h.owner = c}
             n == Count(q)
             f == [k \in 1 .. n |-> CHOOSE h \in own : h.index = k - 1]
  <1>1. n \in Nat
    BY TopIs
  <1>2. /\ \A h \in own : h.index \in 0 .. n - 1
        /\ \A k \in 0 .. n - 1 : \E h \in own : h.index = k
        /\ \A g, h \in own : g.index = h.index => g = h
    BY OwnIndices
  <1> HIDE DEF own, n
  <1>3. \A k \in 1 .. n : f[k] \in own /\ f[k].index = k - 1
    <2> TAKE k \in 1 .. n
    <2>1. k - 1 \in 0 .. n - 1
      BY <1>1
    <2>2. \E h \in own : h.index = k - 1
      BY <1>2, <2>1
    <2> QED
      BY <2>2
  <1>4. f \in [1 .. n -> own]
    BY <1>3
  <1> HIDE DEF f
  <1>5. \A j, k \in 1 .. n : f[j] = f[k] => j = k
    BY <1>1, <1>3
  <1>6. ASSUME NEW h \in own PROVE \E k \in 1 .. n : f[k] = h
    <2>1. h.index \in 0 .. n - 1
      BY <1>2
    <2>2. h.index + 1 \in 1 .. n /\ (h.index + 1) - 1 = h.index
      BY <1>1, <2>1
    <2>3. f[h.index + 1] = h
      BY <1>2, <1>3, <2>2
    <2> QED
      BY <2>2, <2>3
  <1>7. ExistsBijection(1 .. n, own)
    BY <1>4, <1>5, <1>6
       DEF ExistsBijection, Bijection, Injection, Surjection, IsInjective
  <1>8. Cardinality(own) = n
    BY <1>1, <1>7, FS_CountingElements
  <1> QED
    BY <1>8 DEF own, n

\* A container is empty if nothing was inserted in it.
LEMMA EmptyIs ==
    ASSUME StableInv, NEW c \in Containers, chunks[c] # <<>>
    PROVE  Stable!IsEmpty(c) <=> Count(chunks[c]) = 0
  <1> DEFINE q == chunks[c]
             n == Len(q)
  <1>1. /\ n \in Nat \ {0} /\ n \in DOMAIN q
        /\ Stable!Top(c) = q[n] /\ q[n] \in Chunks
        /\ Count(q) = Stable!Shifted[n - 1] - 1 + q[n].end
    BY TopIs DEF Count
  <1>2. /\ q[n].cap = Stable!Shifted[n - 1] /\ q[n].end <= q[n].cap
        /\ n > 1 => q[n].end > 0
    BY <1>1 DEF StableInv, ChunkRight
  <1>3. /\ q[n].end \in Nat /\ q[n].cap \in Nat /\ n - 1 \in Nat
    BY <1>1 DEF Chunks
  <1>4. Stable!Shifted[n - 1] \in Nat /\ Stable!Shifted[n - 1] > 0
    BY <1>3, ShiftedIs
  <1>5. Stable!IsEmpty(c) <=> n = 1 /\ q[n].end # q[n].cap
    BY <1>1 DEF Stable!IsEmpty
  <1> HIDE DEF q, n
  <1>6. CASE n = 1
    <2>1. Stable!Shifted[n - 1] = 1
      BY <1>6, ShiftedIs
    <2>2. Stable!IsEmpty(c) <=> Count(q) = 0
      BY <1>1, <1>2, <1>3, <1>5, <1>6, <2>1
    <2> QED
      BY <2>2 DEF q
  <1>7. CASE n # 1
    <2>1. n > 1
      BY <1>1, <1>7
    <2>2. Stable!IsEmpty(c) <=> Count(q) = 0
      BY <1>1, <1>2, <1>3, <1>4, <1>5, <1>7, <2>1
    <2> QED
      BY <2>2 DEF q
  <1> QED
    BY <1>6, <1>7

-----------------------------------------------------------------------------
(* Stable containers: where iteration comes to.                            *)

At(q, i, a) == [chunk |-> i, block |-> q[i].block, at |-> a]
Behind(q) == [chunk |-> Len(q) + 1, block |-> q[Len(q)].block, at |-> q[Len(q)].end]

\* Where an iterator is after k steps.
PlaceOf(q, k) ==
    IF k = Count(q) THEN Behind(q)
    ELSE CHOOSE e : \E i \in Nat, a \in Nat : Spot(k, i, a) /\ e = At(q, i, a)

LEMMA PlaceIs ==
    ASSUME NEW q, NEW k \in Nat, NEW i, NEW a, Spot(k, i, a), k # Count(q)
    PROVE  PlaceOf(q, k) = At(q, i, a)
  <1> DEFINE Here(e) == \E j \in Nat, b \in Nat : Spot(k, j, b) /\ e = At(q, j, b)
  <1>1. i \in Nat /\ a \in Nat
    BY DEF Spot
  <1>2. Here(At(q, i, a))
    BY <1>1
  <1>3. \A e : Here(e) => e = At(q, i, a)
    <2> SUFFICES ASSUME NEW j \in Nat, NEW b \in Nat, Spot(k, j, b)
                 PROVE  At(q, j, b) = At(q, i, a)
      OBVIOUS
    <2>1. j = i /\ b = a
      BY SpotUnique
    <2> QED
      BY <2>1
  <1>4. PlaceOf(q, k) = CHOOSE e : Here(e)
    BY DEF PlaceOf
  <1> HIDE DEF Here
  <1> QED
    BY <1>2, <1>3, <1>4

\* operator++ goes from the place of one index to that of the next.
LEMMA AdvancedIs ==
    ASSUME StableInv, NEW c \in Containers, chunks[c] # <<>>,
           NEW k \in Nat, k < Count(chunks[c])
    PROVE  Stable!Advanced(c, PlaceOf(chunks[c], k)) = PlaceOf(chunks[c], k + 1)
  <1> DEFINE q == chunks[c]
             n == Len(q)
  <1>1. /\ q \in Seq(Chunks) /\ n \in Nat \ {0} /\ DOMAIN q = 1 .. n
        /\ Count(q) = Stable!Shifted[n - 1] - 1 + q[n].end
        /\ Count(q) \in Nat /\ Stable!Remaining(c) \in Nat
        /\ Count(q) + 1 + Stable!Remaining(c) = Stable!Shifted[n]
    <2>1. q \in Seq(Chunks)
      BY DEF StableInv
    <2> QED
      BY <2>1, TopIs, LenProperties DEF Count
  <1>2. \A j \in 1 .. n : /\ q[j].cap = Stable!Shifted[j - 1] /\ q[j].end <= q[j].cap
                          /\ j < n => q[j].end = q[j].cap
                          /\ q[j].end \in Nat
    <2>1. \A j \in 1 .. n : ChunkRight(blocks, q, j)
      BY <1>1 DEF StableInv
    <2>2. \A j \in 1 .. n : q[j] \in Chunks
      BY <1>1, ElementOfSeq
    <2> QED
      BY <2>1, <2>2 DEF ChunkRight, Chunks
  <1>3. k + 1 < Stable!Shifted[n]
    <2> HIDE DEF q, n
    <2>1. Stable!Shifted[n] \in Nat
      BY <1>1, ShiftedIs
    <2> QED
      BY <1>1, <2>1 DEF q
  <1>4. PICK i \in 1 .. n, a \in Nat : Spot(k, i, a)
    <2> HIDE DEF q, n
    <2> QED
      BY <1>1, <1>3, SpotExists
  <1>5. i \in DOMAIN q /\ a < q[i].end
    BY <1>4, SpotWithin
  <1>6. PlaceOf(q, k) = At(q, i, a)
    BY <1>1, <1>4, PlaceIs
  <1>7. Stable!Advanced(c, At(q, i, a)) =
           CASE a + 1 # q[i].end -> At(q, i, a + 1)
             [] a + 1 = q[i].end /\ i = n -> [chunk |-> i + 1, block |-> q[i].block, at |-> a + 1]
             [] OTHER -> At(q, i + 1, 0)
    <2>1. [At(q, i, a) EXCEPT !.at = @ + 1] = At(q, i, a + 1)
      BY DEF At
    <2>2. At(q, i, a).chunk = i /\ At(q, i, a).at = a /\ At(q, i, a).block = q[i].block
      BY DEF At
    <2>3. At(q, i + 1, 0) = [chunk |-> i + 1, block |-> q[i + 1].block, at |-> 0]
      BY DEF At
    <2> QED
      BY <2>1, <2>2, <2>3 DEF Stable!Advanced
  <1>8. /\ i \in Nat \ {0} /\ a < Stable!Shifted[i - 1]
        /\ k = Stable!Shifted[i - 1] - 1 + a
        /\ i - 1 \in Nat /\ (i - 1) + 1 = i
    BY <1>4 DEF Spot
  <1>9. /\ Stable!Shifted[i - 1] \in Nat /\ Stable!Shifted[i] = 2 * Stable!Shifted[i - 1]
        /\ Stable!Shifted[i] > 0
    BY <1>8, ShiftedIs
  <1> HIDE DEF q, n
  <1>10. CASE a + 1 # q[i].end
    <2>1. a + 1 < q[i].end /\ q[i].end <= Stable!Shifted[i - 1]
      BY <1>1, <1>2, <1>4, <1>5, <1>10
    <2>2. Spot(k + 1, i, a + 1)
      <3>1. a + 1 \in Nat /\ a + 1 < Stable!Shifted[i - 1]
        <4>1. q[i].end \in Nat
          BY <1>2
        <4> QED
          BY <1>9, <2>1, <4>1
      <3>2. k + 1 = Stable!Shifted[i - 1] - 1 + (a + 1)
        BY <1>8, <1>9
      <3> QED
        BY <1>8, <3>1, <3>2 DEF Spot
    <2>3. k + 1 < Count(q)
      BY <1>5, <2>1, <2>2, SpotWithin DEF q
    <2>4. PlaceOf(q, k + 1) = At(q, i, a + 1)
      BY <1>1, <2>2, <2>3, PlaceIs
    <2> QED
      BY <1>6, <1>7, <1>10, <2>4 DEF q
  <1>11. CASE a + 1 = q[i].end /\ i = n
    <2>1. k + 1 = Count(q)
      <3>1. Count(q) = Stable!Shifted[i - 1] - 1 + (a + 1)
        BY <1>1, <1>11
      <3>2. a \in Nat
        OBVIOUS
      <3> QED
        BY <1>8, <1>9, <3>1, <3>2
    <2>2. Stable!Advanced(c, At(q, i, a)) = [chunk |-> i + 1, block |-> q[i].block, at |-> a + 1]
      BY <1>7, <1>11
    <2>3. [chunk |-> i + 1, block |-> q[i].block, at |-> a + 1] = Behind(q)
      BY <1>11 DEF Behind, n
    <2>4. PlaceOf(q, k + 1) = Behind(q)
      BY <2>1 DEF PlaceOf
    <2> QED
      BY <1>6, <2>2, <2>3, <2>4 DEF q
  <1>12. CASE a + 1 = q[i].end /\ i # n
    <2>1. i < n /\ i + 1 \in 1 .. n /\ (i + 1) - 1 = i /\ q[i].end = Stable!Shifted[i - 1]
      BY <1>1, <1>2, <1>4, <1>12
    <2>2. Spot(k + 1, i + 1, 0)
      <3>1. a + 1 = Stable!Shifted[i - 1]
        BY <1>12, <2>1
      <3>2. k + 1 = Stable!Shifted[i] - 1 + 0
        <4>1. \A x, y, z \in Nat :
                 z + 1 = x /\ y = 2 * x /\ k = x - 1 + z => k + 1 = y - 1 + 0
          OBVIOUS
        <4>2. Stable!Shifted[i] \in Nat /\ Stable!Shifted[i - 1] \in Nat
          BY <1>8, <1>9, ShiftedIs
        <4>3. /\ k = Stable!Shifted[i - 1] - 1 + a
              /\ Stable!Shifted[i] = 2 * Stable!Shifted[i - 1]
          BY <1>8, <1>9
        <4> QED
          BY <3>1, <4>1, <4>2, <4>3
      <3>3. i + 1 \in Nat \ {0}
        BY <1>8
      <3>4. Stable!Shifted[(i + 1) - 1] = Stable!Shifted[i]
        BY <2>1
      <3> QED
        BY <1>9, <3>2, <3>3, <3>4 DEF Spot
    <2>3. q[i + 1].end > 0
      <3>1. ChunkRight(blocks, q, i + 1)
        BY <1>1, <2>1 DEF StableInv, q
      <3>2. i + 1 > 1
        BY <1>8
      <3> QED
        BY <3>1, <3>2 DEF ChunkRight
    <2>4. k + 1 < Count(q)
      <3>1. i + 1 \in DOMAIN q /\ 0 < q[i + 1].end
        BY <1>1, <1>2, <2>1, <2>3
      <3>2. k + 1 \in Nat
        OBVIOUS
      <3> QED
        BY <2>2, <3>1, <3>2, SpotWithin DEF q
    <2>5. PlaceOf(q, k + 1) = At(q, i + 1, 0)
      BY <1>1, <2>2, <2>4, PlaceIs
    <2>6. Stable!Advanced(c, At(q, i, a)) = At(q, i + 1, 0)
      BY <1>7, <1>12
    <2> QED
      BY <1>6, <2>5, <2>6 DEF q
  <1> QED
    BY <1>10, <1>11, <1>12

LEMMA BeginIs ==
    ASSUME StableInv, NEW c \in Containers, chunks[c] # <<>>
    PROVE  Stable!Begin(c) = PlaceOf(chunks[c], 0) /\ Stable!End(c) = Behind(chunks[c])
  <1> DEFINE q == chunks[c]
  <1>1. Stable!Top(c) = q[Len(q)] /\ Count(q) \in Nat /\ Len(q) \in Nat \ {0}
    BY TopIs
  <1>2. Stable!End(c) = Behind(q)
    BY <1>1 DEF Stable!End, Behind
  <1>3. CASE Stable!IsEmpty(c)
    <2>1. Count(q) = 0
      BY <1>3, EmptyIs
    <2>2. Stable!Begin(c) = Behind(q)
      BY <1>1, <1>3 DEF Stable!Begin, Behind
    <2> QED
      BY <1>2, <2>1, <2>2 DEF PlaceOf
  <1>4. CASE ~ Stable!IsEmpty(c)
    <2>1. Count(q) # 0
      BY <1>4, EmptyIs
    <2>2. Stable!Begin(c) = At(q, 1, 0)
      BY <1>4 DEF Stable!Begin, At
    <2>3. Spot(0, 1, 0)
      BY ShiftedIs DEF Spot
    <2>4. PlaceOf(q, 0) = At(q, 1, 0)
      BY <2>1, <2>3, PlaceIs
    <2> QED
      BY <1>2, <2>2, <2>4
  <1> QED
    BY <1>3, <1>4

\* entry(index), a loop, comes to the place of the index.
LEMMA EntryIs ==
    ASSUME StableInv, NEW c \in Containers, chunks[c] # <<>>,
           NEW last \in Nat, last <= Count(chunks[c])
    PROVE  Stable!Entry(c, last) = PlaceOf(chunks[c], last)
  <1> DEFINE q == chunks[c]
             g == [i \in 0 .. last |-> PlaceOf(q, i)]
             stepped[i \in 0 .. last] ==
                IF i = 0 THEN Stable!Begin(c) ELSE Stable!Advanced(c, stepped[i - 1])
  <1>1. Count(q) \in Nat
    BY TopIs
  <1>2. \A i \in 0 .. last : g[i] = PlaceOf(q, i)
    OBVIOUS
  <1> HIDE DEF g
  <1>3. ASSUME NEW i \in 0 .. last
        PROVE  g[i] = IF i = 0 THEN Stable!Begin(c) ELSE Stable!Advanced(c, g[i - 1])
    <2>1. CASE i = 0
      BY <1>2, <2>1, BeginIs
    <2>2. CASE i # 0
      <3>1. i - 1 \in Nat /\ i - 1 \in 0 .. last /\ (i - 1) + 1 = i /\ i - 1 < Count(q)
        BY <1>1, <2>2
      <3>2. Stable!Advanced(c, PlaceOf(q, i - 1)) = PlaceOf(q, (i - 1) + 1)
        BY <3>1, AdvancedIs
      <3> QED
        BY <1>2, <2>2, <3>1, <3>2
    <2> QED
      BY <2>1, <2>2
  <1>4. g = [i \in 0 .. last |->
               IF i = 0 THEN Stable!Begin(c) ELSE Stable!Advanced(c, g[i - 1])]
    <2>1. g = [i \in 0 .. last |-> g[i]]
      BY DEF g
    <2> QED
      BY <1>3, <2>1
  <1>5. stepped = [i \in 0 .. last |->
               IF i = 0 THEN Stable!Begin(c) ELSE Stable!Advanced(c, stepped[i - 1])]
    BY <1>4
  <1>6. Stable!Entry(c, last) = stepped[last]
    BY DEF Stable!Entry
  <1> HIDE DEF stepped
  <1>7. \A i \in 0 .. last : stepped[i] = g[i]
    <2> DEFINE B == {i \in 0 .. last : stepped[i] # g[i]}
    <2> SUFFICES ASSUME B # {} PROVE FALSE
      OBVIOUS
    <2>1. PICK i \in B : \A j \in B : i <= j
      <3>1. B \subseteq 0 .. last
        OBVIOUS
      <3> HIDE DEF B
      <3> QED
        BY <3>1, Least
    <2>2. CASE i = 0
      BY <1>3, <1>5, <2>1, <2>2
    <2>3. CASE i # 0
      <3>1. i - 1 \in 0 .. last /\ ~ (i <= i - 1)
        BY <2>1, <2>3
      <3>2. stepped[i - 1] = g[i - 1]
        BY <2>1, <3>1
      <3>3. stepped[i] = Stable!Advanced(c, stepped[i - 1])
        BY <1>5, <2>1, <2>3
      <3>4. g[i] = Stable!Advanced(c, g[i - 1])
        BY <1>3, <2>1, <2>3
      <3> QED
        BY <2>1, <3>2, <3>3, <3>4
    <2> QED
      BY <2>2, <2>3
  <1> QED
    BY <1>2, <1>6, <1>7

\* What is read off the invariant.
LEMMA StableAnswers ==
    StableInv => Stable!AddressStable /\ Stable!IterationExact
  <1> SUFFICES ASSUME StableInv PROVE Stable!AddressStable /\ Stable!IterationExact
    OBVIOUS
  <1>1. ASSUME NEW h \in handles
        PROVE  /\ h.owner \in Containers /\ h.at \in Nat /\ h.index \in Nat
               /\ chunks[h.owner] # <<>>
               /\ \E i \in Nat : Refers(blocks, chunks[h.owner], h, i)
    <2>1. h.owner \in Containers /\ h.at \in Nat /\ h.index \in Nat
      BY DEF StableInv
    <2>2. PICK i \in Nat : Refers(blocks, chunks[h.owner], h, i)
      BY DEF StableInv
    <2>3. i \in DOMAIN chunks[h.owner]
      BY <2>2 DEF Refers
    <2> QED
      BY <2>1, <2>2, <2>3
  <1>2. Stable!AddressStable
    <2> SUFFICES ASSUME NEW h \in handles
                 PROVE  /\ blocks[h.block] # None /\ h.at < Len(blocks[h.block])
                        /\ blocks[h.block][h.at + 1] = h.value
      BY DEF Stable!AddressStable
    <2>1. PICK i \in Nat : Refers(blocks, chunks[h.owner], h, i)
      BY <1>1
    <2>2. ChunkRight(blocks, chunks[h.owner], i)
      BY <1>1, <2>1 DEF StableInv, Refers
    <2> QED
      BY <2>1, <2>2 DEF Refers, ChunkRight
  <1>3. ASSUME NEW c \in Containers, Stable!Intact(c)
        PROVE  LET own == {h \in handles : h.owner = c}
               IN  /\ Stable!SizeOf(c) = Stable!Cardinality(own)
                   /\ Stable!IsEmpty(c) <=> own = {}
                   /\ \A h \in own : LET e == Stable!Entry(c, h.index)
                                     IN  e.block = h.block /\ e.at = h.at
                   /\ Stable!Entry(c, Stable!SizeOf(c)) = Stable!End(c)
    <2> DEFINE own == {h \in handles : h.owner = c}
               q == chunks[c]
    <2>1. q # <<>>
      BY <1>3 DEF Stable!Intact
    <2>2. Stable!SizeOf(c) = Count(q) /\ Count(q) \in Nat
      BY <2>1, TopIs
    <2>3. Stable!Cardinality(own) = Count(q)
      BY <2>1, OwnCount, StableCardinality
    <2>4. Stable!IsEmpty(c) <=> own = {}
      <3>1. Stable!IsEmpty(c) <=> Count(q) = 0
        BY <2>1, EmptyIs
      <3>2. /\ \A h \in own : h.index \in 0 .. Count(q) - 1
            /\ \A k \in 0 .. Count(q) - 1 : \E h \in own : h.index = k
        BY <2>1, OwnIndices
      <3> HIDE DEF own
      <3>3. CASE Count(q) = 0
        <4>1. 0 .. Count(q) - 1 = {}
          BY <3>3
        <4> QED
          BY <3>1, <3>2, <3>3, <4>1
      <3>4. CASE Count(q) # 0
        <4>1. 0 \in 0 .. Count(q) - 1
          BY <2>2, <3>4
        <4> QED
          BY <3>1, <3>2, <3>4, <4>1
      <3> QED
        BY <3>3, <3>4
    <2>5. ASSUME NEW h \in own
          PROVE  Stable!Entry(c, h.index).block = h.block /\ Stable!Entry(c, h.index).at = h.at
      <3>1. h \in handles /\ h.owner = c
        OBVIOUS
      <3>2. PICK i \in Nat : Refers(blocks, q, h, i)
        BY <1>1, <3>1
      <3>3. i \in DOMAIN q /\ h.at < q[i].end /\ h.block = q[i].block /\ Spot(h.index, i, h.at)
        BY <3>2 DEF Refers
      <3>4. h.index \in Nat
        BY <1>1, <3>1
      <3>5. h.index < Count(q)
        BY <2>1, <3>3, <3>4, SpotWithin
      <3>6. Stable!Entry(c, h.index) = PlaceOf(q, h.index)
        BY <2>1, <2>2, <3>4, <3>5, EntryIs
      <3>7. PlaceOf(q, h.index) = At(q, i, h.at)
        BY <2>2, <3>3, <3>4, <3>5, PlaceIs
      <3> QED
        BY <3>3, <3>6, <3>7 DEF At
    <2>6. Stable!Entry(c, Stable!SizeOf(c)) = Stable!End(c)
      <3>1. Stable!Entry(c, Count(q)) = PlaceOf(q, Count(q))
        BY <2>1, <2>2, EntryIs
      <3>2. PlaceOf(q, Count(q)) = Behind(q)
        BY DEF PlaceOf
      <3> QED
        BY <2>1, <2>2, <3>1, <3>2, BeginIs
    <2> QED
      BY <2>2, <2>3, <2>4, <2>5, <2>6
  <1>4. Stable!IterationExact
    BY <1>3 DEF Stable!IterationExact
  <1> QED
    BY <1>2, <1>4

-----------------------------------------------------------------------------
(* Stable containers: every call keeps that.                               *)

LEMMA StableInit == ContainersAssumption /\ Stable!Init => StableInv
  BY DEF StableInv, Stable!Init, Chunks

\* Memory that operator new returns is no chunk's.
LEMMA FreshBlock ==
    ASSUME StableInv, Stable!Free # {}
    PROVE  /\ Stable!Allocated \in Stable!Blocks /\ blocks[Stable!Allocated] = None
           /\ \A d \in Containers : \A j \in DOMAIN chunks[d] :
                 chunks[d][j].block # Stable!Allocated
  <1> DEFINE F == Stable!Free
             n == 2 * MaxInserted
  <1>1. n \in Nat /\ F \subseteq 0 .. n
    BY ContainersAssumption DEF Stable!Free, Stable!Blocks
  <1>2. \E b \in F : \A d \in F : b <= d
    <2> HIDE DEF F, n
    <2> QED
      BY <1>1, Least DEF F
  <1>3. Stable!Allocated = CHOOSE b \in F : \A d \in F : b <= d
    BY DEF Stable!Allocated, Stable!Min
  <1>4. Stable!Allocated \in F
    <2> HIDE DEF F
    <2> QED
      BY <1>2, <1>3
  <1>5. Stable!Allocated \in Stable!Blocks /\ blocks[Stable!Allocated] = None
    BY <1>4 DEF Stable!Free
  <1>6. \A d \in Containers : \A j \in DOMAIN chunks[d] : blocks[chunks[d][j].block] # None
    BY DEF StableInv, ChunkRight
  <1> QED
    BY <1>5, <1>6

\* Every entry has its chunk.
LEMMA EntryRight ==
    ASSUME StableInv, NEW h \in handles
    PROVE  /\ h.owner \in Containers /\ h.index \in Nat /\ h.value \in Values
           /\ h.block \in Stable!Blocks /\ h.at \in Nat
           /\ exists[h.owner] /\ chunks[h.owner] # <<>>
           /\ blocks[h.block] # None /\ h.at < Len(blocks[h.block])
           /\ \E i \in DOMAIN chunks[h.owner] : Refers(blocks, chunks[h.owner], h, i)
  <1>1. /\ h.owner \in Containers /\ h.index \in Nat /\ h.value \in Values
        /\ h.block \in Stable!Blocks /\ h.at \in Nat
    BY DEF StableInv
  <1>2. PICK i \in Nat : Refers(blocks, chunks[h.owner], h, i)
    BY DEF StableInv
  <1>3. i \in DOMAIN chunks[h.owner]
    BY <1>2 DEF Refers
  <1>4. ChunkRight(blocks, chunks[h.owner], i)
    BY <1>1, <1>3 DEF StableInv
  <1>5. chunks[h.owner] # <<>>
    BY <1>3
  <1>6. exists[h.owner]
    BY <1>1, <1>5 DEF StableInv
  <1>7. blocks[h.block] # None /\ h.at < Len(blocks[h.block])
    BY <1>2, <1>4 DEF ChunkRight, Refers
  <1> QED
    BY <1>1, <1>2, <1>3, <1>5, <1>6, <1>7

LEMMA StableConstructKeeps ==
    ASSUME StableInv, NEW c \in Containers, Stable!Construct(c)
    PROVE  StableInv'
  <1> DEFINE b == Stable!Allocated
             q == <<Stable!Chunk(b, 0, 1)>>
  <1>1. /\ ~ exists[c] /\ Stable!Free # {}
        /\ exists' = [exists EXCEPT ![c] = TRUE]
        /\ blocks' = [blocks EXCEPT ![b] = <<>>]
        /\ chunks' = [chunks EXCEPT ![c] = q]
        /\ handles' = handles
    BY DEF Stable!Construct
  <1>2. /\ b \in Stable!Blocks /\ blocks[b] = None
        /\ \A d \in Containers : \A j \in DOMAIN chunks[d] : chunks[d][j].block # b
    BY <1>1, FreshBlock
  <1>3. q \in Seq(Chunks) /\ DOMAIN q = {1} /\ Len(q) = 1 /\ q # <<>>
        /\ q[1] = [block |-> b, end |-> 0, cap |-> 1]
    BY <1>2 DEF Chunks, Stable!Chunk
  <1> HIDE DEF b, q
  <1>4. /\ blocks \in [Stable!Blocks -> Seq(Values) \union {None}]
        /\ exists \in [Containers -> BOOLEAN]
        /\ chunks \in [Containers -> Seq(Chunks)]
    BY DEF StableInv
  <1>5. /\ blocks' \in [Stable!Blocks -> Seq(Values) \union {None}]
        /\ exists' \in [Containers -> BOOLEAN]
        /\ chunks' \in [Containers -> Seq(Chunks)]
    BY <1>1, <1>2, <1>3, <1>4
  <1>6. /\ blocks'[b] = <<>> /\ \A d \in Stable!Blocks : d # b => blocks'[d] = blocks[d]
        /\ chunks'[c] = q /\ \A d \in Containers : d # c => chunks'[d] = chunks[d]
        /\ exists'[c] /\ \A d \in Containers : d # c => exists'[d] = exists[d]
    BY <1>1, <1>2, <1>4
  <1>7. ASSUME NEW d \in Containers, d # c, NEW i \in DOMAIN chunks[d]
        PROVE  ChunkRight(blocks', chunks[d], i)
    <2>1. chunks[d][i].block \in Stable!Blocks
      <3>1. chunks[d][i] \in Chunks
        BY <1>4, ElementOfSeq
      <3> QED
        BY <3>1 DEF Chunks
    <2>2. blocks'[chunks[d][i].block] = blocks[chunks[d][i].block]
      BY <1>2, <1>6, <2>1
    <2>3. ChunkRight(blocks, chunks[d], i)
      BY DEF StableInv
    <2> QED
      BY <2>2, <2>3 DEF ChunkRight
  <1>8. ChunkRight(blocks', q, 1)
    <2>1. None # <<>>
      <3>1. <<>> \in Seq(Values)
        OBVIOUS
      <3> QED
        BY <3>1, ContainersAssumption
    <2>2. Stable!Shifted[1 - 1] = 1
      BY ShiftedIs
    <2>3. Len(<<>>) = 0
      OBVIOUS
    <2> QED
      BY <1>3, <1>6, <2>1, <2>2, <2>3 DEF ChunkRight
  <1>9. ASSUME NEW h \in handles
        PROVE  h.owner # c /\ \E i \in Nat : Refers(blocks', chunks'[h.owner], h, i)
    <2>1. h.owner \in Containers /\ exists[h.owner] /\ h.block \in Stable!Blocks
          /\ blocks[h.block] # None
      BY EntryRight
    <2>2. h.owner # c
      BY <1>1, <2>1
    <2>3. blocks'[h.block] = blocks[h.block]
      BY <1>2, <1>6, <2>1
    <2>4. PICK i \in Nat : Refers(blocks, chunks[h.owner], h, i)
      BY DEF StableInv
    <2>5. Refers(blocks', chunks'[h.owner], h, i)
      BY <1>6, <2>1, <2>2, <2>3, <2>4 DEF Refers
    <2> QED
      BY <2>2, <2>5
  <1>10. \A d \in Containers : ~ exists'[d] => chunks'[d] = <<>>
    BY <1>6 DEF StableInv
  <1>11. \A d \in Containers : \A i \in DOMAIN chunks'[d] : ChunkRight(blocks', chunks'[d], i)
    BY <1>3, <1>6, <1>7, <1>8
  <1>12. \A d, e \in Containers : \A i \in DOMAIN chunks'[d], j \in DOMAIN chunks'[e] :
            chunks'[d][i].block = chunks'[e][j].block => d = e /\ i = j
    <2> TAKE d, e \in Containers
    <2> TAKE i \in DOMAIN chunks'[d], j \in DOMAIN chunks'[e]
    <2>1. CASE d # c /\ e # c
      BY <1>6, <2>1 DEF StableInv
    <2>2. CASE d = c /\ e = c
      BY <1>3, <1>6, <2>2
    <2>3. CASE d = c /\ e # c
      BY <1>2, <1>3, <1>6, <2>3
    <2>4. CASE d # c /\ e = c
      BY <1>2, <1>3, <1>6, <2>4
    <2> QED
      BY <2>1, <2>2, <2>3, <2>4
  <1>13. \A d \in Containers : \A i \in DOMAIN chunks'[d], a \in Nat :
            a < chunks'[d][i].end =>
               \E h \in handles : h.owner = d /\ h.block = chunks'[d][i].block /\ h.at = a
    <2> TAKE d \in Containers
    <2> TAKE i \in DOMAIN chunks'[d], a \in Nat
    <2>1. CASE d = c
      BY <1>3, <1>6, <2>1
    <2>2. CASE d # c
      BY <1>6, <2>2 DEF StableInv
    <2> QED
      BY <2>1, <2>2
  <1>14. /\ handles \subseteq [owner : Containers, index : Nat, value : Values,
                               block : Stable!Blocks, at : Nat]
         /\ \A g, h \in handles : g.block = h.block /\ g.at = h.at => g = h
    BY DEF StableInv
  <1>15. \A h \in handles : \E i \in Nat : Refers(blocks', chunks'[h.owner], h, i)
    BY <1>9
  <1>16. /\ handles' \subseteq [owner : Containers, index : Nat, value : Values,
                                block : Stable!Blocks, at : Nat]
         /\ \A h \in handles' : \E i \in Nat : Refers(blocks', chunks'[h.owner], h, i)
         /\ \A d \in Containers : \A i \in DOMAIN chunks'[d], a \in Nat :
               a < chunks'[d][i].end =>
                  \E h \in handles' : h.owner = d /\ h.block = chunks'[d][i].block /\ h.at = a
         /\ \A g, h \in handles' : g.block = h.block /\ g.at = h.at => g = h
    <2>1. handles' = handles
      BY <1>1
    <2> QED
      BY <1>13, <1>14, <1>15, <2>1
  <1> QED
    BY <1>5, <1>10, <1>11, <1>12, <1>16, Zenon DEF StableInv

\* One more element, the last of the m-th chunk, which is a block's first free
\* place: in a chunk that was the last one already, or in one that is new.
Longer(c, v, k, b, m, e, r, before) ==
    /\ v \in Values /\ k \in Nat /\ b \in Stable!Blocks /\ m \in Nat \ {0} /\ e \in Nat
    /\ r \in Seq(Chunks) /\ DOMAIN r = 1 .. m /\ Len(r) = m
    /\ \A i \in 1 .. m : i # m => /\ i \in DOMAIN chunks[c] /\ r[i] = chunks[c][i]
                                  /\ r[i].end = r[i].cap
    /\ DOMAIN chunks[c] \subseteq 1 .. m
    /\ m \in DOMAIN chunks[c] => chunks[c][m].block = b /\ chunks[c][m].end = e
    /\ ~ (m \in DOMAIN chunks[c]) => e = 0
    /\ r[m].block = b /\ r[m].cap = Stable!Shifted[m - 1]
    /\ r[m].end = e + 1 /\ e + 1 <= Stable!Shifted[m - 1]
    /\ before \in Seq(Values) /\ Len(before) = e
    /\ blocks[b] # None => before = blocks[b]
    /\ \A d \in Containers : \A j \in DOMAIN chunks[d] :
          chunks[d][j].block = b => d = c /\ j = m
    /\ Spot(k, m, e)
    /\ blocks' = [blocks EXCEPT ![b] = Append(before, v)]
    /\ chunks' = [chunks EXCEPT ![c] = r] /\ exists' = exists
    /\ handles' = handles \union
          {[owner |-> c, index |-> k, value |-> v, block |-> b, at |-> e]}

LEMMA LongerKeeps ==
    ASSUME StableInv, NEW c \in Containers, exists[c],
           NEW v, NEW k, NEW b, NEW m, NEW e, NEW r, NEW before,
           Longer(c, v, k, b, m, e, r, before)
    PROVE  StableInv'
  <1> DEFINE entry == [owner |-> c, index |-> k, value |-> v, block |-> b, at |-> e]
             longer == Append(before, v)
             Entries == [owner : Containers, index : Nat, value : Values,
                         block : Stable!Blocks, at : Nat]
             q == chunks[c]
  <1> USE DEF Longer
  <1>1. /\ longer \in Seq(Values) /\ Len(longer) = e + 1 /\ longer[e + 1] = v
        /\ \A a \in Nat : a < e => longer[a + 1] = before[a + 1]
    OBVIOUS
  <1>2. longer # None
    BY <1>1, ContainersAssumption
  <1>3. /\ entry \in Entries /\ entry.owner = c /\ entry.index = k /\ entry.value = v
        /\ entry.block = b /\ entry.at = e
    OBVIOUS
  <1>4. /\ blocks \in [Stable!Blocks -> Seq(Values) \union {None}]
        /\ exists \in [Containers -> BOOLEAN]
        /\ chunks \in [Containers -> Seq(Chunks)]
        /\ handles \subseteq Entries
    BY DEF StableInv
  <1>5. handles' = handles \union {entry} /\ blocks' = [blocks EXCEPT ![b] = longer]
    OBVIOUS
  <1> HIDE DEF entry, longer
  <1>6. /\ blocks' \in [Stable!Blocks -> Seq(Values) \union {None}]
        /\ exists' \in [Containers -> BOOLEAN]
        /\ chunks' \in [Containers -> Seq(Chunks)]
    BY <1>1, <1>4, <1>5
  <1>7. handles' \subseteq Entries
    BY <1>3, <1>4, <1>5
  <1>8. /\ blocks'[b] = longer /\ \A d \in Stable!Blocks : d # b => blocks'[d] = blocks[d]
        /\ chunks'[c] = r /\ \A d \in Containers : d # c => chunks'[d] = chunks[d]
    BY <1>4, <1>5
  <1>9. ASSUME NEW d \in Containers, NEW i \in DOMAIN chunks[d]
        PROVE  chunks[d][i] \in Chunks /\ chunks[d][i].block \in Stable!Blocks
               /\ chunks[d][i].end \in Nat
    <2>1. chunks[d][i] \in Chunks
      BY <1>4, ElementOfSeq
    <2> QED
      BY <2>1 DEF Chunks
  <1>10. \A d \in Containers : ~ exists'[d] => chunks'[d] = <<>>
    BY <1>8 DEF StableInv
  <1>11. \A d \in Containers : \A i \in DOMAIN chunks'[d] : ChunkRight(blocks', chunks'[d], i)
    <2> TAKE d \in Containers
    <2> TAKE i \in DOMAIN chunks'[d]
    <2>1. CASE d # c
      <3>1. ChunkRight(blocks, chunks[d], i)
        BY <1>8, <2>1 DEF StableInv
      <3>2. chunks[d][i].block # b /\ chunks[d][i].block \in Stable!Blocks
        BY <1>8, <1>9, <2>1
      <3>3. blocks'[chunks[d][i].block] = blocks[chunks[d][i].block]
        BY <1>8, <3>2
      <3>4. ChunkRight(blocks', chunks[d], i)
        BY <3>1, <3>3 DEF ChunkRight
      <3> QED
        BY <1>8, <2>1, <3>4
    <2>2. CASE d = c /\ i = m
      <3>1. r[m].cap = Stable!Shifted[m - 1] /\ r[m].end = e + 1 /\ r[m].end <= r[m].cap
            /\ e + 1 > 0 /\ ~ (m < Len(r))
        OBVIOUS
      <3>2. blocks'[r[m].block] # None /\ Len(blocks'[r[m].block]) = r[m].end
        BY <1>1, <1>2, <1>8
      <3>3. ChunkRight(blocks', r, m)
        BY <3>1, <3>2 DEF ChunkRight
      <3> QED
        BY <1>8, <2>2, <3>3
    <2>3. CASE d = c /\ i # m
      <3>1. i \in 1 .. m /\ i \in DOMAIN q /\ r[i] = q[i] /\ r[i].end = r[i].cap
        BY <1>8, <2>3
      <3>2. ChunkRight(blocks, q, i)
        BY <3>1 DEF StableInv
      <3>3. q[i].block # b /\ q[i].block \in Stable!Blocks
        BY <1>9, <2>3, <3>1
      <3>4. blocks'[q[i].block] = blocks[q[i].block]
        BY <1>8, <3>3
      <3>5. ChunkRight(blocks', r, i)
        BY <3>1, <3>2, <3>4 DEF ChunkRight
      <3> QED
        BY <1>8, <2>3, <3>5
    <2> QED
      BY <2>1, <2>2, <2>3
  <1>12. \A d, f \in Containers : \A i \in DOMAIN chunks'[d], j \in DOMAIN chunks'[f] :
            chunks'[d][i].block = chunks'[f][j].block => d = f /\ i = j
    <2>1. ASSUME NEW d \in Containers, NEW i \in DOMAIN chunks'[d]
          PROVE  \/ d = c /\ i = m /\ chunks'[d][i].block = b
                 \/ /\ i \in DOMAIN chunks[d] /\ chunks'[d][i] = chunks[d][i]
                    /\ chunks'[d][i].block # b
      <3>1. CASE d # c
        BY <1>8, <3>1
      <3>2. CASE d = c /\ i = m
        BY <1>8, <3>2
      <3>3. CASE d = c /\ i # m
        BY <1>8, <3>3
      <3> QED
        BY <3>1, <3>2, <3>3
    <2> TAKE d, f \in Containers
    <2> TAKE i \in DOMAIN chunks'[d], j \in DOMAIN chunks'[f]
    <2> HAVE chunks'[d][i].block = chunks'[f][j].block
    <2>2. CASE chunks'[d][i].block = b
      BY <2>1, <2>2
    <2>3. CASE chunks'[d][i].block # b
      <3>1. /\ i \in DOMAIN chunks[d] /\ chunks'[d][i] = chunks[d][i]
            /\ j \in DOMAIN chunks[f] /\ chunks'[f][j] = chunks[f][j]
        BY <2>1, <2>3
      <3>2. \A x \in DOMAIN chunks[d], y \in DOMAIN chunks[f] :
               chunks[d][x].block = chunks[f][y].block => d = f /\ x = y
        BY DEF StableInv
      <3> QED
        BY <3>1, <3>2
    <2> QED
      BY <2>2, <2>3
  <1>13. ASSUME NEW h \in handles
         PROVE  /\ \E i \in Nat : Refers(blocks', chunks'[h.owner], h, i)
                /\ h.block = b => h.at < e
    <2>1. /\ h.owner \in Containers /\ h.block \in Stable!Blocks /\ h.at \in Nat
          /\ blocks[h.block] # None /\ h.at < Len(blocks[h.block])
      BY EntryRight
    <2>2. PICK i \in DOMAIN chunks[h.owner] : Refers(blocks, chunks[h.owner], h, i)
      BY EntryRight
    <2>3. /\ h.block = chunks[h.owner][i].block /\ h.at < chunks[h.owner][i].end
          /\ Spot(h.index, i, h.at) /\ blocks[h.block][h.at + 1] = h.value
      BY <2>2 DEF Refers
    <2>4. i \in Nat
      BY <2>3 DEF Spot
    <2>5. CASE h.block = b
      <3>1. h.owner = c /\ i = m /\ before = blocks[b]
        <4>1. chunks[h.owner][i].block = b
          BY <2>3, <2>5
        <4>2. h.owner = c /\ i = m
          BY <2>1, <2>2, <4>1
        <4> QED
          BY <2>1, <2>5, <4>2
      <3>2. h.at < e
        BY <2>1, <2>5, <3>1
      <3>3. longer[h.at + 1] = h.value
        BY <1>1, <2>1, <2>3, <2>5, <3>1, <3>2
      <3>4. h.at < e + 1
        BY <2>1, <3>2
      <3>5. Refers(blocks', r, h, m)
        BY <1>8, <2>3, <2>5, <3>1, <3>3, <3>4 DEF Refers
      <3> QED
        BY <1>8, <2>4, <3>1, <3>2, <3>5
    <2>6. CASE h.block # b
      <3>1. blocks'[h.block] = blocks[h.block]
        BY <1>8, <2>1, <2>6
      <3>2. i \in DOMAIN chunks'[h.owner] /\ chunks'[h.owner][i] = chunks[h.owner][i]
        <4>1. CASE h.owner # c
          BY <1>8, <2>1, <2>2, <4>1
        <4>2. CASE h.owner = c
          <5>1. i \in 1 .. m
            BY <2>2, <4>2
          <5>2. i # m
            BY <2>2, <2>3, <2>6, <4>2
          <5> QED
            BY <1>8, <4>2, <5>1, <5>2
        <4> QED
          BY <4>1, <4>2
      <3>3. Refers(blocks', chunks'[h.owner], h, i)
        BY <2>3, <3>1, <3>2 DEF Refers
      <3> QED
        BY <2>4, <2>6, <3>3
    <2> QED
      BY <2>5, <2>6
  <1>14. Refers(blocks', chunks'[entry.owner], entry, m)
    <2>1. Refers(blocks', r, entry, m)
      BY <1>1, <1>3, <1>8 DEF Refers
    <2> QED
      BY <1>3, <1>8, <2>1
  <1>15. \A h \in handles' : \E i \in Nat : Refers(blocks', chunks'[h.owner], h, i)
    <2> TAKE h \in handles'
    <2>1. CASE h \in handles
      BY <1>13, <2>1
    <2>2. CASE h = entry
      BY <1>14, <2>2
    <2> QED
      BY <1>5, <2>1, <2>2
  <1>16. \A d \in Containers : \A i \in DOMAIN chunks'[d], a \in Nat :
            a < chunks'[d][i].end =>
               \E h \in handles' : h.owner = d /\ h.block = chunks'[d][i].block /\ h.at = a
    <2> TAKE d \in Containers
    <2> TAKE i \in DOMAIN chunks'[d], a \in Nat
    <2> HAVE a < chunks'[d][i].end
    <2>1. CASE /\ i \in DOMAIN chunks[d] /\ chunks'[d][i].block = chunks[d][i].block
               /\ a < chunks[d][i].end
      <3>1. PICK h \in handles : h.owner = d /\ h.block = chunks[d][i].block /\ h.at = a
        BY <2>1 DEF StableInv
      <3> QED
        BY <1>5, <2>1, <3>1
    <2>2. CASE d # c
      BY <1>8, <2>1, <2>2
    <2>3. CASE d = c /\ i # m
      BY <1>8, <2>1, <2>3
    <2>4. CASE d = c /\ i = m
      <3>1. chunks'[d][i].block = b /\ a < e + 1
        BY <1>8, <2>4
      <3>2. CASE a = e
        BY <1>3, <1>5, <2>4, <3>1, <3>2
      <3>3. CASE a # e
        <4>1. a < e
          BY <3>1, <3>3
        <4>2. m \in DOMAIN chunks[c]
          BY <4>1
        <4> QED
          BY <2>1, <2>4, <3>1, <4>1, <4>2
      <3> QED
        BY <3>2, <3>3
    <2> QED
      BY <2>2, <2>3, <2>4
  <1>17. \A g, h \in handles' : g.block = h.block /\ g.at = h.at => g = h
    <2>1. \A g, h \in handles : g.block = h.block /\ g.at = h.at => g = h
      BY DEF StableInv
    <2>2. \A h \in handles : ~ (h.block = b /\ h.at = e)
      BY <1>13
    <2> QED
      BY <1>3, <1>5, <2>1, <2>2
  <1> QED
    BY <1>6, <1>7, <1>10, <1>11, <1>12, <1>15, <1>16, <1>17, Zenon DEF StableInv

LEMMA StableInsertKeeps ==
    ASSUME StableInv, NEW c \in Containers, NEW v \in Values, Stable!Insert(c, v)
    PROVE  StableInv'
  <1> DEFINE q == chunks[c]
             n == Len(q)
             r == Stable!InsertionLocation(c)
             b == Stable!Last(r).block
             before == IF blocks[b] = None THEN <<>> ELSE blocks[b]
             k == Stable!SizeOf(c)
             e == Stable!Last(r).end - 1
  <1>1. /\ Stable!Intact(c) /\ (Stable!Remaining(c) = 0 => Stable!Free # {})
        /\ chunks' = [chunks EXCEPT ![c] = r]
        /\ blocks' = [blocks EXCEPT ![b] = Append(before, v)]
        /\ handles' = handles \union
              {[owner |-> c, index |-> k, value |-> v, block |-> b, at |-> e]}
        /\ exists' = exists
    BY DEF Stable!Insert
  <1>2. exists[c] /\ q # <<>>
    BY <1>1 DEF Stable!Intact
  <1>3. /\ n \in Nat \ {0} /\ n \in DOMAIN q
        /\ q[n] \in Chunks
        /\ Stable!Remaining(c) = q[n].cap - q[n].end
        /\ Stable!Remaining(c) \in Nat
        /\ k = Count(q) /\ Count(q) \in Nat
        /\ Count(q) = Stable!Shifted[n - 1] - 1 + q[n].end
    BY <1>2, TopIs DEF Count
  <1>4. q \in Seq(Chunks) /\ DOMAIN q = 1 .. n
    BY LenProperties DEF StableInv
  <1>5. \A i \in 1 .. n : /\ q[i].cap = Stable!Shifted[i - 1] /\ q[i].end <= q[i].cap
                          /\ i < n => q[i].end = q[i].cap
                          /\ blocks[q[i].block] # None
                          /\ Len(blocks[q[i].block]) = q[i].end
    BY <1>4 DEF StableInv, ChunkRight
  <1>6. q[n].end \in Nat /\ q[n].cap \in Nat /\ q[n].block \in Stable!Blocks
    BY <1>3 DEF Chunks
  <1>7. blocks \in [Stable!Blocks -> Seq(Values) \union {None}]
    BY DEF StableInv
  <1>8. \A d \in Containers : \A i \in DOMAIN q, j \in DOMAIN chunks[d] :
           q[i].block = chunks[d][j].block => d = c /\ i = j
    BY DEF StableInv
  <1>9. CASE Stable!Remaining(c) # 0
    <2>1. r = [q EXCEPT ![n].end = @ + 1]
      BY <1>9 DEF Stable!InsertionLocation
    <2>2. /\ [q[n] EXCEPT !.end = @ + 1] \in Chunks
          /\ [q[n] EXCEPT !.end = @ + 1].end = q[n].end + 1
          /\ [q[n] EXCEPT !.end = @ + 1].cap = q[n].cap
          /\ [q[n] EXCEPT !.end = @ + 1].block = q[n].block
      BY <1>3, <1>6 DEF Chunks
    <2>3. /\ r \in Seq(Chunks) /\ DOMAIN r = 1 .. n /\ Len(r) = n
          /\ r[n] = [q[n] EXCEPT !.end = @ + 1]
          /\ \A i \in 1 .. n : i # n => r[i] = q[i]
      <3> DEFINE x == [q[n] EXCEPT !.end = @ + 1]
      <3>1. r = [q EXCEPT ![n] = x]
        BY <2>1
      <3>2. x \in Chunks
        BY <2>2
      <3> HIDE DEF x, r, q, n
      <3> QED
        BY <1>3, <1>4, <3>1, <3>2, ExceptSeq DEF n, x
    <2> HIDE DEF r
    <2>4. r # <<>> /\ Stable!Last(r) = r[n]
      BY <1>3, <2>3, EmptySeq DEF Stable!Last
    <2>5. /\ b = q[n].block /\ e = q[n].end /\ before = blocks[b] /\ before \in Seq(Values)
          /\ Len(before) = e
      <3>1. b = q[n].block /\ e = q[n].end
        <4>1. Stable!Last(r).block = q[n].block /\ Stable!Last(r).end = q[n].end + 1
          BY <2>2, <2>3, <2>4
        <4>2. \A x, y : y \in Nat /\ x = y + 1 => x - 1 = y
          OBVIOUS
        <4> QED
          BY <1>6, <4>1, <4>2
      <3>2. blocks[b] # None /\ Len(blocks[b]) = q[n].end /\ b \in Stable!Blocks
        BY <1>3, <1>4, <1>5, <1>6, <3>1
      <3>3. before = blocks[b]
        BY <3>2
      <3>4. before \in Seq(Values)
        BY <1>7, <3>2, <3>3
      <3>5. e = q[n].end
        BY <1>6, <3>1
      <3> HIDE DEF b, e, before
      <3> QED
        BY <3>1, <3>2, <3>3, <3>4, <3>5
    <2>6. /\ e + 1 <= Stable!Shifted[n - 1] /\ e \in Nat
          /\ q[n].cap = Stable!Shifted[n - 1]
      <3>1. q[n].cap = Stable!Shifted[n - 1] /\ q[n].end <= q[n].cap
        BY <1>3, <1>4, <1>5
      <3> HIDE DEF e, n, q
      <3> QED
        BY <1>3, <1>6, <1>9, <2>5, <3>1
    <2>7. Spot(k, n, e)
      <3>1. /\ n \in Nat \ {0} /\ e \in Nat /\ e < Stable!Shifted[n - 1]
            /\ k = Stable!Shifted[n - 1] - 1 + e
        <4>1. n - 1 \in Nat
          BY <1>3
        <4>2. Stable!Shifted[n - 1] \in Nat
          BY <4>1, ShiftedIs
        <4> HIDE DEF e, n, q, k
        <4> QED
          BY <1>3, <2>5, <2>6, <4>2
      <3> QED
        BY <3>1 DEF Spot
    <2>8. \A i \in 1 .. n : i # n => i \in DOMAIN q /\ r[i] = q[i] /\ r[i].end = r[i].cap
      BY <1>3, <1>4, <1>5, <2>3
    <2> HIDE DEF b, e, before, k, n
    <2>9. /\ b \in Stable!Blocks /\ k \in Nat /\ n \in Nat \ {0}
          /\ n \in DOMAIN chunks[c] /\ DOMAIN chunks[c] \subseteq 1 .. n
          /\ chunks[c][n].block = b /\ chunks[c][n].end = e
      BY <1>3, <1>4, <1>6, <2>5
    <2>10. /\ r[n].block = b /\ r[n].cap = Stable!Shifted[n - 1] /\ r[n].end = e + 1
      BY <2>2, <2>3, <2>5, <2>6
    <2>11. \A d \in Containers : \A j \in DOMAIN chunks[d] :
              chunks[d][j].block = b => d = c /\ j = n
      BY <1>8, <2>9
    <2>12. \A i \in 1 .. n : i # n => /\ i \in DOMAIN chunks[c] /\ r[i] = chunks[c][i]
                                     /\ r[i].end = r[i].cap
      BY <2>8
    <2> HIDE DEF q
    <2>50. Longer(c, v, k, b, n, e, r, before)
      BY <1>1, <1>2, <2>3, <2>5, <2>6, <2>7, <2>9, <2>10, <2>11, <2>12 DEF Longer
    <2> QED
      BY <1>2, <2>50, LongerKeeps
  <1>10. CASE Stable!Remaining(c) = 0
    <2> DEFINE x == Stable!Chunk(Stable!Allocated, 1, Stable!Shifted[n])
    <2>1. r = Append(q, x)
      BY <1>10 DEF Stable!InsertionLocation
    <2>2. /\ Stable!Allocated \in Stable!Blocks /\ blocks[Stable!Allocated] = None
          /\ \A d \in Containers : \A j \in DOMAIN chunks[d] :
                chunks[d][j].block # Stable!Allocated
      BY <1>1, <1>10, FreshBlock
    <2>3. /\ Stable!Shifted[n] \in Nat /\ Stable!Shifted[n] > 0
          /\ Stable!Shifted[n] = 2 * Stable!Shifted[n - 1] /\ Stable!Shifted[n - 1] \in Nat
      <3>1. n - 1 \in Nat /\ (n - 1) + 1 = n
        BY <1>3
      <3> QED
        BY <1>3, <3>1, ShiftedIs
    <2>4. /\ x \in Chunks /\ x.block = Stable!Allocated /\ x.end = 1
          /\ x.cap = Stable!Shifted[n]
      BY <2>2, <2>3 DEF Chunks, Stable!Chunk
    <2> HIDE DEF x, r
    <2>5. /\ r \in Seq(Chunks) /\ DOMAIN r = 1 .. n + 1 /\ Len(r) = n + 1
          /\ r[n + 1] = x
          /\ \A i \in 1 .. n : r[i] = q[i]
      BY <1>3, <1>4, <2>1, <2>4, AppendProperties
    <2>6. r # <<>> /\ Stable!Last(r) = r[n + 1]
      BY <1>3, <2>5, EmptySeq DEF Stable!Last
    <2>7. b = Stable!Allocated /\ e = 0 /\ before = <<>> /\ before \in Seq(Values)
          /\ Len(before) = 0
      BY <2>2, <2>4, <2>5, <2>6
    <2>8. q[n].end = Stable!Shifted[n - 1]
      BY <1>3, <1>5, <1>6, <1>10
    <2>9. n + 1 \in Nat \ {0} /\ (n + 1) - 1 = n
      BY <1>3
    <2>10. k = Stable!Shifted[n] - 1 + 0
      BY <1>3, <2>3, <2>8
    <2>11. Spot(k, n + 1, e)
      BY <2>3, <2>7, <2>9, <2>10 DEF Spot
    <2>12. \A i \in 1 .. n + 1 : i # n + 1 =>
              i \in DOMAIN q /\ r[i] = q[i] /\ r[i].end = r[i].cap
      BY <1>3, <1>4, <1>5, <1>6, <1>10, <2>5
    <2>13. DOMAIN q \subseteq 1 .. n + 1 /\ ~ (n + 1 \in DOMAIN q)
      BY <1>3, <1>4
    <2>14. e + 1 <= Stable!Shifted[(n + 1) - 1] /\ r[n + 1].end = e + 1
           /\ r[n + 1].cap = Stable!Shifted[(n + 1) - 1] /\ r[n + 1].block = b
      BY <2>3, <2>4, <2>5, <2>7, <2>9
    <2> HIDE DEF b, e, before, k, n
    <2>15. e \in Nat /\ b \in Stable!Blocks /\ blocks[b] = None /\ Len(before) = e /\ k \in Nat
      BY <1>3, <2>2, <2>7
    <2>16. \A d \in Containers : \A j \in DOMAIN chunks[d] :
              chunks[d][j].block = b => d = c /\ j = n + 1
      BY <2>2, <2>7
    <2>17. \A i \in 1 .. n + 1 : i # n + 1 => /\ i \in DOMAIN chunks[c] /\ r[i] = chunks[c][i]
                                             /\ r[i].end = r[i].cap
      BY <2>12
    <2>18. DOMAIN chunks[c] \subseteq 1 .. n + 1 /\ ~ (n + 1 \in DOMAIN chunks[c]) /\ before \in Seq(Values)
      BY <2>7, <2>13
    <2> HIDE DEF q
    <2> DEFINE m == n + 1
    <2>19. m \in Nat \ {0} /\ DOMAIN r = 1 .. m /\ Len(r) = m /\ r \in Seq(Chunks)
      BY <2>5, <2>9
    <2>20. /\ e + 1 <= Stable!Shifted[m - 1] /\ r[m].end = e + 1
           /\ r[m].cap = Stable!Shifted[m - 1] /\ r[m].block = b
      BY <2>14
    <2>21. /\ Spot(k, m, e)
           /\ DOMAIN chunks[c] \subseteq 1 .. m /\ ~ (m \in DOMAIN chunks[c])
           /\ \A d \in Containers : \A j \in DOMAIN chunks[d] :
                chunks[d][j].block = b => d = c /\ j = m
           /\ \A i \in 1 .. m : i # m => /\ i \in DOMAIN chunks[c] /\ r[i] = chunks[c][i]
                                         /\ r[i].end = r[i].cap
      BY <2>11, <2>16, <2>17, <2>18
    <2>22. e = 0
      BY <2>7
    <2> HIDE DEF m
    <2>50. Longer(c, v, k, b, m, e, r, before)
      BY <1>1, <1>2, <2>15, <2>18, <2>19, <2>20, <2>21, <2>22 DEF Longer
    <2> QED
      BY <1>2, <2>50, LongerKeeps
  <1> QED
    BY <1>9, <1>10

LEMMA StableMoveKeeps ==
    ASSUME StableInv, NEW c \in Containers, NEW other \in Containers,
           Stable!MoveConstruct(c, other)
    PROVE  StableInv'
  <1> DEFINE Entries == [owner : Containers, index : Nat, value : Values,
                         block : Stable!Blocks, at : Nat]
             Moved(h) == Stable!Owning(h, other, c)
             Now(o) == IF o = other THEN c ELSE o
  <1>1. /\ ~ exists[c] /\ exists[other]
        /\ exists' = [exists EXCEPT ![c] = TRUE]
        /\ chunks' = [chunks EXCEPT ![c] = chunks[other], ![other] = <<>>]
        /\ handles' = {Moved(h) : h \in handles}
        /\ blocks' = blocks
    BY DEF Stable!MoveConstruct
  <1>2. /\ blocks \in [Stable!Blocks -> Seq(Values) \union {None}]
        /\ exists \in [Containers -> BOOLEAN]
        /\ chunks \in [Containers -> Seq(Chunks)]
        /\ handles \subseteq Entries
    BY DEF StableInv
  <1>3. c # other
    BY <1>1
  <1>4. /\ blocks' \in [Stable!Blocks -> Seq(Values) \union {None}]
        /\ exists' \in [Containers -> BOOLEAN]
        /\ chunks' \in [Containers -> Seq(Chunks)]
        /\ chunks'[c] = chunks[other] /\ chunks'[other] = <<>>
        /\ \A d \in Containers : d # c /\ d # other => chunks'[d] = chunks[d]
        /\ exists'[c] /\ \A d \in Containers : d # c => exists'[d] = exists[d]
    BY <1>1, <1>2, <1>3
  <1>5. \A h \in handles : /\ Moved(h) \in Entries /\ Moved(h).owner = Now(h.owner)
                           /\ Moved(h).index = h.index /\ Moved(h).value = h.value
                           /\ Moved(h).block = h.block /\ Moved(h).at = h.at
    BY <1>2 DEF Stable!Owning
  <1> HIDE DEF Moved
  <1>6. chunks[c] = <<>>
    BY <1>1 DEF StableInv
  <1>7. \A o \in Containers : o # c => chunks'[Now(o)] = chunks[o]
    BY <1>4
  <1>8. handles' \subseteq Entries
    BY <1>1, <1>5
  <1>9. \A d \in Containers : ~ exists'[d] => chunks'[d] = <<>>
    BY <1>4 DEF StableInv
  <1>10. ASSUME NEW d \in Containers, NEW i \in DOMAIN chunks'[d]
         PROVE  \E o \in Containers : /\ o # c /\ d = Now(o) /\ chunks'[d] = chunks[o]
    <2>1. CASE d = c
      BY <1>3, <1>4, <2>1
    <2>2. CASE d # c
      <3>1. d # other
        BY <1>4
      <3> QED
        BY <1>4, <2>2, <3>1
    <2> QED
      BY <2>1, <2>2
  <1> HIDE DEF Now
  <1>11. \A d \in Containers : \A i \in DOMAIN chunks'[d] : ChunkRight(blocks', chunks'[d], i)
    <2> TAKE d \in Containers
    <2> TAKE i \in DOMAIN chunks'[d]
    <2>1. PICK o \in Containers : chunks'[d] = chunks[o]
      BY <1>10
    <2>2. ChunkRight(blocks, chunks[o], i)
      BY <2>1 DEF StableInv
    <2> QED
      BY <1>1, <2>1, <2>2
  <1>12. \A d, e \in Containers : \A i \in DOMAIN chunks'[d], j \in DOMAIN chunks'[e] :
            chunks'[d][i].block = chunks'[e][j].block => d = e /\ i = j
    <2> TAKE d, e \in Containers
    <2> TAKE i \in DOMAIN chunks'[d], j \in DOMAIN chunks'[e]
    <2> HAVE chunks'[d][i].block = chunks'[e][j].block
    <2>1. PICK o \in Containers : d = Now(o) /\ chunks'[d] = chunks[o]
      BY <1>10
    <2>2. PICK p \in Containers : e = Now(p) /\ chunks'[e] = chunks[p]
      BY <1>10
    <2>3. o = p /\ i = j
      BY <2>1, <2>2 DEF StableInv
    <2> QED
      BY <2>1, <2>2, <2>3
  <1>13. \A h \in handles' : \E i \in Nat : Refers(blocks', chunks'[h.owner], h, i)
    <2> SUFFICES ASSUME NEW h \in handles
                 PROVE  \E i \in Nat : Refers(blocks', chunks'[Moved(h).owner], Moved(h), i)
      BY <1>1
    <2>1. h.owner \in Containers /\ exists[h.owner]
      BY EntryRight
    <2>2. h.owner # c
      BY <1>1, <2>1
    <2>3. chunks'[Moved(h).owner] = chunks[h.owner]
      BY <1>5, <1>7, <2>1, <2>2
    <2>4. PICK i \in Nat : Refers(blocks, chunks[h.owner], h, i)
      BY DEF StableInv
    <2>5. Refers(blocks', chunks[h.owner], Moved(h), i)
      BY <1>1, <1>5, <2>4 DEF Refers
    <2> QED
      BY <2>3, <2>5
  <1>14. \A d \in Containers : \A i \in DOMAIN chunks'[d], a \in Nat :
            a < chunks'[d][i].end =>
               \E h \in handles' : h.owner = d /\ h.block = chunks'[d][i].block /\ h.at = a
    <2> TAKE d \in Containers
    <2> TAKE i \in DOMAIN chunks'[d], a \in Nat
    <2> HAVE a < chunks'[d][i].end
    <2>1. PICK o \in Containers : d = Now(o) /\ chunks'[d] = chunks[o]
      BY <1>10
    <2>2. PICK h \in handles : h.owner = o /\ h.block = chunks[o][i].block /\ h.at = a
      BY <2>1 DEF StableInv
    <2>3. Moved(h) \in handles'
      BY <1>1
    <2> QED
      BY <1>5, <2>1, <2>2, <2>3
  <1>15. \A g, h \in handles' : g.block = h.block /\ g.at = h.at => g = h
    <2> SUFFICES ASSUME NEW g \in handles, NEW h \in handles,
                        Moved(g).block = Moved(h).block, Moved(g).at = Moved(h).at
                 PROVE  Moved(g) = Moved(h)
      BY <1>1
    <2>1. g.block = h.block /\ g.at = h.at
      BY <1>5
    <2>2. g = h
      BY <2>1 DEF StableInv
    <2> QED
      BY <2>2
  <1> QED
    BY <1>4, <1>8, <1>9, <1>11, <1>12, <1>13, <1>14, <1>15, Zenon DEF StableInv

LEMMA StableDestroyKeeps ==
    ASSUME StableInv, NEW c \in Containers, Stable!Destroy(c)
    PROVE  StableInv'
  <1> DEFINE own == {chunks[c][i].block : i \in DOMAIN chunks[c]}
             Entries == [owner : Containers, index : Nat, value : Values,
                         block : Stable!Blocks, at : Nat]
  <1>1. /\ exists' = [exists EXCEPT ![c] = FALSE]
        /\ blocks' = [b \in Stable!Blocks |-> IF b \in own THEN None ELSE blocks[b]]
        /\ chunks' = [chunks EXCEPT ![c] = <<>>]
        /\ handles' = {h \in handles : h.owner # c}
    BY DEF Stable!Destroy
  <1>2. /\ blocks \in [Stable!Blocks -> Seq(Values) \union {None}]
        /\ exists \in [Containers -> BOOLEAN]
        /\ chunks \in [Containers -> Seq(Chunks)]
        /\ handles \subseteq Entries
    BY DEF StableInv
  <1>3. ASSUME NEW d \in Containers, d # c, NEW i \in DOMAIN chunks[d]
        PROVE  /\ chunks[d][i].block \in Stable!Blocks
               /\ ~ (chunks[d][i].block \in own)
    <2>1. chunks[d][i] \in Chunks
      BY <1>2, ElementOfSeq
    <2>2. ASSUME NEW j \in DOMAIN chunks[c] PROVE chunks[d][i].block # chunks[c][j].block
      BY <1>3 DEF StableInv
    <2> QED
      BY <2>1, <2>2 DEF Chunks
  <1> HIDE DEF own
  <1>4. /\ blocks' \in [Stable!Blocks -> Seq(Values) \union {None}]
        /\ exists' \in [Containers -> BOOLEAN]
        /\ chunks' \in [Containers -> Seq(Chunks)]
        /\ handles' \subseteq Entries
        /\ \A b \in Stable!Blocks : ~ (b \in own) => blocks'[b] = blocks[b]
        /\ chunks'[c] = <<>> /\ \A d \in Containers : d # c => chunks'[d] = chunks[d]
        /\ \A d \in Containers : d # c => exists'[d] = exists[d]
    BY <1>1, <1>2
  <1>5. \A d \in Containers : ~ exists'[d] => chunks'[d] = <<>>
    BY <1>4 DEF StableInv
  <1>6. \A d \in Containers : \A i \in DOMAIN chunks'[d] : ChunkRight(blocks', chunks'[d], i)
    <2> TAKE d \in Containers
    <2> TAKE i \in DOMAIN chunks'[d]
    <2>1. d # c /\ chunks'[d] = chunks[d]
      BY <1>4
    <2>2. blocks'[chunks[d][i].block] = blocks[chunks[d][i].block]
      BY <1>3, <1>4, <2>1
    <2>3. ChunkRight(blocks, chunks[d], i)
      BY <2>1 DEF StableInv
    <2>4. ChunkRight(blocks', chunks[d], i)
      BY <2>2, <2>3 DEF ChunkRight
    <2> QED
      BY <2>1, <2>4
  <1>7. \A d, e \in Containers : \A i \in DOMAIN chunks'[d], j \in DOMAIN chunks'[e] :
           chunks'[d][i].block = chunks'[e][j].block => d = e /\ i = j
    <2> TAKE d, e \in Containers
    <2> TAKE i \in DOMAIN chunks'[d], j \in DOMAIN chunks'[e]
    <2>1. chunks'[d] = chunks[d] /\ chunks'[e] = chunks[e]
      BY <1>4
    <2> QED
      BY <2>1 DEF StableInv
  <1>8. \A h \in handles' : \E i \in Nat : Refers(blocks', chunks'[h.owner], h, i)
    <2> TAKE h \in handles'
    <2>1. h \in handles /\ h.owner # c
      BY <1>1
    <2>2. h.owner \in Containers
      BY <2>1, EntryRight
    <2>3. PICK i \in Nat : Refers(blocks, chunks[h.owner], h, i)
      BY <2>1 DEF StableInv
    <2>4. i \in DOMAIN chunks[h.owner] /\ h.block = chunks[h.owner][i].block
      BY <2>3 DEF Refers
    <2>5. blocks'[h.block] = blocks[h.block]
      BY <1>3, <1>4, <2>1, <2>2, <2>4
    <2>6. chunks'[h.owner] = chunks[h.owner]
      BY <1>4, <2>1, <2>2
    <2>7. Refers(blocks', chunks'[h.owner], h, i)
      BY <2>3, <2>5, <2>6 DEF Refers
    <2> QED
      BY <2>7
  <1>9. \A d \in Containers : \A i \in DOMAIN chunks'[d], a \in Nat :
           a < chunks'[d][i].end =>
              \E h \in handles' : h.owner = d /\ h.block = chunks'[d][i].block /\ h.at = a
    <2> TAKE d \in Containers
    <2> TAKE i \in DOMAIN chunks'[d], a \in Nat
    <2> HAVE a < chunks'[d][i].end
    <2>1. /\ d # c /\ chunks'[d] = chunks[d]
          /\ i \in DOMAIN chunks[d] /\ a < chunks[d][i].end
      BY <1>4
    <2>2. \A x \in DOMAIN chunks[d], y \in Nat :
             y < chunks[d][x].end =>
                \E h \in handles : h.owner = d /\ h.block = chunks[d][x].block /\ h.at = y
      BY DEF StableInv
    <2>3. PICK h \in handles : h.owner = d /\ h.block = chunks[d][i].block /\ h.at = a
      BY <2>1, <2>2
    <2>4. h \in handles'
      BY <1>1, <2>1, <2>3
    <2> QED
      BY <2>1, <2>3, <2>4
  <1>10. \A g, h \in handles' : g.block = h.block /\ g.at = h.at => g = h
    BY <1>1 DEF StableInv
  <1> QED
    BY <1>4, <1>5, <1>6, <1>7, <1>8, <1>9, <1>10, Zenon DEF StableInv

LEMMA StableStep ==
    StableInv /\ [Stable!Next]_stableVars => StableInv'
  <1> SUFFICES ASSUME StableInv, [Stable!Next]_stableVars PROVE StableInv'
    OBVIOUS
  <1>1. CASE UNCHANGED stableVars
    <2>1. blocks' = blocks /\ exists' = exists /\ chunks' = chunks /\ handles' = handles
      BY <1>1 DEF stableVars
    <2>2. /\ \A c \in Containers : \A i \in DOMAIN chunks'[c] :
                ChunkRight(blocks', chunks'[c], i)
          /\ \A h \in handles' : \E i \in Nat : Refers(blocks', chunks'[h.owner], h, i)
      BY <2>1 DEF StableInv
    <2> QED
      BY <2>1, <2>2 DEF StableInv
  <1>2. CASE Stable!Next
    <2>1. PICK c \in Containers :
             \/ Stable!Construct(c) \/ Stable!Destroy(c)
             \/ \E v \in Values : Stable!Insert(c, v)
             \/ \E other \in Containers : Stable!MoveConstruct(c, other)
      BY <1>2 DEF Stable!Next
    <2>2. CASE Stable!Construct(c)
      BY <2>2, StableConstructKeeps
    <2>3. CASE Stable!Destroy(c)
      BY <2>3, StableDestroyKeeps
    <2>4. ASSUME NEW v \in Values, Stable!Insert(c, v) PROVE StableInv'
      BY <2>4, StableInsertKeeps
    <2>5. ASSUME NEW other \in Containers, Stable!MoveConstruct(c, other) PROVE StableInv'
      BY <2>5, StableMoveKeeps
    <2> QED
      BY <2>1, <2>2, <2>3, <2>4, <2>5
  <1> QED
    BY <1>1, <1>2

LEMMA StackAlone ==
    ASSUME [AnyNext]_allVars
    PROVE  [Stack!Next]_stackVars
  BY DEF AnyNext, allVars, SubsetsOnly, RangesOnly, RangeMapOnly, StackOnly, StableOnly,
     ForestOnly

LEMMA StableAlone ==
    ASSUME [AnyNext]_allVars
    PROVE  [Stable!Next]_stableVars
  BY DEF AnyNext, allVars, SubsetsOnly, RangesOnly, RangeMapOnly, StackOnly, StableOnly,
     ForestOnly

\* Stacks and stable containers of any number of elements (that size_t and
\* 1 << n can count: numbers do not wrap here) keep them: the two words of a stack, and the capacity behind its elements, agree after every
\* push, pop, reserve, copy, move, swap, release and reconstitution, and no
\* two stacks own one buffer; in a stable container an element stays at its
\* address, the number of elements computed from the chunks is the number of
\* elements inserted, and the loop of entry(index) comes to the one of that index.
THEOREM ElementsKeptHolds ==
    AnySpec => []ElementsKept
<1>1. AnyInit => StackInv /\ StableInv
  BY ContainersAssumption, StackInit, StableInit DEF AnyInit
<1>2. StackInv /\ [AnyNext]_allVars => StackInv'
  BY StackAlone, StackStep
<1>3. StableInv /\ [AnyNext]_allVars => StableInv'
  BY StableAlone, StableStep
<1>4. AnySpec => [](StackInv /\ StableInv)
  BY <1>1, <1>2, <1>3, PTL DEF AnySpec
<1>5. StackInv /\ StableInv => ElementsKept
  BY StackAnswers, StableAnswers DEF ElementsKept
<1> QED
  BY <1>4, <1>5, PTL
=============================================================================
