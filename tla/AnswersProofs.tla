--------------------------- MODULE AnswersProofs ---------------------------
(***************************************************************************)
(* Proofs about the components of MCUtilities that answer for what they    *)
(* hold: sets and maps of flyweights, and integers.  Each has an inductive *)
(* invariant of its own; in a behaviour one component steps, and the rest  *)
(* stay as they begin.                                                     *)
(***************************************************************************)
EXTENDS MCUtilities, SequenceTheorems, FiniteSetTheorems, WellFoundedInduction, TLAPS

-----------------------------------------------------------------------------
(* Flyweights.  However sets are filled, copied, moved and cleared, their  *)
(* hash sets and deques agree, and pointers stay good.                     *)

Sound == OnePlace /\ IndexComplete /\ Distinct /\ PointersStable

\* A set loses its elements, and keeps its hash set empty.
Emptied(s) ==
    /\ values' = [values EXCEPT ![s] = <<>>]
    /\ index' = [index EXCEPT ![s] = {}]
    /\ memory' = Without(s)
    /\ pointers' = PointersWithout(s)

\* What lies in another set survives the elements of one.
LEMMA OthersStay ==
    ASSUME TypeOK, OnePlace, NEW s \in Sets, NEW t \in Sets \ {s},
           NEW i \in DOMAIN values[t]
    PROVE  Without(s)[values[t][i]] = At(t, i)
<1>1. values[t][i] \in Addresses
  BY DEF TypeOK
<1>2. values[t][i] \notin Elements(s)
  BY DEF OnePlace, Elements
<1> QED BY <1>1, <1>2 DEF Without, At

\* Emptying a set disturbs no other.
LEMMA EmptiedKeeps ==
    ASSUME TypeOK, Sound, NEW s \in Sets, Emptied(s),
           \A t \in Sets \ {s} : state'[t] = "moved" <=> state[t] = "moved"
    PROVE  Sound'
<1> USE DEF Sound, TypeOK
<1>1. /\ values'[s] = <<>> /\ index'[s] = {} /\ DOMAIN values'[s] = {}
      /\ \A t \in Sets \ {s} : values'[t] = values[t] /\ index'[t] = index[t]
  BY DEF Emptied
<1>2. \A t \in Sets : \A i \in DOMAIN values'[t] :
         t # s /\ i \in DOMAIN values[t] /\ values'[t][i] = values[t][i] /\ At(t, i)' = At(t, i)
  <2> SUFFICES ASSUME NEW t \in Sets, NEW i \in DOMAIN values'[t]
               PROVE  /\ t # s /\ i \in DOMAIN values[t] /\ values'[t][i] = values[t][i]
                      /\ At(t, i)' = At(t, i)
    OBVIOUS
  <2>1. t # s
    BY <1>1
  <2>2. Without(s)[values[t][i]] = At(t, i)
    BY <1>1, <2>1, OthersStay
  <2> QED BY <1>1, <2>1, <2>2 DEF At, Emptied
<1>3. OnePlace'
  BY <1>2 DEF OnePlace
<1>4. IndexComplete'
  BY <1>1, Zenon DEF IndexComplete
<1>5. Distinct'
  BY <1>2 DEF Distinct
<1>6. PointersStable'
  <2> SUFFICES ASSUME NEW p \in pointers'
               PROVE  /\ p.index \in DOMAIN values'[p.set]
                      /\ values'[p.set][p.index] = p.at
                      /\ memory'[p.at] = p.value
    BY DEF PointersStable
  <2>1. p \in pointers /\ p.set \in Sets /\ p.set # s
    BY DEF Emptied, PointersWithout
  <2>2. /\ p.index \in DOMAIN values[p.set]
        /\ values[p.set][p.index] = p.at /\ memory[p.at] = p.value
    BY <2>1 DEF PointersStable
  <2>3. Without(s)[p.at] = memory[p.at]
    BY <2>1, <2>2, OthersStay DEF At
  <2> QED BY <1>1, <2>1, <2>2, <2>3 DEF Emptied
<1> QED BY <1>3, <1>4, <1>5, <1>6

\* A value that no element has is appended where nothing lay; one that is
\* there changes nothing.
LEMMA InsertKeeps ==
    ASSUME FlyweightAssumption, TypeOK, Sound, NEW s \in Sets, state[s] # "moved",
           NEW v \in Values, InsertIn(s, v), UNCHANGED state
    PROVE  Sound' /\ UNCHANGED state /\ values' \in [Sets -> Seq(Addresses)]
           /\ index' \in [Sets -> SUBSET (Nat \ {0})]
           /\ memory' \in [Addresses -> Values \union {Nothing}]
           /\ pointers' \subseteq
                 [set : Sets, at : Addresses, value : Values, index : Nat \ {0}]
<1>1. CASE Found(s, v) # {}
  <2>1. UNCHANGED <<state, values, index, memory, pointers>>
    BY <1>1 DEF InsertIn
  <2> QED BY <2>1 DEF Sound, TypeOK, OnePlace, IndexComplete, Distinct, PointersStable, At
<1>2. CASE Found(s, v) = {}
  <2>1. PICK a \in Free :
           /\ values' = [values EXCEPT ![s] = Append(@, a)]
           /\ memory' = [memory EXCEPT ![a] = v]
           /\ index' = [index EXCEPT ![s] = @ \union {Len(values[s]) + 1}]
           /\ pointers' = pointers \union
                 {[set |-> s, at |-> a, value |-> v, index |-> Len(values[s]) + 1]}
    BY <1>2 DEF InsertIn
  <2>0. PICK n : n = Len(values[s]) + 1
    OBVIOUS
  <2>2. /\ a \in Addresses /\ memory[a] = Nothing
        /\ values[s] \in Seq(Addresses) /\ n \in Nat \ {0} /\ n \notin DOMAIN values[s]
        /\ DOMAIN values[s] = 1 .. Len(values[s])
    BY <2>0 DEF Free, TypeOK
  <2>3. /\ values'[s] = Append(values[s], a) /\ memory'[a] = v
        /\ \A t \in Sets \ {s} : values'[t] = values[t] /\ index'[t] = index[t]
        /\ index'[s] = index[s] \union {n}
        /\ \A b \in Addresses \ {a} : memory'[b] = memory[b]
    BY <2>0, <2>1, <2>2 DEF TypeOK
  <2>4. /\ DOMAIN values'[s] = DOMAIN values[s] \union {n} /\ values'[s][n] = a
        /\ \A i \in DOMAIN values[s] : values'[s][i] = values[s][i]
    BY <2>0, <2>2, <2>3
  <2>5. \A t \in Sets : \A i \in DOMAIN values[t] :
           /\ i \in DOMAIN values'[t] /\ values'[t][i] = values[t][i]
           /\ values[t][i] \in Addresses \ {a} /\ At(t, i)' = At(t, i)
    <3> SUFFICES ASSUME NEW t \in Sets, NEW i \in DOMAIN values[t]
                 PROVE  /\ i \in DOMAIN values'[t] /\ values'[t][i] = values[t][i]
                        /\ values[t][i] \in Addresses \ {a} /\ At(t, i)' = At(t, i)
      OBVIOUS
    <3>1. i \in DOMAIN values'[t] /\ values'[t][i] = values[t][i]
      BY <2>3, <2>4
    <3>2. values[t][i] \in Addresses /\ memory[values[t][i]] \in Values
      BY DEF TypeOK, Sound, OnePlace, At
    <3>3. values[t][i] # a
      BY <2>2, <3>2 DEF FlyweightAssumption
    <3> QED BY <2>3, <3>1, <3>2, <3>3 DEF At
  <2>6. \A t \in Sets : \A i \in DOMAIN values'[t] :
           i \in DOMAIN values[t] \/ (t = s /\ i = n)
    BY <2>3, <2>4
  <2>7. At(s, n)' = v
    BY <2>3, <2>4 DEF At
  <2>8. \A i \in DOMAIN values[s] : At(s, i) # v
    BY <1>2 DEF Found, Sound, IndexComplete
  <2>9. OnePlace'
    <3> SUFFICES ASSUME NEW t \in Sets, NEW u \in Sets,
                        NEW i \in DOMAIN values'[t], NEW j \in DOMAIN values'[u]
                 PROVE  /\ At(t, i)' \in Values
                        /\ values'[t][i] = values'[u][j] => t = u /\ i = j
      BY DEF OnePlace
    <3>1. At(t, i)' \in Values
      BY <2>5, <2>6, <2>7 DEF Sound, OnePlace
    <3>2. ASSUME values'[t][i] = values'[u][j] PROVE t = u /\ i = j
      BY <2>4, <2>5, <2>6, <3>2 DEF Sound, OnePlace
    <3> QED BY <3>1, <3>2
  <2>10. IndexComplete'
    BY <2>3, <2>4, Zenon DEF Sound, IndexComplete
  <2>11. Distinct'
    <3> SUFFICES ASSUME NEW t \in Sets, NEW i \in DOMAIN values'[t],
                        NEW j \in DOMAIN values'[t], At(t, i)' = At(t, j)'
                 PROVE  i = j
      BY DEF Distinct
    <3> QED BY <2>5, <2>6, <2>7, <2>8 DEF Sound, Distinct
  <2>12. PointersStable'
    <3> SUFFICES ASSUME NEW p \in pointers'
                 PROVE  /\ p.index \in DOMAIN values'[p.set]
                        /\ values'[p.set][p.index] = p.at
                        /\ memory'[p.at] = p.value
      BY DEF PointersStable
    <3>1. CASE p \in pointers
      <4>1. /\ p.set \in Sets /\ p.index \in DOMAIN values[p.set]
            /\ values[p.set][p.index] = p.at /\ memory[p.at] = p.value
        BY <3>1 DEF TypeOK, Sound, PointersStable
      <4> QED BY <2>5, <4>1 DEF At
    <3>2. CASE p \notin pointers
      <4>1. p = [set |-> s, at |-> a, value |-> v, index |-> n]
        BY <2>0, <2>1, <3>2
      <4> QED BY <2>3, <2>4, <4>1
    <3> QED BY <3>1, <3>2
  <2>13. values' \in [Sets -> Seq(Addresses)]
    BY <2>1, <2>2 DEF TypeOK
  <2>14. index' \in [Sets -> SUBSET (Nat \ {0})]
    BY <2>0, <2>1, <2>2 DEF TypeOK
  <2>15. memory' \in [Addresses -> Values \union {Nothing}]
    BY <2>1, Zenon DEF TypeOK
  <2>16. pointers' \subseteq
            [set : Sets, at : Addresses, value : Values, index : Nat \ {0}]
    BY <2>0, <2>1, <2>2 DEF TypeOK
  <2> QED BY <2>9, <2>10, <2>11, <2>12, <2>13, <2>14, <2>15, <2>16 DEF Sound
<1> QED BY <1>1, <1>2

\* A move takes the elements, where they lie, and the indices.
LEMMA TakeKeeps ==
    ASSUME TypeOK, Sound, NEW s \in Sets, NEW other \in Sets, s # other,
           state[other] = "alive", Take(s, other)
    PROVE  Sound'
<1>1. /\ values'[s] = values[other] /\ values'[other] = <<>> /\ DOMAIN values'[other] = {}
      /\ index'[s] = index[other] /\ memory' = Without(s)
      /\ state'[s] = "alive" /\ state'[other] = "moved"
      /\ \A t \in Sets \ {s, other} :
            values'[t] = values[t] /\ index'[t] = index[t] /\ state'[t] = state[t]
  BY DEF Take, TypeOK
<1> DEFINE From(t) == IF t = s THEN other ELSE t
<1>2. \A t \in Sets : \A i \in DOMAIN values'[t] :
         /\ From(t) \in Sets \ {s} /\ t # other /\ i \in DOMAIN values[From(t)]
         /\ values'[t][i] = values[From(t)][i] /\ At(t, i)' = At(From(t), i)
  <2> SUFFICES ASSUME NEW t \in Sets, NEW i \in DOMAIN values'[t]
               PROVE  /\ From(t) \in Sets \ {s} /\ t # other /\ i \in DOMAIN values[From(t)]
                      /\ values'[t][i] = values[From(t)][i] /\ At(t, i)' = At(From(t), i)
    OBVIOUS
  <2>1. /\ t # other /\ From(t) \in Sets \ {s}
        /\ i \in DOMAIN values[From(t)] /\ values'[t][i] = values[From(t)][i]
    BY <1>1
  <2>2. Without(s)[values[From(t)][i]] = At(From(t), i)
    BY <2>1, OthersStay DEF Sound
  <2> QED BY <1>1, <2>1, <2>2 DEF At
<1>3. \A t, u \in Sets \ {other} : From(t) = From(u) => t = u
  OBVIOUS
<1> HIDE DEF From
<1>4. OnePlace'
  <2> SUFFICES ASSUME NEW t \in Sets, NEW u \in Sets,
                      NEW i \in DOMAIN values'[t], NEW j \in DOMAIN values'[u]
               PROVE  /\ At(t, i)' \in Values
                      /\ values'[t][i] = values'[u][j] => t = u /\ i = j
    BY DEF OnePlace
  <2> QED BY <1>2, <1>3 DEF Sound, OnePlace
<1>5. IndexComplete'
  BY <1>1 DEF Sound, IndexComplete
<1>6. Distinct'
  <2> SUFFICES ASSUME NEW t \in Sets, NEW i \in DOMAIN values'[t],
                      NEW j \in DOMAIN values'[t], At(t, i)' = At(t, j)'
               PROVE  i = j
    BY DEF Distinct
  <2> QED BY <1>2 DEF Sound, Distinct
<1>7. PointersStable'
  <2> SUFFICES ASSUME NEW p \in pointers'
               PROVE  /\ p.index \in DOMAIN values'[p.set]
                      /\ values'[p.set][p.index] = p.at
                      /\ memory'[p.at] = p.value
    BY DEF PointersStable
  <2>1. PICK q \in PointersWithout(s) :
           p = IF q.set = other THEN [q EXCEPT !.set = s] ELSE q
    BY DEF Take
  <2>2. /\ q \in pointers /\ q.set \in Sets \ {s}
        /\ q \in [set : Sets, at : Addresses, value : Values, index : Nat \ {0}]
    BY DEF PointersWithout, TypeOK
  <2>3. /\ q.index \in DOMAIN values[q.set]
        /\ values[q.set][q.index] = q.at /\ memory[q.at] = q.value
    BY <2>2 DEF Sound, PointersStable
  <2>4. Without(s)[q.at] = memory[q.at]
    BY <2>2, <2>3, OthersStay DEF At, Sound
  <2>5. p.index = q.index /\ p.at = q.at /\ p.value = q.value
        /\ p.set = IF q.set = other THEN s ELSE q.set
    BY <2>1, <2>2
  <2> QED BY <1>1, <2>2, <2>3, <2>4, <2>5
<1> QED BY <1>4, <1>5, <1>6, <1>7 DEF Sound

-----------------------------------------------------------------------------
\* What is left without the elements of a set has the type it had.
LEMMA WithoutType ==
    ASSUME TypeOK, NEW s \in Sets
    PROVE  /\ Without(s) \in [Addresses -> Values \union {Nothing}]
           /\ PointersWithout(s) \subseteq pointers
BY DEF Without, PointersWithout, TypeOK

\* A set is emptied and about to be filled.
LEMMA FillKeeps ==
    ASSUME FlyweightAssumption, IInv, NEW s \in Sets, NEW range \in Seq(Values),
           Fill(s, range)
    PROVE  IInv'
<1>1. TypeOK'
  BY WithoutType DEF IInv, Fill, TypeOK
<1>2. FillingAlive'
  BY DEF IInv, Fill, FillingAlive, TypeOK
<1>3. Emptied(s) /\ \A t \in Sets \ {s} : state'[t] = "moved" <=> state[t] = "moved"
  BY DEF Fill, Emptied, IInv, TypeOK
<1>4. Sound'
  BY <1>3, EmptiedKeeps DEF IInv, Sound
<1> QED BY <1>1, <1>2, <1>4 DEF IInv, Sound

\* The values of the elements of a set.
LEMMA ValuesOfType ==
    ASSUME TypeOK, OnePlace, NEW s \in Sets
    PROVE  ValuesOf(s) \in Seq(Values)
<1>1. values[s] \in Seq(Addresses) /\ DOMAIN values[s] = 1 .. Len(values[s])
      /\ Len(values[s]) \in Nat
  BY DEF TypeOK
<1>2. \A i \in DOMAIN values[s] : At(s, i) \in Values
  BY DEF OnePlace
<1> QED BY <1>1, <1>2 DEF ValuesOf

\* IInv is inductive.
LEMMA FlyweightStep == IInv /\ [Next]_vars => IInv'
<1> USE FlyweightAssumption
<1> SUFFICES ASSUME IInv, [Next]_vars PROVE IInv'
  OBVIOUS
<1>0. TypeOK /\ Sound /\ OnePlace
  BY DEF IInv, Sound
<1>1. ASSUME NEW s \in Sets, NEW range \in Ranges, Construct(s, range) PROVE IInv'
  <2>1. range \in Seq(Values)
    BY DEF Ranges
  <2> QED BY <1>1, <2>1, FillKeeps DEF Construct
<1>2. ASSUME NEW s \in Sets, NEW v \in Values, Insert(s, v) PROVE IInv'
  <2>1. state[s] # "moved" /\ InsertIn(s, v) /\ UNCHANGED <<state, filling, rest>>
    BY <1>2 DEF Insert, Usable
  <2>2. Sound' /\ TypeOK'
    BY <1>0, <2>1, InsertKeeps DEF TypeOK
  <2> QED BY <2>1, <2>2 DEF IInv, Sound, FillingAlive
<1>3. ASSUME NEW s \in Sets, NEW to \in {"alive", "gone"}, Reset(s, to) PROVE IInv'
  <2>1. Emptied(s) /\ \A t \in Sets \ {s} : state'[t] = "moved" <=> state[t] = "moved"
    BY <1>3 DEF Reset, Emptied, IInv, TypeOK
  <2>2. Sound'
    BY <1>0, <2>1, EmptiedKeeps
  <2>3. TypeOK'
    BY <1>3, WithoutType DEF Reset, IInv, TypeOK
  <2>4. filling' = Nothing
    BY <1>3 DEF Reset, Exists
  <2> QED BY <2>2, <2>3, <2>4 DEF IInv, Sound, FillingAlive
<1>4. ASSUME NEW s \in Sets, NEW other \in Sets, CopyConstruct(s, other) PROVE IInv'
  BY <1>0, <1>4, ValuesOfType, FillKeeps DEF CopyConstruct, Construct
<1>5. ASSUME NEW s \in Sets, NEW other \in Sets, CopyAssign(s, other) PROVE IInv'
  BY <1>0, <1>5, ValuesOfType, FillKeeps DEF CopyAssign
<1>6. ASSUME NEW s \in Sets, NEW other \in Sets, s # other, Usable(other), Take(s, other)
      PROVE  IInv'
  <2>1. Sound'
    BY <1>0, <1>6, TakeKeeps DEF Usable
  <2>2. TypeOK'
    <3>1. /\ PointersWithout(s) \subseteq pointers
          /\ Without(s) \in [Addresses -> Values \union {Nothing}]
      BY <1>0, WithoutType
    <3>2. pointers' \subseteq
             [set : Sets, at : Addresses, value : Values, index : Nat \ {0}]
      <4> SUFFICES ASSUME NEW p \in pointers'
                   PROVE  p \in [set : Sets, at : Addresses, value : Values,
                                 index : Nat \ {0}]
        OBVIOUS
      <4>1. PICK q \in PointersWithout(s) :
               p = IF q.set = other THEN [q EXCEPT !.set = s] ELSE q
        BY <1>6 DEF Take
      <4>2. q \in [set : Sets, at : Addresses, value : Values, index : Nat \ {0}]
        BY <1>0, <3>1 DEF TypeOK
      <4> QED BY <4>1, <4>2
    <3>3. state' \in [Sets -> {"alive", "gone", "moved"}]
      BY <1>0, <1>6, Zenon DEF Take, TypeOK
    <3>5. values' \in [Sets -> Seq(Addresses)]
      <4>1. <<>> \in Seq(Addresses)
        OBVIOUS
      <4> QED BY <1>0, <1>6, <4>1, Zenon DEF Take, TypeOK
    <3>6. index' \in [Sets -> SUBSET (Nat \ {0})]
      BY <1>0, <1>6 DEF Take, TypeOK
    <3>4. memory' = Without(s) /\ filling' = filling /\ rest' = rest
      BY <1>6 DEF Take
    <3> QED BY <1>0, <3>1, <3>2, <3>3, <3>4, <3>5, <3>6 DEF TypeOK
  <2>3. filling' = Nothing
    BY <1>6 DEF Take, Usable
  <2> QED BY <2>1, <2>2, <2>3 DEF IInv, Sound, FillingAlive
<1>7. CASE FillNext
  <2>1. /\ filling \in Sets /\ state[filling] # "moved" /\ Head(rest) \in Values
        /\ InsertIn(filling, Head(rest)) /\ UNCHANGED <<state, filling>>
        /\ rest' \in Seq(Values)
    BY <1>0, <1>7 DEF FillNext, IInv, FillingAlive, TypeOK
  <2>2. Sound' /\ TypeOK'
    BY <1>0, <2>1, InsertKeeps DEF TypeOK
  <2> QED BY <2>1, <2>2 DEF IInv, Sound, FillingAlive
<1>8. CASE FillEnd
  BY <1>8 DEF FillEnd, IInv, FillingAlive, TypeOK, OnePlace, IndexComplete, Distinct,
              PointersStable, At
<1>9. CASE UNCHANGED vars
  BY <1>9 DEF vars, IInv, FillingAlive, TypeOK, OnePlace, IndexComplete, Distinct,
              PointersStable, At
<1> QED BY <1>1, <1>2, <1>3, <1>4, <1>5, <1>6, <1>7, <1>8, <1>9
        DEF Next, Clear, Destroy, MoveConstruct, MoveAssign

\* Sets of flyweights keep IInv.
THEOREM Invariance == Spec => []IInv
<1>1. Init => IInv
  BY DEF Init, IInv, TypeOK, FillingAlive, OnePlace, IndexComplete, Distinct, PointersStable
<1> QED BY <1>1, FlyweightStep, PTL DEF Spec

\* "the keys are guaranteed to be distinct" (flyweight_set.h:14-15), and the
\* hash set of every set that may be used has just the indices of its deque.
THEOREM KeysDistinct == Spec => [](Distinct /\ IndexComplete)
BY Invariance, PTL DEF IInv

\* "Pointers to elements in the container are never invalidated other than by
\* assignment or calls to clear" (flyweight_set.h:15-17), nor is their index.
THEOREM PointersStay == Spec => []PointersStable
BY Invariance, PTL DEF IInv

-----------------------------------------------------------------------------
(* Maps of flyweights.  A map is a set of its keys, and what it holds is   *)
(* what was inserted first, or written since.                              *)

\* find and index answer for just the values there are.
LEMMA AnswersRight == FlyweightAssumption /\ IInv => AnswersExact
<1> SUFFICES ASSUME FlyweightAssumption, IInv, NEW s \in Sets, NEW v \in Values, state[s] # "moved"
             PROVE  LET i == IndexOf(s, v)
                    IN  IF i = Nothing THEN v \notin {At(s, j) : j \in DOMAIN values[s]}
                        ELSE At(s, i) = v /\ Position(s, values[s][i]) = i
  BY DEF AnswersExact
<1>1. index[s] = DOMAIN values[s] /\ index[s] \subseteq Nat
  BY DEF IInv, IndexComplete, TypeOK
<1>2. Nothing \notin DOMAIN values[s]
  BY <1>1 DEF FlyweightAssumption
<1>3. CASE Found(s, v) = {}
  <2>1. IndexOf(s, v) = Nothing
    BY <1>3 DEF IndexOf
  <2>2. v \notin {At(s, j) : j \in DOMAIN values[s]}
    BY <1>1, <1>3 DEF Found
  <2> QED
    BY <2>1, <2>2
<1>4. CASE Found(s, v) # {}
  <2>1. PICK i : i = IndexOf(s, v) /\ i \in Found(s, v)
    BY <1>4, Zenon DEF IndexOf
  <2>2. i \in DOMAIN values[s] /\ At(s, i) = v
    BY <1>1, <2>1 DEF Found
  <2>3. \A j \in DOMAIN values[s] : values[s][j] = values[s][i] => j = i
    BY <2>2 DEF IInv, OnePlace
  <2>4. Position(s, values[s][i]) = i
    BY <2>2, <2>3, Zenon DEF Position
  <2> QED
    BY <1>2, <2>1, <2>2, <2>4
<1> QED
  BY <1>3, <1>4

\* Where an insertion puts a value that was not there.
Appended(s, v, a, n) ==
    /\ n \notin DOMAIN values[s] /\ n \in DOMAIN values'[s]
    /\ values'[s][n] = a /\ values'[s][Len(values'[s])] = a /\ At(s, n)' = v
    /\ \A t \in Sets : \A i \in DOMAIN values[t] :
          /\ i \in DOMAIN values'[t] /\ values'[t][i] = values[t][i]
          /\ values[t][i] # a /\ At(t, i)' = At(t, i)
    /\ \A t \in Sets : \A i \in DOMAIN values'[t] :
          i \in DOMAIN values[t] \/ (t = s /\ i = n)

\* An insertion of a value that is not found appends it at a fresh address.
LEMMA InsertAppends ==
    ASSUME FlyweightAssumption, TypeOK, Sound, NEW s \in Sets, state[s] # "moved",
           NEW v \in Values, InsertIn(s, v), Found(s, v) = {}
    PROVE  /\ \A i \in DOMAIN values[s] : At(s, i) # v
           /\ \E a \in Addresses : \E n \in Nat : Appended(s, v, a, n)
<1>1. PICK a \in Free :
         /\ values' = [values EXCEPT ![s] = Append(@, a)]
         /\ memory' = [memory EXCEPT ![a] = v]
  BY DEF InsertIn
<1>2. PICK n : n = Len(values[s]) + 1
  OBVIOUS
<1>3. /\ a \in Addresses /\ memory[a] = Nothing
      /\ values[s] \in Seq(Addresses) /\ n \in Nat /\ n \notin DOMAIN values[s]
      /\ DOMAIN values[s] = 1 .. Len(values[s])
  BY <1>2 DEF Free, TypeOK
<1>4. /\ values'[s] = Append(values[s], a) /\ memory'[a] = v
      /\ \A t \in Sets \ {s} : values'[t] = values[t]
      /\ \A b \in Addresses \ {a} : memory'[b] = memory[b]
  BY <1>1, <1>3 DEF TypeOK
<1>5. /\ DOMAIN values'[s] = DOMAIN values[s] \union {n} /\ values'[s][n] = a
      /\ Len(values'[s]) = n
      /\ \A i \in DOMAIN values[s] : values'[s][i] = values[s][i]
  BY <1>2, <1>3, <1>4
<1>6. \A t \in Sets : \A i \in DOMAIN values[t] :
         /\ i \in DOMAIN values'[t] /\ values'[t][i] = values[t][i]
         /\ values[t][i] # a /\ At(t, i)' = At(t, i)
  <2> SUFFICES ASSUME NEW t \in Sets, NEW i \in DOMAIN values[t]
               PROVE  /\ i \in DOMAIN values'[t] /\ values'[t][i] = values[t][i]
                      /\ values[t][i] # a /\ At(t, i)' = At(t, i)
    OBVIOUS
  <2>1. i \in DOMAIN values'[t] /\ values'[t][i] = values[t][i]
    BY <1>4, <1>5
  <2>2. values[t][i] \in Addresses /\ memory[values[t][i]] \in Values
    BY DEF TypeOK, Sound, OnePlace, At
  <2>3. values[t][i] # a
    BY <1>3, <2>2 DEF FlyweightAssumption
  <2> QED BY <1>4, <2>1, <2>2, <2>3 DEF At
<1>7. \A t \in Sets : \A i \in DOMAIN values'[t] :
         i \in DOMAIN values[t] \/ (t = s /\ i = n)
  BY <1>4, <1>5
<1>8. At(s, n)' = v
  BY <1>4, <1>5 DEF At
<1>9. \A i \in DOMAIN values[s] : At(s, i) # v
  BY DEF Found, Sound, IndexComplete
<1>10. n \in DOMAIN values'[s] /\ values'[s][n] = a /\ values'[s][Len(values'[s])] = a
  BY <1>5
<1>11. Appended(s, v, a, n)
  BY <1>3, <1>6, <1>7, <1>8, <1>10 DEF Appended
<1> QED
  BY <1>3, <1>9, <1>11

\* The keys that are there, and the mapped values of the elements.
Present(s) == {At(s, i) : i \in DOMAIN values[s]}
Agrees(s) == \A i \in DOMAIN values[s] : mapped[values[s][i]] = contents[s][At(s, i)]

\* What is left of a range: of the keys that are not there, the first ones
\* come with the mapped values that they are to have.
Coming(s, keys, mappeds) ==
    \A j \in DOMAIN keys :
       (keys[j] \notin Present(s) /\ \A h \in 1 .. j - 1 : keys[h] # keys[j])
       => contents[s][keys[j]] = mappeds[j]
Left(s) ==
    /\ Len(restMapped) = Len(rest)
    /\ DOMAIN contents[s] = Present(s) \union {rest[j] : j \in DOMAIN rest}
    /\ Coming(s, rest, restMapped)

\* A map that is being filled holds what is there and what is to come.
MapInv ==
    /\ IInv
    /\ contents = [s \in Sets |-> contents[s]]
    /\ mapped \in [Addresses -> Mapped \union {Default}]
    /\ restMapped \in Seq(Mapped \union {Default})
    /\ \A s \in Sets : state[s] = "alive" =>
          /\ Agrees(s)
          /\ filling # s => Present(s) = DOMAIN contents[s]
          /\ filling = s => Left(s)

\* The invariant says that maps answer with what was assigned last.
LEMMA MapRight == MapInv => ContentsExact
  BY DEF MapInv, ContentsExact, Present, Agrees

\* A map whose elements, keys and mapped values stay.
LEMMA Undisturbed ==
    ASSUME NEW t \in Sets, contents'[t] = contents[t],
           DOMAIN values'[t] = DOMAIN values[t],
           \A i \in DOMAIN values[t] :
              /\ At(t, i)' = At(t, i)
              /\ mapped'[values'[t][i]] = mapped[values[t][i]]
    PROVE  /\ Present(t)' = Present(t)
           /\ Agrees(t) => Agrees(t)'
  BY DEF Present, Agrees

\* Of equal keys of a range the first.
LEMMA FirstOfIs ==
    ASSUME NEW range, DOMAIN range \subseteq Nat \ {0}
    PROVE  /\ DOMAIN FirstOf(range) = {range[i][1] : i \in DOMAIN range}
           /\ \A j \in DOMAIN range :
                 (\A h \in 1 .. j - 1 : range[h][1] # range[j][1])
                 => FirstOf(range)[range[j][1]] = range[j][2]
<1>1. DOMAIN FirstOf(range) = {range[i][1] : i \in DOMAIN range}
  BY DEF FirstOf
<1>2. ASSUME NEW j \in DOMAIN range, \A h \in 1 .. j - 1 : range[h][1] # range[j][1]
      PROVE  FirstOf(range)[range[j][1]] = range[j][2]
  <2> DEFINE k == range[j][1]
             First(i) == range[i][1] = k /\ \A h \in 1 .. i - 1 : range[h][1] # k
  <2>1. First(j)
    BY <1>2
  <2>2. PICK i : i = (CHOOSE x \in DOMAIN range : First(x)) /\ i \in DOMAIN range /\ First(i)
    <3> HIDE DEF First
    <3> QED
      BY <2>1
  <2>3. i = j
    <3>1. i \in Nat /\ j \in Nat /\ i >= 1 /\ j >= 1
      BY <1>2, <2>2
    <3>2. ~ (i < j)
      <4> SUFFICES ASSUME i < j PROVE FALSE
        OBVIOUS
      <4>1. i \in 1 .. j - 1
        BY <3>1
      <4> QED
        BY <1>2, <2>2, <4>1
    <3>3. ~ (j < i)
      <4> SUFFICES ASSUME j < i PROVE FALSE
        OBVIOUS
      <4>1. j \in 1 .. i - 1
        BY <3>1
      <4> QED
        BY <2>2, <4>1
    <3> QED
      BY <3>1, <3>2, <3>3
  <2>4. FirstOf(range)[k] = range[i][2]
    BY <2>2, Zenon DEF FirstOf
  <2> QED
    BY <2>3, <2>4
<1> QED
  BY <1>1, <1>2

\* What try_emplace does to the elements: nothing when the key is there, and
\* otherwise the key comes last, with its mapped value.
LEMMA EmplaceDoes ==
    ASSUME FlyweightAssumption, MapInv, NEW s \in Sets, state[s] = "alive",
           NEW k \in Values, NEW m \in Mapped \union {Default}, EmplaceIn(s, k, m)
    PROVE  /\ mapped' \in [Addresses -> Mapped \union {Default}]
           /\ \A t \in Sets \ {s} :
                 /\ DOMAIN values'[t] = DOMAIN values[t]
                 /\ \A i \in DOMAIN values[t] :
                       /\ At(t, i)' = At(t, i)
                       /\ mapped'[values'[t][i]] = mapped[values[t][i]]
           /\ Present(s)' = Present(s) \union {k}
           /\ \A i \in DOMAIN values'[s] :
                 \/ /\ i \in DOMAIN values[s] /\ At(s, i)' = At(s, i)
                    /\ mapped'[values'[s][i]] = mapped[values[s][i]]
                 \/ /\ k \notin Present(s)
                    /\ At(s, i)' = k /\ mapped'[values'[s][i]] = m
<1>1. /\ TypeOK /\ Sound /\ state[s] # "moved" /\ InsertIn(s, k)
      /\ mapped \in [Addresses -> Mapped \union {Default}]
      /\ index[s] = DOMAIN values[s]
  BY DEF MapInv, IInv, Sound, EmplaceIn, IndexComplete
<1>2. CASE Found(s, k) # {}
  <2>1. /\ UNCHANGED <<values, memory>> /\ mapped' = mapped
        /\ k \in Present(s)
    BY <1>1, <1>2 DEF InsertIn, EmplaceIn, Found, Present
  <2>2. \A t \in Sets : \A i \in DOMAIN values[t] : At(t, i)' = At(t, i)
    BY <2>1 DEF At
  <2>3. Present(s)' = Present(s)
    BY <2>1, <2>2 DEF Present
  <2> QED
    BY <1>1, <2>1, <2>2, <2>3
<1>3. CASE Found(s, k) = {}
  <2>1. /\ \A i \in DOMAIN values[s] : At(s, i) # k
        /\ \E a \in Addresses : \E n \in Nat : Appended(s, k, a, n)
    BY <1>1, <1>3, InsertAppends
  <2>2. PICK a \in Addresses, n \in Nat : Appended(s, k, a, n)
    BY <2>1
  <2>3. /\ n \notin DOMAIN values[s] /\ n \in DOMAIN values'[s]
        /\ values'[s][n] = a /\ values'[s][Len(values'[s])] = a /\ At(s, n)' = k
    BY <2>2 DEF Appended
  <2>4. \A t \in Sets : \A i \in DOMAIN values[t] :
          /\ i \in DOMAIN values'[t] /\ values'[t][i] = values[t][i]
          /\ values[t][i] # a /\ At(t, i)' = At(t, i)
    BY <2>2 DEF Appended
  <2>5. \A t \in Sets : \A i \in DOMAIN values'[t] :
          i \in DOMAIN values[t] \/ (t = s /\ i = n)
    BY <2>2 DEF Appended
  <2>6. mapped' = [mapped EXCEPT ![a] = m]
    BY <1>3, <2>3 DEF EmplaceIn
  <2>7. \A t \in Sets : \A i \in DOMAIN values[t] : values[t][i] \in Addresses
    BY <1>1 DEF TypeOK
  <2>8. \A t \in Sets : \A i \in DOMAIN values[t] :
           mapped'[values'[t][i]] = mapped[values[t][i]]
    BY <1>1, <2>4, <2>6, <2>7
  <2>9. mapped' \in [Addresses -> Mapped \union {Default}] /\ mapped'[a] = m
    BY <1>1, <2>6
  <2>10. k \notin Present(s)
    BY <2>1 DEF Present
  <2>11. Present(s)' = Present(s) \union {k}
    <3>1. \A i \in DOMAIN values'[s] : At(s, i)' \in Present(s) \union {k}
      BY <2>3, <2>4, <2>5 DEF Present
    <3>2. \A i \in DOMAIN values[s] : \E j \in DOMAIN values'[s] : At(s, j)' = At(s, i)
      BY <2>4
    <3>3. \E j \in DOMAIN values'[s] : At(s, j)' = k
      BY <2>3
    <3>4. \A x \in Present(s) : \E j \in DOMAIN values'[s] : At(s, j)' = x
      BY <3>2 DEF Present
    <3>5. Present(s)' = {At(s, i)' : i \in DOMAIN values'[s]}
      BY DEF Present
    <3> QED
      BY <3>1, <3>3, <3>4, <3>5
  <2>12. \A t \in Sets \ {s} : DOMAIN values'[t] = DOMAIN values[t]
    BY <2>4, <2>5
  <2>13. \A i \in DOMAIN values'[s] :
            \/ /\ i \in DOMAIN values[s] /\ At(s, i)' = At(s, i)
               /\ mapped'[values'[s][i]] = mapped[values[s][i]]
            \/ /\ k \notin Present(s)
               /\ At(s, i)' = k /\ mapped'[values'[s][i]] = m
    <3> SUFFICES ASSUME NEW i \in DOMAIN values'[s]
                 PROVE  \/ /\ i \in DOMAIN values[s] /\ At(s, i)' = At(s, i)
                           /\ mapped'[values'[s][i]] = mapped[values[s][i]]
                        \/ /\ k \notin Present(s)
                           /\ At(s, i)' = k /\ mapped'[values'[s][i]] = m
      OBVIOUS
    <3>1. CASE i \in DOMAIN values[s]
      BY <2>4, <2>8, <3>1
    <3>2. CASE i = n
      BY <2>3, <2>9, <2>10, <3>2
    <3> QED
      BY <2>5, <3>1, <3>2
  <2> QED
    BY <2>4, <2>8, <2>9, <2>11, <2>12, <2>13
<1> QED
  BY <1>2, <1>3

\* A map that an operation on another does not concern.
Kept(t) ==
    /\ contents'[t] = contents[t]
    /\ DOMAIN values'[t] = DOMAIN values[t]
    /\ \A i \in DOMAIN values[t] :
          /\ At(t, i)' = At(t, i)
          /\ mapped'[values'[t][i]] = mapped[values[t][i]]

\* MapInv in the next state, a map at a time.
LEMMA MapAgain ==
    ASSUME MapInv, IInv', NEW S \in SUBSET Sets,
           contents' = [t \in Sets |-> contents'[t]],
           mapped' \in [Addresses -> Mapped \union {Default}],
           restMapped' \in Seq(Mapped \union {Default}),
           \A t \in S : state'[t] = "alive" =>
              /\ Agrees(t)'
              /\ filling' # t => Present(t)' = DOMAIN contents'[t]
              /\ filling' = t => Left(t)',
           \A t \in Sets \ S : state'[t] = "alive" =>
              state[t] = "alive" /\ filling # t /\ filling' # t /\ Kept(t)
    PROVE  MapInv'
<1>1. \A t \in Sets \ S : state'[t] = "alive" =>
         /\ Agrees(t)'
         /\ filling' # t => Present(t)' = DOMAIN contents'[t]
         /\ filling' = t => Left(t)'
  <2> SUFFICES ASSUME NEW t \in Sets \ S, state'[t] = "alive"
               PROVE  Agrees(t)' /\ filling' # t /\ Present(t)' = DOMAIN contents'[t]
    OBVIOUS
  <2>1. state[t] = "alive" /\ filling # t /\ filling' # t /\ Kept(t)
    OBVIOUS
  <2>2. Agrees(t) /\ Present(t) = DOMAIN contents[t]
    BY <2>1 DEF MapInv
  <2>3. Present(t)' = Present(t) /\ (Agrees(t) => Agrees(t)')
    BY <2>1, Undisturbed DEF Kept
  <2> QED
    BY <2>1, <2>2, <2>3 DEF Kept
<1> QED
  BY <1>1 DEF MapInv

\* A map is emptied, and about to be filled with a range.
LEMMA MapFilled ==
    ASSUME FlyweightAssumption, MapInv, IInv', NEW s \in Sets, NEW keys \in Seq(Values),
           NEW mappeds \in Seq(Mapped \union {Default}), NEW c,
           filling = Nothing, Fill(s, keys),
           restMapped' = mappeds, Holds(s, c), UNCHANGED mapped,
           Len(mappeds) = Len(keys), DOMAIN c = {keys[j] : j \in DOMAIN keys},
           \A j \in DOMAIN keys :
              (\A h \in 1 .. j - 1 : keys[h] # keys[j]) => c[keys[j]] = mappeds[j]
    PROVE  MapInv'
<1>1. /\ values'[s] = <<>> /\ DOMAIN values'[s] = {} /\ memory' = Without(s)
      /\ filling' = s /\ rest' = keys /\ s # Nothing /\ Nothing \notin Sets
      /\ \A t \in Sets \ {s} : values'[t] = values[t] /\ state'[t] = state[t]
  BY DEF Fill, MapInv, IInv, TypeOK, FlyweightAssumption
<1>2. contents' = [t \in Sets |-> contents'[t]] /\ contents'[s] = c
      /\ \A t \in Sets \ {s} : contents'[t] = contents[t]
  BY DEF Holds, MapInv
<1>3. mapped' = mapped /\ mapped' \in [Addresses -> Mapped \union {Default}]
  BY DEF MapInv
<1>4. \A t \in Sets \ {s} : Kept(t)
  <2> SUFFICES ASSUME NEW t \in Sets \ {s}, NEW i \in DOMAIN values[t]
               PROVE  At(t, i)' = At(t, i) /\ mapped'[values'[t][i]] = mapped[values[t][i]]
    BY <1>1, <1>2 DEF Kept
  <2>1. Without(s)[values[t][i]] = At(t, i)
    BY OthersStay DEF MapInv, IInv
  <2> QED
    BY <1>1, <1>3, <2>1 DEF At
<1>5. Agrees(s)' /\ Present(s)' = {}
  BY <1>1 DEF Agrees, Present
<1>6. Left(s)'
  <2>1. DOMAIN contents'[s] = Present(s)' \union {rest'[j] : j \in DOMAIN rest'}
    BY <1>1, <1>2, <1>5
  <2>2. Coming(s, rest, restMapped)'
    BY <1>1, <1>2, <1>5 DEF Coming
  <2> QED
    BY <1>1, <2>1, <2>2 DEF Left
<1>7. \A t \in Sets \ {s} : filling # t /\ filling' # t
  BY <1>1
<1>8. restMapped' \in Seq(Mapped \union {Default})
  OBVIOUS
<1>9. {s} \in SUBSET Sets
  OBVIOUS
<1>10. \A t \in {s} : state'[t] = "alive" =>
              /\ Agrees(t)'
              /\ filling' # t => Present(t)' = DOMAIN contents'[t]
              /\ filling' = t => Left(t)'
  BY <1>1, <1>5, <1>6
<1>11. \A t \in Sets \ {s} : state'[t] = "alive" =>
              state[t] = "alive" /\ filling # t /\ filling' # t /\ Kept(t)
  BY <1>1, <1>4, <1>7
<1> QED
  BY <1>2, <1>3, <1>8, <1>9, <1>10, <1>11, MapAgain

Pairs == Values \X (Mapped \union {Default})

\* The entries of a map are pairs, and their keys its values.
LEMMA EntriesType ==
    ASSUME MapInv, NEW s \in Sets
    PROVE  /\ EntriesOf(s) \in Seq(Pairs)
           /\ Keys(EntriesOf(s)) = ValuesOf(s)
           /\ DOMAIN EntriesOf(s) = DOMAIN values[s]
           /\ \A i \in DOMAIN values[s] : EntriesOf(s)[i] = <<At(s, i), mapped[values[s][i]]>>
<1>1. /\ values[s] \in Seq(Addresses) /\ DOMAIN values[s] = 1 .. Len(values[s])
      /\ Len(values[s]) \in Nat /\ mapped \in [Addresses -> Mapped \union {Default}]
  BY DEF MapInv, IInv, TypeOK
<1>2. \A i \in DOMAIN values[s] : At(s, i) \in Values /\ values[s][i] \in Addresses
  BY <1>1 DEF MapInv, IInv, OnePlace
<1>3. \A i \in DOMAIN values[s] : <<At(s, i), mapped[values[s][i]]>> \in Pairs
  BY <1>1, <1>2 DEF Pairs
<1>4. EntriesOf(s) \in Seq(Pairs)
  BY <1>1, <1>3 DEF EntriesOf
<1>5. Keys(EntriesOf(s)) = ValuesOf(s)
  BY DEF EntriesOf, Keys, ValuesOf
<1> QED
  BY <1>4, <1>5 DEF EntriesOf

\* The two halves of a range.
LEMMA HalvesOf ==
    ASSUME NEW range \in Seq(Pairs)
    PROVE  /\ Keys(range) \in Seq(Values)
           /\ MappedOf(range) \in Seq(Mapped \union {Default})
           /\ Len(MappedOf(range)) = Len(Keys(range))
           /\ DOMAIN Keys(range) = DOMAIN range
           /\ DOMAIN range \subseteq Nat \ {0}
           /\ \A j \in DOMAIN range :
                 Keys(range)[j] = range[j][1] /\ MappedOf(range)[j] = range[j][2]
<1>1. PICK n \in Nat : n = Len(range) /\ DOMAIN range = 1 .. n
  OBVIOUS
<1>2. \A j \in 1 .. n : range[j][1] \in Values /\ range[j][2] \in Mapped \union {Default}
  BY <1>1 DEF Pairs
<1>3. /\ Keys(range) = [i \in 1 .. n |-> range[i][1]]
      /\ MappedOf(range) = [i \in 1 .. n |-> range[i][2]]
  BY <1>1 DEF Keys, MappedOf
<1>4. /\ Keys(range) \in Seq(Values) /\ Len(Keys(range)) = n
  BY <1>2, <1>3
<1>5. /\ MappedOf(range) \in Seq(Mapped \union {Default}) /\ Len(MappedOf(range)) = n
  BY <1>2, <1>3
<1> QED
  BY <1>1, <1>3, <1>4, <1>5

\* A constructor from a range, and from another map.
LEMMA MapConstructKeeps ==
    ASSUME FlyweightAssumption, MapInv, IInv', NEW s \in Sets, NEW range \in Seq(Pairs),
           MapConstruct(s, range)
    PROVE  MapInv'
<1>1. /\ filling = Nothing /\ Fill(s, Keys(range)) /\ restMapped' = MappedOf(range)
      /\ Holds(s, FirstOf(range)) /\ UNCHANGED mapped
  BY DEF MapConstruct, Construct
<1>2. /\ Keys(range) \in Seq(Values)
      /\ MappedOf(range) \in Seq(Mapped \union {Default})
      /\ Len(MappedOf(range)) = Len(Keys(range))
      /\ DOMAIN Keys(range) = DOMAIN range
      /\ DOMAIN range \subseteq Nat \ {0}
      /\ \A j \in DOMAIN range :
            Keys(range)[j] = range[j][1] /\ MappedOf(range)[j] = range[j][2]
  BY HalvesOf
<1>3. /\ DOMAIN FirstOf(range) = {range[i][1] : i \in DOMAIN range}
      /\ \A j \in DOMAIN range :
            (\A h \in 1 .. j - 1 : range[h][1] # range[j][1])
            => FirstOf(range)[range[j][1]] = range[j][2]
  BY <1>2, FirstOfIs
<1>4. DOMAIN FirstOf(range) = {Keys(range)[j] : j \in DOMAIN Keys(range)}
  BY <1>2, <1>3
<1>5. \A j \in DOMAIN Keys(range) :
         (\A h \in 1 .. j - 1 : Keys(range)[h] # Keys(range)[j])
         => FirstOf(range)[Keys(range)[j]] = MappedOf(range)[j]
  <2> SUFFICES ASSUME NEW j \in DOMAIN range,
                      \A h \in 1 .. j - 1 : Keys(range)[h] # Keys(range)[j]
               PROVE  FirstOf(range)[Keys(range)[j]] = MappedOf(range)[j]
    BY <1>2
  <2>0. PICK n \in Nat : n = Len(range) /\ DOMAIN range = 1 .. n
    OBVIOUS
  <2>1. \A h \in 1 .. j - 1 : h \in DOMAIN range
    BY <2>0
  <2>2. \A h \in 1 .. j - 1 : range[h][1] # range[j][1]
    BY <1>2, <2>1
  <2> QED
    BY <1>2, <1>3, <2>2
<1> HIDE DEF Pairs
<1> QED
  BY <1>1, <1>2, <1>4, <1>5, MapFilled

\* An assignment of another map.
LEMMA MapAssignKeeps ==
    ASSUME FlyweightAssumption, MapInv, IInv', NEW s \in Sets, NEW other \in Sets,
           MapCopyAssign(s, other)
    PROVE  MapInv'
<1> DEFINE range == EntriesOf(other)
           c == contents[other]
<1>1. /\ filling = Nothing /\ Fill(s, ValuesOf(other)) /\ restMapped' = MappedOf(range)
      /\ Holds(s, c) /\ UNCHANGED mapped /\ state[other] = "alive" /\ other # Nothing
  BY DEF MapCopyAssign, CopyAssign, Exists, Usable, FlyweightAssumption
<1>2. /\ range \in Seq(Pairs) /\ Keys(range) = ValuesOf(other)
      /\ DOMAIN range = DOMAIN values[other]
      /\ \A i \in DOMAIN values[other] : range[i] = <<At(other, i), mapped[values[other][i]]>>
  BY EntriesType
<1>3. Agrees(other) /\ Present(other) = DOMAIN c
  BY <1>1 DEF MapInv
<1> HIDE DEF range, c
<1>4. /\ Keys(range) \in Seq(Values)
      /\ MappedOf(range) \in Seq(Mapped \union {Default})
      /\ Len(MappedOf(range)) = Len(Keys(range))
      /\ DOMAIN Keys(range) = DOMAIN range
      /\ \A j \in DOMAIN range :
            Keys(range)[j] = range[j][1] /\ MappedOf(range)[j] = range[j][2]
  BY <1>2, HalvesOf
<1>5. \A j \in DOMAIN range :
         Keys(range)[j] = At(other, j) /\ MappedOf(range)[j] = mapped[values[other][j]]
  BY <1>2, <1>4
<1>6. DOMAIN c = {Keys(range)[j] : j \in DOMAIN Keys(range)}
  <2>1. DOMAIN Keys(range) = DOMAIN values[other] /\ DOMAIN range = DOMAIN values[other]
    BY <1>2, <1>4
  <2>2. {Keys(range)[j] : j \in DOMAIN values[other]}
           = {At(other, j) : j \in DOMAIN values[other]}
    BY <1>5, <2>1
  <2> QED
    BY <1>3, <2>1, <2>2 DEF Present
<1>7. \A j \in DOMAIN Keys(range) : c[Keys(range)[j]] = MappedOf(range)[j]
  BY <1>2, <1>3, <1>4, <1>5 DEF Agrees, c
<1> QED
  BY <1>1, <1>2, <1>4, <1>6, <1>7, MapFilled

\* try_emplace and the subscript.
LEMMA TryEmplaceKeeps ==
    ASSUME FlyweightAssumption, MapInv, IInv', NEW s \in Sets, NEW k \in Values,
           NEW m \in Mapped \union {Default}, TryEmplace(s, k, m)
    PROVE  MapInv'
<1>1. /\ filling = Nothing /\ state[s] = "alive" /\ EmplaceIn(s, k, m)
      /\ Holds(s, Ensured(s, k, m)) /\ UNCHANGED <<state, filling, rest, restMapped>>
      /\ Nothing \notin Sets
  BY DEF TryEmplace, Usable, FlyweightAssumption
<1>2. /\ contents' = [t \in Sets |-> contents'[t]] /\ contents'[s] = Ensured(s, k, m)
      /\ \A t \in Sets \ {s} : contents'[t] = contents[t]
  BY <1>1 DEF Holds, MapInv
<1>3. /\ mapped' \in [Addresses -> Mapped \union {Default}]
      /\ \A t \in Sets \ {s} :
            /\ DOMAIN values'[t] = DOMAIN values[t]
            /\ \A i \in DOMAIN values[t] :
                  /\ At(t, i)' = At(t, i)
                  /\ mapped'[values'[t][i]] = mapped[values[t][i]]
      /\ Present(s)' = Present(s) \union {k}
      /\ \A i \in DOMAIN values'[s] :
            \/ /\ i \in DOMAIN values[s] /\ At(s, i)' = At(s, i)
               /\ mapped'[values'[s][i]] = mapped[values[s][i]]
            \/ /\ k \notin Present(s)
               /\ At(s, i)' = k /\ mapped'[values'[s][i]] = m
  BY <1>1, EmplaceDoes
<1>4. Agrees(s) /\ Present(s) = DOMAIN contents[s]
  BY <1>1 DEF MapInv
<1>5. DOMAIN contents'[s] = DOMAIN contents[s] \union {k}
  BY <1>2 DEF Ensured
<1>6. \A j \in DOMAIN contents[s] : contents'[s][j] = contents[s][j]
  BY <1>2 DEF Ensured
<1>7. k \notin DOMAIN contents[s] => contents'[s][k] = m
  BY <1>2 DEF Ensured
<1>8. Agrees(s)'
  <2> SUFFICES ASSUME NEW i \in DOMAIN values'[s]
               PROVE  mapped'[values'[s][i]] = contents'[s][At(s, i)']
    BY DEF Agrees
  <2>1. CASE /\ i \in DOMAIN values[s] /\ At(s, i)' = At(s, i)
             /\ mapped'[values'[s][i]] = mapped[values[s][i]]
    BY <1>4, <1>6, <2>1 DEF Agrees, Present
  <2>2. CASE /\ k \notin Present(s)
             /\ At(s, i)' = k /\ mapped'[values'[s][i]] = m
    BY <1>4, <1>7, <2>2
  <2> QED
    BY <1>3, <2>1, <2>2
<1>9. \A t \in Sets \ {s} : Kept(t)
  BY <1>2, <1>3 DEF Kept
<1>10. {s} \in SUBSET Sets /\ restMapped' \in Seq(Mapped \union {Default})
  BY <1>1 DEF MapInv
<1>11. \A t \in {s} : state'[t] = "alive" =>
              /\ Agrees(t)'
              /\ filling' # t => Present(t)' = DOMAIN contents'[t]
              /\ filling' = t => Left(t)'
  BY <1>1, <1>3, <1>4, <1>5, <1>8
<1>12. \A t \in Sets \ {s} : state'[t] = "alive" =>
              state[t] = "alive" /\ filling # t /\ filling' # t /\ Kept(t)
  BY <1>1, <1>9
<1> QED
  BY <1>2, <1>3, <1>10, <1>11, <1>12, MapAgain

\* A write through a pointer to an element.
LEMMA MapWriteKeeps ==
    ASSUME FlyweightAssumption, MapInv, IInv', NEW p \in pointers, NEW m \in Mapped,
           Write(p, m)
    PROVE  MapInv'
<1>0. PICK s \in Sets : p.set = s
  BY DEF MapInv, IInv, TypeOK
<1>1. PICK i \in DOMAIN values[s] :
         p.set = s /\ p.index = i /\ values[s][i] = p.at /\ At(s, i) = p.value
  BY <1>0 DEF MapInv, IInv, PointersStable, At
<1>2. /\ UNCHANGED <<state, values, memory, filling, rest, restMapped>> /\ filling = Nothing
      /\ mapped' = [mapped EXCEPT ![values[s][i]] = m]
      /\ contents' = [contents EXCEPT ![s][At(s, i)] = m]
      /\ Nothing \notin Sets
  BY <1>1 DEF Write, vars, FlyweightAssumption
<1>3. \A t \in Sets : \A j \in DOMAIN values[t] :
         /\ values[t][j] \in Addresses
         /\ values[t][j] = values[s][i] => t = s /\ j = i
         /\ At(t, j)' = At(t, j)
  BY <1>1, <1>2 DEF MapInv, IInv, TypeOK, OnePlace, At
<1>4. /\ mapped' \in [Addresses -> Mapped \union {Default}]
      /\ mapped'[values[s][i]] = m
      /\ \A a \in Addresses \ {values[s][i]} : mapped'[a] = mapped[a]
  BY <1>1, <1>2, <1>3 DEF MapInv
<1>5. /\ contents' = [t \in Sets |-> contents'[t]]
      /\ contents'[s] = [contents[s] EXCEPT ![At(s, i)] = m]
      /\ \A t \in Sets \ {s} : contents'[t] = contents[t]
  BY <1>2 DEF MapInv
<1>6. \A t \in Sets \ {s} : Kept(t)
  BY <1>2, <1>3, <1>4, <1>5 DEF Kept
<1>7. ASSUME state[s] = "alive"
      PROVE  Agrees(s)' /\ Present(s)' = DOMAIN contents'[s]
  <2>1. Agrees(s) /\ Present(s) = DOMAIN contents[s]
    BY <1>2, <1>7 DEF MapInv
  <2>2. Present(s)' = Present(s)
    BY <1>2, <1>3 DEF Present
  <2>3. DOMAIN contents'[s] = DOMAIN contents[s]
    BY <1>5
  <2>4. ASSUME NEW j \in DOMAIN values[s]
        PROVE  mapped'[values[s][j]] = contents'[s][At(s, j)]
    <3>1. At(s, j) \in DOMAIN contents[s] /\ At(s, i) \in DOMAIN contents[s]
      BY <1>1, <2>1 DEF Present
    <3>2. CASE j = i
      BY <1>4, <1>5, <3>1, <3>2
    <3>3. CASE j # i
      <4>1. At(s, j) # At(s, i)
        BY <1>1, <3>3 DEF MapInv, IInv, Distinct
      <4>2. contents'[s][At(s, j)] = contents[s][At(s, j)]
        BY <1>5, <3>1, <4>1
      <4>3. mapped'[values[s][j]] = mapped[values[s][j]]
        BY <1>3, <1>4, <3>3
      <4> QED
        BY <2>1, <4>2, <4>3 DEF Agrees
    <3> QED
      BY <3>2, <3>3
  <2>5. Agrees(s)'
    BY <1>2, <1>3, <2>4 DEF Agrees
  <2> QED
    BY <2>1, <2>2, <2>3, <2>5
<1>8. {s} \in SUBSET Sets /\ restMapped' \in Seq(Mapped \union {Default})
  BY <1>2 DEF MapInv
<1>9. \A t \in {s} : state'[t] = "alive" =>
              /\ Agrees(t)'
              /\ filling' # t => Present(t)' = DOMAIN contents'[t]
              /\ filling' = t => Left(t)'
  BY <1>2, <1>7
<1>10. \A t \in Sets \ {s} : state'[t] = "alive" =>
              state[t] = "alive" /\ filling # t /\ filling' # t /\ Kept(t)
  BY <1>2, <1>6
<1> QED
  BY <1>4, <1>5, <1>8, <1>9, <1>10, MapAgain

\* What is left of a range, after its first element.
LEMMA RestOf ==
    ASSUME NEW T, NEW r \in Seq(T), r # <<>>
    PROVE  /\ Len(r) \in Nat \ {0} /\ DOMAIN r = 1 .. Len(r) /\ Head(r) = r[1]
           /\ r[1] \in T
           /\ Tail(r) \in Seq(T) /\ Len(Tail(r)) = Len(r) - 1
           /\ DOMAIN Tail(r) = 1 .. Len(r) - 1
           /\ \A j \in 1 .. Len(r) - 1 : Tail(r)[j] = r[j + 1]
<1>1. Len(r) \in Nat \ {0} /\ DOMAIN r = 1 .. Len(r) /\ Head(r) = r[1]
  OBVIOUS
<1>2. r[1] \in T
  BY <1>1
<1>3. Tail(r) \in Seq(T) /\ Len(Tail(r)) = Len(r) - 1
  OBVIOUS
<1> QED
  BY <1>1, <1>2, <1>3

\* An element of a range is inserted.
LEMMA MapFillKeeps ==
    ASSUME FlyweightAssumption, MapInv, IInv', MapFillNext
    PROVE  MapInv'
<1>1. PICK s \in Sets : s = filling /\ s # Nothing /\ state[s] = "alive"
  BY DEF MapFillNext, MapInv, IInv, TypeOK, FillingAlive
<1> DEFINE k == Head(rest)
           m == Head(restMapped)
<1>2. /\ rest \in Seq(Values) /\ rest # <<>> /\ EmplaceIn(s, k, m)
      /\ rest' = Tail(rest) /\ restMapped' = Tail(restMapped)
      /\ UNCHANGED <<state, filling, contents>>
      /\ restMapped \in Seq(Mapped \union {Default})
      /\ contents = [t \in Sets |-> contents[t]]
  BY <1>1 DEF MapFillNext, MapInv, IInv, TypeOK
<1>3. Agrees(s) /\ Left(s)
  BY <1>1 DEF MapInv
<1>4. /\ Len(restMapped) = Len(rest)
      /\ DOMAIN contents[s] = Present(s) \union {rest[j] : j \in DOMAIN rest}
      /\ Coming(s, rest, restMapped)
  BY <1>3 DEF Left
<1>5. PICK n \in Nat \ {0} :
         /\ n = Len(rest) /\ DOMAIN rest = 1 .. n /\ k = rest[1] /\ k \in Values
         /\ Len(rest') = n - 1 /\ DOMAIN rest' = 1 .. n - 1
         /\ \A j \in 1 .. n - 1 : rest'[j] = rest[j + 1]
  BY <1>2, RestOf, SMTT(30)
<1>6. restMapped # <<>>
  BY <1>2, <1>4
<1>7. /\ m = restMapped[1] /\ m \in Mapped \union {Default}
      /\ restMapped' \in Seq(Mapped \union {Default}) /\ Len(restMapped') = n - 1
      /\ \A j \in 1 .. n - 1 : restMapped'[j] = restMapped[j + 1]
  BY <1>2, <1>4, <1>5, <1>6, RestOf
<1> HIDE DEF k, m
<1>8. /\ mapped' \in [Addresses -> Mapped \union {Default}]
      /\ \A t \in Sets \ {s} :
            /\ DOMAIN values'[t] = DOMAIN values[t]
            /\ \A i \in DOMAIN values[t] :
                  /\ At(t, i)' = At(t, i)
                  /\ mapped'[values'[t][i]] = mapped[values[t][i]]
      /\ Present(s)' = Present(s) \union {k}
      /\ \A i \in DOMAIN values'[s] :
            \/ /\ i \in DOMAIN values[s] /\ At(s, i)' = At(s, i)
               /\ mapped'[values'[s][i]] = mapped[values[s][i]]
            \/ /\ k \notin Present(s)
               /\ At(s, i)' = k /\ mapped'[values'[s][i]] = m
  BY <1>1, <1>2, <1>5, <1>7, EmplaceDoes
<1>9. k \notin Present(s) => contents[s][k] = m
  <2>1. 1 \in DOMAIN rest /\ 1 .. 1 - 1 = {}
    BY <1>5
  <2>2. (rest[1] \notin Present(s) /\ \A h \in 1 .. 1 - 1 : rest[h] # rest[1])
        => contents[s][rest[1]] = restMapped[1]
    BY <1>4, <2>1 DEF Coming
  <2> QED
    BY <1>5, <1>7, <2>1, <2>2
<1>10. Agrees(s)'
  <2> SUFFICES ASSUME NEW i \in DOMAIN values'[s]
               PROVE  mapped'[values'[s][i]] = contents'[s][At(s, i)']
    BY DEF Agrees
  <2>1. CASE /\ i \in DOMAIN values[s] /\ At(s, i)' = At(s, i)
             /\ mapped'[values'[s][i]] = mapped[values[s][i]]
    BY <1>2, <1>3, <2>1 DEF Agrees
  <2>2. CASE /\ k \notin Present(s)
             /\ At(s, i)' = k /\ mapped'[values'[s][i]] = m
    BY <1>2, <1>9, <2>2
  <2> QED
    BY <1>8, <2>1, <2>2
<1>11. DOMAIN contents'[s] = Present(s)' \union {rest'[j] : j \in DOMAIN rest'}
  <2>1. \A j \in 1 .. n : j = 1 \/ (j - 1 \in 1 .. n - 1 /\ rest[j] = rest'[j - 1])
    <3> SUFFICES ASSUME NEW j \in 1 .. n, j # 1
                 PROVE  j - 1 \in 1 .. n - 1 /\ rest[j] = rest'[j - 1]
      OBVIOUS
    <3>1. j - 1 \in 1 .. n - 1 /\ (j - 1) + 1 = j
      OBVIOUS
    <3> QED
      BY <1>5, <3>1
  <2>2. \A j \in 1 .. n - 1 : j + 1 \in 1 .. n /\ rest'[j] = rest[j + 1]
    BY <1>5
  <2>3. 1 \in 1 .. n
    OBVIOUS
  <2>4. {rest[j] : j \in 1 .. n} = {k} \union {rest'[j] : j \in 1 .. n - 1}
    BY <1>5, <2>1, <2>2, <2>3
  <2> QED
    BY <1>2, <1>4, <1>5, <1>8, <2>4
<1>12. Coming(s, rest, restMapped)'
  <2> SUFFICES ASSUME NEW j \in 1 .. n - 1, rest'[j] \notin Present(s)',
                      \A h \in 1 .. j - 1 : rest'[h] # rest'[j]
               PROVE  contents'[s][rest'[j]] = restMapped'[j]
    BY <1>5 DEF Coming
  <2>1. /\ j + 1 \in 1 .. n /\ rest'[j] = rest[j + 1] /\ restMapped'[j] = restMapped[j + 1]
    BY <1>5, <1>7
  <2>2. rest[j + 1] \notin Present(s) /\ rest[j + 1] # rest[1]
    BY <1>5, <1>8, <2>1
  <2>3. ASSUME NEW h \in 1 .. (j + 1) - 1 PROVE rest[h] # rest[j + 1]
    <3>1. CASE h = 1
      BY <2>2, <3>1
    <3>2. CASE h # 1
      <4>1. /\ h - 1 \in 1 .. j - 1 /\ h - 1 \in 1 .. n - 1 /\ (h - 1) + 1 = h
        BY <3>2
      <4>2. rest'[h - 1] = rest[h] /\ rest'[h - 1] # rest'[j]
        BY <1>5, <4>1
      <4> QED
        BY <2>1, <4>2
    <3> QED
      BY <3>1, <3>2
  <2>4. contents[s][rest[j + 1]] = restMapped[j + 1]
    BY <1>4, <1>5, <2>1, <2>2, <2>3 DEF Coming
  <2> QED
    BY <1>2, <2>1, <2>4
<1>13. Left(s)'
  BY <1>5, <1>7, <1>11, <1>12 DEF Left
<1>14. \A t \in Sets \ {s} : Kept(t)
  BY <1>2, <1>8 DEF Kept
<1>15. {s} \in SUBSET Sets /\ contents' = [t \in Sets |-> contents'[t]]
  BY <1>2
<1>16. \A t \in {s} : state'[t] = "alive" =>
              /\ Agrees(t)'
              /\ filling' # t => Present(t)' = DOMAIN contents'[t]
              /\ filling' = t => Left(t)'
  BY <1>1, <1>2, <1>10, <1>13
<1>17. \A t \in Sets \ {s} : state'[t] = "alive" =>
              state[t] = "alive" /\ filling # t /\ filling' # t /\ Kept(t)
  BY <1>1, <1>2, <1>14
<1> QED
  BY <1>7, <1>8, <1>15, <1>16, <1>17, MapAgain

\* The last element was inserted.
LEMMA MapFillEndKeeps ==
    ASSUME FlyweightAssumption, MapInv, IInv', MapFillEnd
    PROVE  MapInv'
<1>1. PICK s \in Sets : s = filling /\ s # Nothing /\ state[s] = "alive"
  BY DEF MapFillEnd, FillEnd, MapInv, IInv, TypeOK, FillingAlive
<1>2. /\ rest = <<>> /\ filling' = Nothing /\ Nothing \notin Sets
      /\ UNCHANGED <<state, values, memory, mapped, restMapped, contents>>
  BY DEF MapFillEnd, FillEnd, FlyweightAssumption
<1>3. \A t \in Sets : \A i \in DOMAIN values[t] : At(t, i)' = At(t, i)
  BY <1>2 DEF At
<1>4. \A t \in Sets : Kept(t)
  BY <1>2, <1>3 DEF Kept
<1>5. Agrees(s) /\ Left(s)
  BY <1>1 DEF MapInv
<1>6. Present(s) = DOMAIN contents[s]
  BY <1>2, <1>5 DEF Left
<1>7. Agrees(s)' /\ Present(s)' = DOMAIN contents'[s]
  BY <1>2, <1>4, <1>5, <1>6, Undisturbed DEF Kept
<1>8. /\ {s} \in SUBSET Sets /\ contents' = [t \in Sets |-> contents'[t]]
      /\ mapped' \in [Addresses -> Mapped \union {Default}]
      /\ restMapped' \in Seq(Mapped \union {Default})
  BY <1>2 DEF MapInv
<1>9. \A t \in {s} : state'[t] = "alive" =>
              /\ Agrees(t)'
              /\ filling' # t => Present(t)' = DOMAIN contents'[t]
              /\ filling' = t => Left(t)'
  BY <1>2, <1>7
<1>10. \A t \in Sets \ {s} : state'[t] = "alive" =>
              state[t] = "alive" /\ filling # t /\ filling' # t /\ Kept(t)
  BY <1>1, <1>2, <1>4
<1> QED
  BY <1>8, <1>9, <1>10, MapAgain

\* A move takes the elements, and what they are mapped to.
LEMMA MapMoveKeeps ==
    ASSUME FlyweightAssumption, MapInv, IInv', NEW s \in Sets, NEW other \in Sets,
           MapMove(s, other)
    PROVE  MapInv'
<1>1. /\ s # other /\ filling = Nothing /\ state[other] = "alive" /\ Take(s, other)
      /\ contents' = [contents EXCEPT ![s] = contents[other], ![other] = NoContents]
      /\ UNCHANGED <<mapped, restMapped>> /\ Nothing \notin Sets
  BY DEF MapMove, MoveConstruct, MoveAssign, Usable, FlyweightAssumption
<1>2. /\ values'[s] = values[other] /\ memory' = Without(s)
      /\ state'[s] = "alive" /\ state'[other] = "moved" /\ filling' = filling
      /\ \A t \in Sets \ {s, other} : values'[t] = values[t] /\ state'[t] = state[t]
  <2>1. /\ state' = [state EXCEPT ![s] = "alive", ![other] = "moved"]
        /\ values' = [values EXCEPT ![s] = values[other], ![other] = <<>>]
        /\ memory' = Without(s) /\ filling' = filling
    BY <1>1 DEF Take
  <2>2. DOMAIN state = Sets /\ DOMAIN values = Sets
    BY DEF MapInv, IInv, TypeOK
  <2> QED
    BY <1>1, <2>1, <2>2
<1>3. /\ contents' = [t \in Sets |-> contents'[t]] /\ contents'[s] = contents[other]
      /\ \A t \in Sets \ {s, other} : contents'[t] = contents[t]
  BY <1>1 DEF MapInv
<1>4. \A t \in Sets \ {s} : \A i \in DOMAIN values[t] : Without(s)[values[t][i]] = At(t, i)
  BY OthersStay DEF MapInv, IInv
<1>5. \A i \in DOMAIN values[other] : At(s, i)' = At(other, i)
  BY <1>1, <1>2, <1>4 DEF At
<1>6. \A t \in Sets \ {s, other} : \A i \in DOMAIN values[t] : At(t, i)' = At(t, i)
  BY <1>2, <1>4 DEF At
<1>7. Agrees(other) /\ Present(other) = DOMAIN contents[other]
  BY <1>1 DEF MapInv
<1>8. Agrees(s)'
  BY <1>1, <1>2, <1>3, <1>5, <1>7 DEF Agrees
<1>9. Present(s)' = DOMAIN contents'[s]
  BY <1>2, <1>3, <1>5, <1>7 DEF Present
<1>10. \A t \in Sets \ {s, other} : Kept(t)
  BY <1>1, <1>2, <1>3, <1>6 DEF Kept
<1>11. /\ {s, other} \in SUBSET Sets
       /\ mapped' \in [Addresses -> Mapped \union {Default}]
       /\ restMapped' \in Seq(Mapped \union {Default})
  BY <1>1 DEF MapInv
<1>12. \A t \in {s, other} : state'[t] = "alive" =>
              /\ Agrees(t)'
              /\ filling' # t => Present(t)' = DOMAIN contents'[t]
              /\ filling' = t => Left(t)'
  BY <1>1, <1>2, <1>8, <1>9
<1>13. \A t \in Sets \ {s, other} : state'[t] = "alive" =>
              state[t] = "alive" /\ filling # t /\ filling' # t /\ Kept(t)
  BY <1>1, <1>2, <1>10
<1> QED
  BY <1>3, <1>11, <1>12, <1>13, MapAgain

\* A map is cleared or destroyed.
LEMMA MapResetKeeps ==
    ASSUME FlyweightAssumption, MapInv, IInv', NEW s \in Sets, MapReset(s)
    PROVE  MapInv'
<1>1. /\ filling = Nothing /\ filling' = filling /\ values'[s] = <<>> /\ memory' = Without(s)
      /\ contents' = [contents EXCEPT ![s] = NoContents]
      /\ UNCHANGED <<mapped, restMapped>> /\ Nothing \notin Sets
      /\ \A t \in Sets \ {s} : values'[t] = values[t] /\ state'[t] = state[t]
  BY DEF MapReset, Clear, Destroy, Reset, Exists, Holds, FlyweightAssumption, MapInv, IInv,
         TypeOK
<1>2. /\ contents' = [t \in Sets |-> contents'[t]] /\ contents'[s] = NoContents
      /\ \A t \in Sets \ {s} : contents'[t] = contents[t]
  BY <1>1 DEF MapInv
<1>3. \A t \in Sets \ {s} : \A i \in DOMAIN values[t] : Without(s)[values[t][i]] = At(t, i)
  BY OthersStay DEF MapInv, IInv
<1>4. \A t \in Sets \ {s} : \A i \in DOMAIN values[t] : At(t, i)' = At(t, i)
  BY <1>1, <1>3 DEF At
<1>5. \A t \in Sets \ {s} : Kept(t)
  BY <1>1, <1>2, <1>4 DEF Kept
<1>6. Agrees(s)' /\ Present(s)' = DOMAIN contents'[s]
  <2>1. DOMAIN values'[s] = {} /\ DOMAIN contents'[s] = {}
    BY <1>1, <1>2 DEF NoContents
  <2> QED
    BY <2>1 DEF Agrees, Present
<1>7. /\ {s} \in SUBSET Sets
      /\ mapped' \in [Addresses -> Mapped \union {Default}]
      /\ restMapped' \in Seq(Mapped \union {Default})
  BY <1>1 DEF MapInv
<1>8. \A t \in {s} : state'[t] = "alive" =>
              /\ Agrees(t)'
              /\ filling' # t => Present(t)' = DOMAIN contents'[t]
              /\ filling' = t => Left(t)'
  BY <1>1, <1>6
<1>9. \A t \in Sets \ {s} : state'[t] = "alive" =>
              state[t] = "alive" /\ filling # t /\ filling' # t /\ Kept(t)
  BY <1>1, <1>5
<1> QED
  BY <1>2, <1>7, <1>8, <1>9, MapAgain

\* Of two maps neither of which changes, nothing is to be shown.
LEMMA MapSame == MapInv /\ UNCHANGED mapVars => MapInv'
<1> SUFFICES ASSUME MapInv, UNCHANGED mapVars PROVE MapInv'
  OBVIOUS
<1>1. /\ UNCHANGED <<state, values, memory, filling, rest>> /\ UNCHANGED vars
      /\ UNCHANGED <<mapped, restMapped, contents>>
  BY DEF mapVars, vars
<1>2. IInv'
  BY <1>1, FlyweightStep DEF MapInv
<1>3. \A t \in Sets : \A i \in DOMAIN values[t] : At(t, i)' = At(t, i)
  BY <1>1 DEF At
<1>4. \A t \in Sets : Present(t)' = Present(t) /\ (Agrees(t) => Agrees(t)')
  BY <1>1, <1>3, Undisturbed
<1>5. \A t \in Sets : Left(t) => Left(t)'
  BY <1>1, <1>4 DEF Left, Coming
<1> QED
  BY <1>1, <1>2, <1>4, <1>5 DEF MapInv

\* Every operation of a map is one of the set of its keys, or a stutter.
LEMMA MapIsSet ==
    ASSUME MapInv, [MapNext]_mapVars
    PROVE  [Next]_vars
<1>1. ASSUME NEW s \in Sets, NEW n \in 0 .. MaxRange, NEW range \in [1 .. n -> Entries],
             MapConstruct(s, range)
      PROVE  Next
  <2>1. Keys(range) \in [1 .. n -> Values]
    BY DEF Keys, Entries
  <2>2. Keys(range) \in Ranges /\ Construct(s, Keys(range))
    BY <1>1, <2>1, Zenon DEF Ranges, MapConstruct
  <2> QED
    BY <2>2, Zenon DEF Next
<1>2. ASSUME NEW s \in Sets, NEW k \in Values, NEW m, TryEmplace(s, k, m)
      PROVE  Next
  <2>1. Insert(s, k)
    BY <1>2 DEF TryEmplace, EmplaceIn, Insert
  <2> QED
    BY <2>1, Zenon DEF Next
<1>3. ASSUME NEW s \in Sets, MapReset(s) PROVE Next
  BY <1>3, Zenon DEF MapReset, Next
<1>4. ASSUME NEW s \in Sets, NEW other \in Sets, MapCopyConstruct(s, other) PROVE Next
  <2>1. CopyConstruct(s, other)
    BY <1>4, EntriesType DEF MapCopyConstruct, MapConstruct, CopyConstruct
  <2> QED
    BY <2>1, Zenon DEF Next
<1>5. ASSUME NEW s \in Sets, NEW other \in Sets, MapCopyAssign(s, other) PROVE Next
  BY <1>5, Zenon DEF MapCopyAssign, Next
<1>6. ASSUME NEW s \in Sets, NEW other \in Sets, MapMove(s, other) PROVE Next
  BY <1>6, Zenon DEF MapMove, Next
<1>7. ASSUME MapFillNext PROVE Next
  BY <1>7, Zenon DEF MapFillNext, FillNext, EmplaceIn, Next
<1>8. ASSUME MapFillEnd PROVE Next
  BY <1>8, Zenon DEF MapFillEnd, Next
<1>9. ASSUME NEW p, NEW m, Write(p, m) PROVE UNCHANGED vars
  BY <1>9 DEF Write
<1>10. ASSUME UNCHANGED mapVars PROVE UNCHANGED vars
  BY <1>10 DEF mapVars
<1> QED
  BY <1>1, <1>2, <1>3, <1>4, <1>5, <1>6, <1>7, <1>8, <1>9, <1>10, Zenon
     DEF MapNext, Subscript

\* MapInv holds at first.
LEMMA MapBegins == FlyweightAssumption /\ MapInit => MapInv
<1> SUFFICES ASSUME FlyweightAssumption, MapInit PROVE MapInv
  OBVIOUS
<1>1. IInv
  BY DEF MapInit, Init, IInv, TypeOK, FillingAlive, OnePlace, IndexComplete, Distinct,
         PointersStable
<1> QED
  BY <1>1 DEF MapInit, Init, MapInv

\* Every step of a map preserves MapInv.
LEMMA MapStep ==
    ASSUME FlyweightAssumption, MapInv, [MapNext]_mapVars
    PROVE  MapInv'
<1>1. IInv'
  <2>1. IInv /\ [Next]_vars
    BY MapIsSet DEF MapInv
  <2> QED
    BY <2>1, FlyweightStep
<1>2. ASSUME NEW s \in Sets, NEW n \in 0 .. MaxRange, NEW range \in [1 .. n -> Entries],
             MapConstruct(s, range)
      PROVE  MapInv'
  <2>1. n \in Nat /\ range \in Seq(Pairs)
    BY DEF Pairs, Entries, FlyweightAssumption
  <2> QED
    BY <1>1, <1>2, <2>1, MapConstructKeeps
<1>3. ASSUME NEW s \in Sets, NEW k \in Values, NEW m \in Mapped, TryEmplace(s, k, m)
      PROVE  MapInv'
  BY <1>1, <1>3, TryEmplaceKeeps
<1>4. ASSUME NEW s \in Sets, NEW k \in Values, Subscript(s, k) PROVE MapInv'
  BY <1>1, <1>4, TryEmplaceKeeps DEF Subscript
<1>5. ASSUME NEW s \in Sets, MapReset(s) PROVE MapInv'
  BY <1>1, <1>5, MapResetKeeps
<1>6. ASSUME NEW s \in Sets, NEW other \in Sets, MapCopyConstruct(s, other) PROVE MapInv'
  BY <1>1, <1>6, EntriesType, MapConstructKeeps DEF MapCopyConstruct
<1>7. ASSUME NEW s \in Sets, NEW other \in Sets, MapCopyAssign(s, other) PROVE MapInv'
  BY <1>1, <1>7, MapAssignKeeps
<1>8. ASSUME NEW s \in Sets, NEW other \in Sets, MapMove(s, other) PROVE MapInv'
  BY <1>1, <1>8, MapMoveKeeps
<1>9. ASSUME NEW p \in pointers, NEW m \in Mapped, Write(p, m) PROVE MapInv'
  BY <1>1, <1>9, MapWriteKeeps
<1>10. ASSUME MapFillNext PROVE MapInv'
  BY <1>1, <1>10, MapFillKeeps
<1>11. ASSUME MapFillEnd PROVE MapInv'
  BY <1>1, <1>11, MapFillEndKeeps
<1>12. ASSUME UNCHANGED mapVars PROVE MapInv'
  BY <1>12, MapSame
<1> QED
  BY <1>2, <1>3, <1>4, <1>5, <1>6, <1>7, <1>8, <1>9, <1>10, <1>11, <1>12, Zenon DEF MapNext

-----------------------------------------------------------------------------
(* Integers of any number of words.  A number is what its words say, the   *)
(* least significant one first; loops over words are recursive functions,  *)
(* and what they keep is shown word by word.                               *)

\* The least of some numbers.
LEMMA LeastOf ==
    ASSUME NEW S, S \subseteq Nat, S # {}
    PROVE  \E x \in S : \A y \in S : x <= y
<1>1. PICK R : R = {ss \in Nat \X Nat : ss[1] < ss[2]}
  BY Zenon
<1>2. IsWellFoundedOn(R, Nat)
  BY <1>1, NatLessThanWellFounded DEF OpToRel
<1>3. PICK x \in S : \A y \in S : ~ (<<y, x>> \in R)
  BY <1>2, WFMin, Zenon
<1>4. ASSUME NEW y \in S PROVE x <= y
  <2>1. x \in Nat /\ y \in Nat /\ <<y, x>> \in Nat \X Nat
    OBVIOUS
  <2>2. <<y, x>>[1] = y /\ <<y, x>>[2] = x
    OBVIOUS
  <2>3. ~ (y < x)
    BY <1>1, <1>3, <2>1, <2>2
  <2> QED
    BY <2>1, <2>3
<1> QED
  BY <1>4

\* Induction, over the members of a set.
LEMMA Upwards ==
    ASSUME NEW n \in Nat, NEW S, 0 \in S, \A k \in 0 .. n : k \in S /\ k < n => k + 1 \in S
    PROVE  \A k \in 0 .. n : k \in S
<1> DEFINE Bad == {k \in 0 .. n : k \notin S}
<1>1. SUFFICES ASSUME Bad # {} PROVE FALSE
  OBVIOUS
<1>2. PICK m \in Bad : \A k \in Bad : m <= k
  <2>1. Bad \subseteq Nat
    OBVIOUS
  <2> HIDE DEF Bad
  <2> QED
    BY <1>1, <2>1, LeastOf, Zenon
<1>3. m # 0 /\ m - 1 \in 0 .. n /\ m - 1 < n /\ (m - 1) + 1 = m
  OBVIOUS
<1>4. m - 1 \in S
  <2>1. CASE m - 1 \in S
    BY <2>1
  <2>2. CASE m - 1 \notin S
    <3>1. m - 1 \in Bad
      BY <1>3, <2>2
    <3> QED
      BY <1>2, <1>3, <3>1
  <2> QED
    BY <2>1, <2>2
<1> QED
  BY <1>3, <1>4

\* and down from n.
LEMMA Downwards ==
    ASSUME NEW n \in Nat, NEW S, n \in S, \A k \in 1 .. n : k \in S => k - 1 \in S
    PROVE  \A k \in 0 .. n : k \in S
<1> DEFINE T == {k \in 0 .. n : n - k \in S}
<1>1. 0 \in T /\ \A k \in 0 .. n : k \in T /\ k < n => k + 1 \in T
  <2>1. 0 \in T
    OBVIOUS
  <2>2. ASSUME NEW k \in 0 .. n, k \in T, k < n PROVE k + 1 \in T
    <3>1. n - k \in 1 .. n /\ n - k \in S
      BY <2>2
    <3>2. (n - k) - 1 = n - (k + 1) /\ (n - k) - 1 \in S
      BY <3>1
    <3> QED
      BY <2>2, <3>2
  <2> QED
    BY <2>1, <2>2
<1>2. \A k \in 0 .. n : k \in T
  <2> HIDE DEF T
  <2> QED
    BY <1>1, Upwards
<1>3. ASSUME NEW k \in 0 .. n PROVE k \in S
  <2>1. n - k \in 0 .. n /\ n - (n - k) = k
    OBVIOUS
  <2> QED
    BY <1>2, <2>1
<1> QED
  BY <1>3

\* What a recursion over numbers comes to.
Follows(f, n, base, step) ==
    f[0] = base /\ \A i \in 1 .. n : f[i] = step[<<i, f[i - 1]>>]

\* There is a function that follows it.
LEMMA Recursion ==
    ASSUME NEW n \in Nat, NEW T, NEW base \in T, NEW step \in [(1 .. n) \X T -> T]
    PROVE  \E f \in [0 .. n -> T] : Follows(f, n, base, step)
<1> DEFINE S == {k \in 0 .. n : \E f \in [0 .. k -> T] : Follows(f, k, base, step)}
<1>1. 0 \in S
  <2>1. [i \in 0 .. 0 |-> base] \in [0 .. 0 -> T] /\ [i \in 0 .. 0 |-> base][0] = base
    OBVIOUS
  <2>2. Follows([i \in 0 .. 0 |-> base], 0, base, step)
    BY <2>1 DEF Follows
  <2> QED
    BY <2>1, <2>2
<1>2. ASSUME NEW k \in 0 .. n, k \in S, k < n PROVE k + 1 \in S
  <2>1. PICK f \in [0 .. k -> T] : Follows(f, k, base, step)
    BY <1>2
  <2>2. k + 1 \in 1 .. n /\ k \in 0 .. k /\ 0 \in 0 .. k + 1 /\ 0 # k + 1
        /\ (k + 1) - 1 = k /\ k + 1 \in 0 .. n
    BY <1>2
  <2> DEFINE t == step[<<k + 1, f[k]>>]
             g == [i \in 0 .. k + 1 |-> IF i = k + 1 THEN t ELSE f[i]]
  <2>3. t \in T
    BY <2>2
  <2> HIDE DEF t
  <2>4. g \in [0 .. k + 1 -> T] /\ g[k + 1] = t /\ \A i \in 0 .. k : g[i] = f[i]
    BY <2>3
  <2> HIDE DEF g
  <2>5. g[0] = base
    BY <2>1, <2>2, <2>4 DEF Follows
  <2>6. ASSUME NEW i \in 1 .. k + 1 PROVE g[i] = step[<<i, g[i - 1]>>]
    <3>1. CASE i = k + 1
      <4>1. g[i - 1] = f[k]
        BY <2>2, <2>4, <3>1
      <4> QED
        BY <2>4, <3>1, <4>1 DEF t
    <3>2. CASE i # k + 1
      <4>1. i \in 1 .. k /\ i \in 0 .. k /\ i - 1 \in 0 .. k
        BY <3>2
      <4>2. f[i] = step[<<i, f[i - 1]>>]
        BY <2>1, <4>1 DEF Follows
      <4> QED
        BY <2>4, <4>1, <4>2
    <3> QED
      BY <3>1, <3>2
  <2>7. Follows(g, k + 1, base, step)
    BY <2>5, <2>6 DEF Follows
  <2> QED
    BY <2>2, <2>4, <2>7
<1>3. n \in S
  <2>1. n \in 0 .. n
    OBVIOUS
  <2> HIDE DEF S
  <2> QED
    BY <1>1, <1>2, <2>1, Upwards
<1> QED
  BY <1>3
-----------------------------------------------------------------------------
(* Integers: what words are worth.                                         *)

B == Numbers!Base

\* A word has as many values as there are pairs of digits: an even number.
LEMMA BaseIs ==
    ASSUME DigitAssumption
    PROVE  /\ Digit \in Nat /\ Digit >= 2 /\ B = Digit * Digit
           /\ B \in Nat /\ B >= 4 /\ B = 2 * (B \div 2) /\ B \div 2 \in Nat
           /\ Numbers!Word = 0 .. B - 1
           /\ Numbers!Signed = - (B \div 2) .. B \div 2 - 1
<1>1. Digit \in Nat /\ Digit # 0 /\ Digit % 2 = 0
  BY DigitAssumption DEF EvenDigit
<1>2. PICK h \in Nat : Digit = 2 * h /\ h # 0
  <2>1. Digit = 2 * (Digit \div 2) + (Digit % 2) /\ Digit \div 2 \in Nat
    BY <1>1
  <2>2. Digit = 2 * (Digit \div 2) /\ Digit \div 2 # 0
    BY <1>1, <2>1
  <2> QED
    BY <2>1, <2>2
<1>3. B = Digit * Digit
  BY DEF B, Numbers!Base
<1>4. PICK q \in Nat : q = h * Digit
  BY <1>1, <1>2
<1>5. B = 2 * q /\ q >= 2
  <2>1. (2 * h) * Digit = 2 * (h * Digit)
    BY <1>1, <1>2
  <2>2. h * Digit >= Digit
    BY <1>1, <1>2
  <2> QED
    BY <1>1, <1>2, <1>3, <1>4, <2>1, <2>2
<1>6. B \in Nat /\ B >= 4 /\ B \div 2 = q
  BY <1>5
<1>7. Numbers!Word = 0 .. B - 1 /\ Numbers!Signed = - (B \div 2) .. B \div 2 - 1
  BY DEF B, Numbers!Word, Numbers!Signed
<1>8. B = 2 * (B \div 2) /\ B \div 2 \in Nat /\ Digit >= 2
  BY <1>1, <1>2, <1>5, <1>6
<1> QED
  BY <1>1, <1>3, <1>6, <1>7, <1>8

\* A word is a number below the base.
LEMMA BaseNat ==
    ASSUME DigitAssumption
    PROVE  B \in Nat /\ B >= 4 /\ Numbers!Word = 0 .. B - 1
BY BaseIs, Zenon

\* What the first n numbers of s are worth: Magnitude.
Value(s, n) ==
    LET upper[k \in 0 .. n] ==
            IF k = 0 THEN 0 ELSE upper[k - 1] * Numbers!Base + s[n + 1 - k]
    IN  upper[n]

\* An integer's magnitude is the worth of its words.
LEMMA MagnitudeIs ==
    ASSUME NEW w
    PROVE  Numbers!Magnitude(w) = Value(w, Len(w))
BY DEF Numbers!Magnitude, Value

\* The upper ones of them, one after another.
Uppers(f, s, n) == f[0] = 0 /\ \A k \in 1 .. n : f[k] = f[k - 1] * B + s[(n + 1) - k]

\* The worth is read from the highest word down: the sums on the way exist.
LEMMA UppersExist ==
    ASSUME DigitAssumption, NEW n \in Nat, NEW s, \A i \in 1 .. n : s[i] \in Int
    PROVE  \E f \in [0 .. n -> Int] : Uppers(f, s, n) /\ Value(s, n) = f[n]
<1> DEFINE step == [p \in (1 .. n) \X Int |-> p[2] * B + s[(n + 1) - p[1]]]
           U(k, x) == x * B + s[(n + 1) - k]
<1>1. B \in Nat
  BY BaseIs
<1>2. \A k \in 1 .. n, x \in Int : U(k, x) \in Int
  <2> SUFFICES ASSUME NEW k \in 1 .. n, NEW x \in Int PROVE U(k, x) \in Int
    OBVIOUS
  <2>1. (n + 1) - k \in 1 .. n
    OBVIOUS
  <2>2. PICK y \in Int : y = s[(n + 1) - k]
    BY <2>1
  <2> QED
    BY <1>1, <2>2
<1>3. \A k \in 1 .. n, x \in Int : step[<<k, x>>] = U(k, x)
  OBVIOUS
<1>4. step \in [(1 .. n) \X Int -> Int]
  <2>1. \A p \in (1 .. n) \X Int : p[1] \in 1 .. n /\ p[2] \in Int /\ U(p[1], p[2]) \in Int
    BY <1>2
  <2> QED
    BY <2>1
<1> HIDE DEF step
<1>5. PICK f \in [0 .. n -> Int] : Follows(f, n, 0, step)
  <2>1. 0 \in Int
    OBVIOUS
  <2> QED
    BY <1>4, <2>1, Recursion, Zenon
<1>6. f[0] = 0 /\ \A k \in 1 .. n : f[k] = U(k, f[k - 1])
  <2>1. ASSUME NEW k \in 1 .. n PROVE f[k] = U(k, f[k - 1])
    <3>1. k - 1 \in 0 .. n
      OBVIOUS
    <3> QED
      BY <1>3, <1>5, <3>1 DEF Follows
  <2> QED
    BY <1>5, <2>1 DEF Follows
<1>7. Uppers(f, s, n)
  BY <1>6 DEF Uppers
<1> DEFINE g == [k \in 0 .. n |-> IF k = 0 THEN 0 ELSE f[k - 1] * Numbers!Base + s[n + 1 - k]]
           G == CHOOSE u : u = [k \in 0 .. n |->
                                  IF k = 0 THEN 0 ELSE u[k - 1] * Numbers!Base + s[n + 1 - k]]
<1>8. f = g
  <2>1. \A k \in 0 .. n : k # 0 => k \in 1 .. n /\ n + 1 - k = (n + 1) - k
    OBVIOUS
  <2>2. \A k \in 0 .. n : f[k] = g[k]
    BY <1>6, <2>1 DEF B
  <2> QED
    BY <2>2
<1>9. G = [k \in 0 .. n |-> IF k = 0 THEN 0 ELSE G[k - 1] * Numbers!Base + s[n + 1 - k]]
  <2> HIDE DEF G
  <2> QED
    BY <1>8, Zenon DEF G
<1>10. Value(s, n) = G[n]
  BY DEF Value
<1> HIDE DEF G
<1>11. \A k \in 0 .. n : G[k] = IF k = 0 THEN 0 ELSE G[k - 1] * Numbers!Base + s[n + 1 - k]
  BY <1>9
<1>12. \A k \in 0 .. n : G[k] = f[k]
  <2> DEFINE S == {k \in 0 .. n : G[k] = f[k]}
  <2>1. 0 \in S
    BY <1>6, <1>11
  <2>2. ASSUME NEW k \in 0 .. n, k \in S, k < n PROVE k + 1 \in S
    <3>1. k + 1 \in 0 .. n /\ k + 1 \in 1 .. n /\ (k + 1) - 1 = k /\ k + 1 # 0
          /\ n + 1 - (k + 1) = (n + 1) - (k + 1)
      BY <2>2
    <3>2. G[k + 1] = G[k] * B + s[(n + 1) - (k + 1)]
      BY <1>11, <3>1 DEF B
    <3>3. f[k + 1] = f[k] * B + s[(n + 1) - (k + 1)]
      BY <1>6, <3>1
    <3> QED
      BY <2>2, <3>1, <3>2, <3>3
  <2> HIDE DEF S
  <2>3. \A k \in 0 .. n : k \in S
    BY <2>1, <2>2, Upwards
  <2> QED
    BY <2>3 DEF S
<1>13. n \in 0 .. n
  OBVIOUS
<1> QED
  BY <1>7, <1>10, <1>12, <1>13

\* The numbers add up like what they are worth.
Combines(s, a, x, b, y, n) ==
    \A i \in 1 .. n : x[i] \in Int /\ y[i] \in Int /\ s[i] = a * x[i] + b * y[i]

\* The worth of words is linear in the words.
LEMMA ValueLinear ==
    ASSUME DigitAssumption, NEW n \in Nat, NEW a \in Int, NEW b \in Int,
           NEW s, NEW x, NEW y, Combines(s, a, x, b, y, n)
    PROVE  /\ Value(s, n) = a * Value(x, n) + b * Value(y, n)
           /\ Value(s, n) \in Int /\ Value(x, n) \in Int /\ Value(y, n) \in Int
<1> USE DEF Combines
<1>1. B \in Nat /\ \A i \in 1 .. n : s[i] \in Int
  <2>1. ASSUME NEW i \in 1 .. n PROVE s[i] \in Int
    <3>1. PICK p \in Int, q \in Int : p = x[i] /\ q = y[i]
      OBVIOUS
    <3>2. a * p + b * q \in Int
      OBVIOUS
    <3>3. s[i] = a * p + b * q
      BY <3>1
    <3> QED
      BY <3>2, <3>3
  <2> QED
    BY <2>1, BaseIs
<1>2. PICK f \in [0 .. n -> Int] : Uppers(f, s, n) /\ Value(s, n) = f[n]
  BY <1>1, UppersExist
<1>3. PICK g \in [0 .. n -> Int] : Uppers(g, x, n) /\ Value(x, n) = g[n]
  BY UppersExist
<1>4. PICK h \in [0 .. n -> Int] : Uppers(h, y, n) /\ Value(y, n) = h[n]
  BY UppersExist
<1> DEFINE S == {k \in 0 .. n : f[k] = a * g[k] + b * h[k]}
<1>5. 0 \in S
  BY <1>2, <1>3, <1>4 DEF Uppers
<1>6. ASSUME NEW k \in 0 .. n, k \in S, k < n PROVE k + 1 \in S
  <2>1. k + 1 \in 1 .. n /\ (k + 1) - 1 = k /\ (n + 1) - (k + 1) \in 1 .. n /\ k + 1 \in 0 .. n
    BY <1>6
  <2>2. PICK i \in 1 .. n : i = (n + 1) - (k + 1)
    BY <2>1
  <2>3. /\ f[k + 1] = f[k] * B + s[i] /\ g[k + 1] = g[k] * B + x[i] /\ h[k + 1] = h[k] * B + y[i]
    BY <1>2, <1>3, <1>4, <2>1, <2>2 DEF Uppers
  <2>4. PICK u \in Int, v \in Int, p \in Int, q \in Int :
           u = g[k] /\ v = h[k] /\ p = x[i] /\ q = y[i]
    BY <2>2
  <2>5. f[k] = a * u + b * v /\ s[i] = a * p + b * q
    BY <1>6, <2>2, <2>4
  <2>6. (a * u + b * v) * B + (a * p + b * q) = a * (u * B + p) + b * (v * B + q)
    BY <1>1
  <2> QED
    BY <2>1, <2>3, <2>4, <2>5, <2>6
<1>7. n \in 0 .. n
  OBVIOUS
<1> HIDE DEF S
<1>8. n \in S
  BY <1>5, <1>6, <1>7, Upwards
<1> QED
  BY <1>2, <1>3, <1>4, <1>7, <1>8 DEF S

\* No words are worth nothing, and one is worth what it is.
LEMMA ValueFew ==
    ASSUME DigitAssumption, NEW s
    PROVE  Value(s, 0) = 0 /\ (s[1] \in Int => Value(s, 1) = s[1])
<1>1. PICK f \in [0 .. 0 -> Int] : Uppers(f, s, 0) /\ Value(s, 0) = f[0]
  <2>1. 0 \in Nat /\ \A i \in 1 .. 0 : s[i] \in Int
    OBVIOUS
  <2> QED
    BY <2>1, UppersExist, Zenon
<1>2. ASSUME s[1] \in Int PROVE Value(s, 1) = s[1]
  <2>1. PICK g \in [0 .. 1 -> Int] : Uppers(g, s, 1) /\ Value(s, 1) = g[1]
    <3>1. 1 \in Nat /\ \A i \in 1 .. 1 : s[i] \in Int
      BY <1>2
    <3> QED
      BY <3>1, UppersExist, Zenon
  <2>2. 1 \in 1 .. 1 /\ (1 + 1) - 1 = 1 /\ 1 - 1 = 0
    OBVIOUS
  <2>3. g[1] = 0 * B + s[1]
    BY <2>1, <2>2 DEF Uppers
  <2> QED
    BY <1>2, <2>1, <2>3, BaseNat
<1> QED
  BY <1>1, <1>2 DEF Uppers

\* Leading zeros are worth nothing.
Pads(s, N, w, n) == /\ n <= N
                    /\ \A i \in 1 .. n : w[i] \in Int /\ s[i] = w[i]
                    /\ \A i \in 1 .. N : i > n => s[i] = 0

\* Words with zeros on top are worth what they are without.
LEMMA ValuePadded ==
    ASSUME DigitAssumption, NEW n \in Nat, NEW N \in Nat, NEW s, NEW w, Pads(s, N, w, n)
    PROVE  Value(s, N) = Value(w, n)
<1> USE DEF Pads
<1>1. B \in Nat /\ \A i \in 1 .. N : s[i] \in Int
  <2>1. \A i \in 1 .. N : i \in 1 .. n \/ i > n
    OBVIOUS
  <2> QED
    BY <2>1, BaseNat
<1>2. PICK g \in [0 .. N -> Int] : Uppers(g, s, N) /\ Value(s, N) = g[N]
  BY <1>1, UppersExist
<1>3. PICK f \in [0 .. n -> Int] : Uppers(f, w, n) /\ Value(w, n) = f[n]
  BY UppersExist
<1>4. PICK m \in Nat : m = N - n /\ m <= N
  OBVIOUS
<1> DEFINE S == {k \in 0 .. N : g[k] = IF k <= m THEN 0 ELSE f[k - m]}
<1>5. 0 \in S
  BY <1>2 DEF Uppers
<1>6. ASSUME NEW k \in 0 .. N, k \in S, k < N PROVE k + 1 \in S
  <2>1. k + 1 \in 1 .. N /\ (k + 1) - 1 = k /\ (N + 1) - (k + 1) \in 1 .. N /\ k + 1 \in 0 .. N
    BY <1>6
  <2>2. PICK i \in 1 .. N : i = (N + 1) - (k + 1)
    BY <2>1
  <2>3. g[k + 1] = g[k] * B + s[i]
    BY <1>2, <2>1, <2>2 DEF Uppers
  <2>4. CASE k + 1 <= m
    <3>1. k <= m /\ i > n
      BY <1>4, <2>2, <2>4
    <3>2. g[k] = 0 /\ s[i] = 0
      BY <1>6, <3>1
    <3> QED
      BY <1>1, <2>1, <2>3, <2>4, <3>2
  <2>5. CASE k + 1 > m
    <3>1. PICK j \in 1 .. n : j = (k + 1) - m
      BY <1>4, <2>1, <2>5
    <3>2. (n + 1) - j = i /\ i \in 1 .. n /\ s[i] = w[i]
      BY <1>4, <2>2, <3>1
    <3>3. f[j] = f[j - 1] * B + w[i]
      BY <1>3, <3>1, <3>2 DEF Uppers
    <3>4. g[k] = f[j - 1]
      <4>1. CASE k <= m
        <5>1. j - 1 = 0
          BY <3>1, <2>5, <4>1
        <5> QED
          BY <1>3, <1>6, <4>1, <5>1 DEF Uppers
      <4>2. CASE k > m
        <5>1. j - 1 = k - m /\ ~ (k <= m)
          BY <3>1, <4>2
        <5> QED
          BY <1>6, <4>2, <5>1
      <4> QED
        BY <4>1, <4>2
    <3>5. ~ (k + 1 <= m)
      BY <2>5
    <3> QED
      BY <2>1, <2>3, <3>1, <3>2, <3>3, <3>4, <3>5
  <2> QED
    BY <2>4, <2>5
<1>7. N \in 0 .. N
  OBVIOUS
<1>8. N \in S
  <2> HIDE DEF S
  <2> QED
    BY <1>5, <1>6, <1>7, Upwards
<1>9. CASE N <= m
  <2>1. n = 0
    BY <1>4, <1>9
  <2> QED
    BY <1>2, <1>3, <1>8, <1>9, <2>1 DEF Uppers
<1>10. CASE ~ (N <= m)
  <2>1. N - m = n
    BY <1>4
  <2> QED
    BY <1>2, <1>3, <1>8, <1>10, <2>1
<1> QED
  BY <1>9, <1>10

\* It depends on them only.
LEMMA ValueSame ==
    ASSUME DigitAssumption, NEW n \in Nat, NEW s, NEW x,
           \A i \in 1 .. n : x[i] \in Int /\ s[i] = x[i]
    PROVE  Value(s, n) = Value(x, n) /\ Value(x, n) \in Int
<1>1. n <= n /\ \A i \in 1 .. n : i > n => s[i] = 0
  OBVIOUS
<1>2. Value(s, n) = Value(x, n)
  BY <1>1, ValuePadded DEF Pads
<1>3. PICK f \in [0 .. n -> Int] : Uppers(f, x, n) /\ Value(x, n) = f[n]
  BY UppersExist
<1>4. n \in 0 .. n
  OBVIOUS
<1> QED
  BY <1>2, <1>3, <1>4

\* What each number passes to the next is taken B times from it.
Carries(s, r, c, n) ==
    /\ \A i \in 0 .. n : c[i] \in Int
    /\ \A i \in 1 .. n : s[i] \in Int /\ r[i] = (s[i] + c[i - 1]) - c[i] * B

\* A loop that carries from word to word keeps the worth, with what came in.
LEMMA ValueCarried ==
    ASSUME DigitAssumption, NEW n \in Nat, NEW s, NEW r, NEW c,
           Carries(s, r, c, n), c[n] = 0
    PROVE  Value(r, n) = Value(s, n) + c[0] /\ Value(s, n) \in Int
<1> USE DEF Carries
<1>1. B \in Nat /\ \A i \in 1 .. n : r[i] \in Int
  <2>1. \A i \in 1 .. n : i \in 0 .. n /\ i - 1 \in 0 .. n
    OBVIOUS
  <2>2. B \in Nat
    BY BaseIs
  <2>3. ASSUME NEW i \in 1 .. n PROVE r[i] \in Int
    <3>1. PICK u \in Int, v \in Int, p \in Int : u = s[i] /\ v = c[i - 1] /\ p = c[i]
      BY <2>1
    <3>2. p * B \in Int
      BY <2>2
    <3> QED
      BY <3>1, <3>2
  <2> QED
    BY <2>2, <2>3
<1>2. PICK f \in [0 .. n -> Int] : Uppers(f, s, n) /\ Value(s, n) = f[n]
  BY UppersExist
<1>3. PICK g \in [0 .. n -> Int] : Uppers(g, r, n) /\ Value(r, n) = g[n]
  BY <1>1, UppersExist
<1> DEFINE S == {k \in 0 .. n : g[k] = f[k] + c[n - k]}
<1>4. 0 \in S
  BY <1>2, <1>3 DEF Uppers
<1>5. ASSUME NEW k \in 0 .. n, k \in S, k < n PROVE k + 1 \in S
  <2>1. k + 1 \in 1 .. n /\ (k + 1) - 1 = k /\ (n + 1) - (k + 1) \in 1 .. n /\ k + 1 \in 0 .. n
    BY <1>5
  <2>2. PICK i \in 1 .. n : i = (n + 1) - (k + 1)
    BY <2>1
  <2>3. i = n - k /\ i - 1 = n - (k + 1) /\ i \in 0 .. n /\ i - 1 \in 0 .. n
    BY <2>2
  <2>4. g[k + 1] = g[k] * B + r[i] /\ f[k + 1] = f[k] * B + s[i]
    BY <1>2, <1>3, <2>1, <2>2 DEF Uppers
  <2>5. PICK u \in Int, v \in Int, p \in Int, q \in Int :
           u = f[k] /\ v = s[i] /\ p = c[i - 1] /\ q = c[i]
    BY <2>3
  <2>6. g[k] = u + q /\ r[i] = (v + p) - q * B
    BY <1>5, <2>3, <2>5
  <2>7. (u + q) * B + ((v + p) - q * B) = (u * B + v) + p
    BY <1>1
  <2> QED
    BY <2>1, <2>3, <2>4, <2>5, <2>6, <2>7
<1>6. n \in 0 .. n
  OBVIOUS
<1>7. n \in S
  <2> HIDE DEF S
  <2> QED
    BY <1>4, <1>5, <1>6, Upwards
<1>8. n - n = 0
  OBVIOUS
<1> QED
  BY <1>2, <1>3, <1>7, <1>8

\* Of two with words of one size, the first word that differs tells.
LEMMA ValueLess ==
    ASSUME DigitAssumption, NEW n \in Nat, NEW x, NEW y, NEW d \in 1 .. n,
           \A i \in 1 .. n : x[i] \in 0 .. B - 1 /\ y[i] \in 0 .. B - 1,
           \A i \in 1 .. n : i > d => x[i] = y[i],
           x[d] < y[d]
    PROVE  Value(x, n) < Value(y, n) /\ Value(x, n) \in Int /\ Value(y, n) \in Int
<1>1. B \in Nat /\ B >= 4 /\ \A i \in 1 .. n : x[i] \in Int /\ y[i] \in Int
  <2>1. B \in Nat /\ B >= 4
    BY BaseIs
  <2>2. \A i \in 1 .. n : x[i] \in 0 .. B - 1 /\ y[i] \in 0 .. B - 1
    OBVIOUS
  <2>3. \A p \in 0 .. B - 1 : p \in Int
    OBVIOUS
  <2> QED
    BY <2>1, <2>2, <2>3
<1>2. PICK f \in [0 .. n -> Int] : Uppers(f, x, n) /\ Value(x, n) = f[n]
  BY <1>1, UppersExist
<1>3. PICK g \in [0 .. n -> Int] : Uppers(g, y, n) /\ Value(y, n) = g[n]
  BY <1>1, UppersExist
<1> DEFINE S == {k \in 0 .. n : IF k <= n - d THEN f[k] = g[k] ELSE f[k] < g[k]}
<1>4. 0 \in S
  BY <1>2, <1>3 DEF Uppers
<1>5. ASSUME NEW k \in 0 .. n, k \in S, k < n PROVE k + 1 \in S
  <2>1. k + 1 \in 1 .. n /\ (k + 1) - 1 = k /\ (n + 1) - (k + 1) \in 1 .. n /\ k + 1 \in 0 .. n
    BY <1>5
  <2>2. PICK i \in 1 .. n : i = (n + 1) - (k + 1)
    BY <2>1
  <2>4. f[k + 1] = f[k] * B + x[i] /\ g[k + 1] = g[k] * B + y[i]
    BY <1>2, <1>3, <2>1, <2>2 DEF Uppers
  <2>5. PICK u \in Int, v \in Int, p \in 0 .. B - 1, q \in 0 .. B - 1 :
           u = f[k] /\ v = g[k] /\ p = x[i] /\ q = y[i]
    BY <2>2
  <2>6. CASE k + 1 <= n - d
    <3>1. k <= n - d /\ i > d
      BY <2>2, <2>6
    <3> QED
      BY <1>5, <2>1, <2>2, <2>4, <2>6, <3>1
  <2>7. CASE k + 1 = (n - d) + 1
    <3>1. k <= n - d /\ i = d /\ ~ (k + 1 <= n - d)
      BY <2>2, <2>7
    <3>2. u = v /\ p < q
      BY <1>5, <2>5, <3>1
    <3>3. u * B + p < v * B + q
      BY <1>1, <3>2
    <3> QED
      BY <2>1, <2>4, <2>5, <3>1, <3>3
  <2>8. CASE k + 1 > (n - d) + 1
    <3>1. ~ (k <= n - d) /\ ~ (k + 1 <= n - d)
      BY <2>8
    <3>2. u <= v - 1
      BY <1>5, <2>5, <3>1
    <3>3. u * B <= (v - 1) * B
      BY <1>1, <3>2
    <3>4. (v - 1) * B = v * B - B
      BY <1>1
    <3>5. PICK m \in Int, l \in Int : m = u * B /\ l = v * B
      BY <1>1
    <3>7. m <= l - B
      BY <3>3, <3>4, <3>5
    <3>8. p < B /\ 0 <= q /\ p \in Int /\ q \in Int
      BY <1>1
    <3>6. m + p < l + q
      BY <1>1, <3>7, <3>8
    <3> QED
      BY <2>1, <2>4, <2>5, <3>1, <3>5, <3>6
  <2> QED
    BY <2>6, <2>7, <2>8
<1>6. n \in 0 .. n /\ ~ (n <= n - d)
  OBVIOUS
<1>7. n \in S
  <2> HIDE DEF S
  <2> QED
    BY <1>4, <1>5, <1>6, Upwards
<1> QED
  BY <1>2, <1>3, <1>6, <1>7

\* The only quotient and remainder.
LEMMA Divided ==
    ASSUME DigitAssumption, NEW q \in Int, NEW r \in 0 .. B - 1
    PROVE  (q * B + r) \div B = q /\ (q * B + r) % B = r
<1>1. B \in Nat /\ B >= 4
  BY BaseIs
<1>2. PICK b \in Nat : b = B /\ b >= 4
  BY <1>1
<1> QED
  BY <1>2, SMTT(30)

\* Division with remainder by the number of values of a word.
LEMMA Quotient ==
    ASSUME DigitAssumption, NEW x \in Int
    PROVE  x \div B \in Int /\ x % B \in 0 .. B - 1 /\ x = (x \div B) * B + (x % B)
<1>1. PICK b \in Nat : b = B /\ b >= 4
  BY BaseIs
<1> QED
  BY <1>1, SMTT(30)

\* Of a sum of two words, or a difference.
LEMMA WordWraps ==
    ASSUME DigitAssumption, NEW x \in Int, - B <= x, x < 2 * B
    PROVE  /\ x \div B = IF x < 0 THEN -1 ELSE IF x < B THEN 0 ELSE 1
           /\ x % B = IF x < 0 THEN x + B ELSE IF x < B THEN x ELSE x - B
<1>1. B \in Nat /\ B >= 4
  BY BaseIs
<1>2. CASE x < 0
  <2>1. x + B \in 0 .. B - 1 /\ x = (-1) * B + (x + B)
    BY <1>1, <1>2
  <2> QED
    BY <1>2, <2>1, Divided
<1>3. CASE x >= 0 /\ x < B
  <2>1. x \in 0 .. B - 1 /\ x = 0 * B + x
    BY <1>1, <1>3
  <2> QED
    BY <1>3, <2>1, Divided
<1>4. CASE x >= B
  <2>1. PICK r \in 0 .. B - 1 : r = x - B
    BY <1>1, <1>4
  <2>2. x = 1 * B + r
    BY <1>1, <2>1
  <2>3. x \div B = 1 /\ x % B = r
    BY <2>2, Divided
  <2> QED
    BY <1>1, <1>4, <2>1, <2>3
<1> QED
  BY <1>1, <1>2, <1>3, <1>4

\* A word, as a number.
LEMMA WordsAre ==
    ASSUME DigitAssumption, NEW w \in Seq(Numbers!Word)
    PROVE  /\ Len(w) \in Nat /\ DOMAIN w = 1 .. Len(w)
           /\ \A i \in 1 .. Len(w) : w[i] \in Numbers!Word /\ w[i] \in 0 .. B - 1
                                     /\ w[i] \in Int /\ 0 <= w[i] /\ w[i] < B
<1>1. Numbers!Word = 0 .. B - 1 /\ B \in Nat
  BY BaseIs
<1> QED
  BY <1>1

\* AddWord adds a carry that each word may pass to the next.
LEMMA AddWordIs ==
    ASSUME DigitAssumption, NEW w \in Seq(Numbers!Word), NEW first \in {0, 1}
    PROVE  \E c : /\ \A i \in 0 .. Len(w) : c[i] \in {0, 1}
                  /\ c[0] = first /\ c[Len(w)] = Numbers!AddWord(w, first).carry
                  /\ Numbers!AddWord(w, first).words \in Seq(Numbers!Word)
                  /\ Len(Numbers!AddWord(w, first).words) = Len(w)
                  /\ \A i \in 1 .. Len(w) :
                        Numbers!AddWord(w, first).words[i] = (w[i] + c[i - 1]) - c[i] * B
<1>1. PICK n \in Nat : n = Len(w) /\ DOMAIN w = 1 .. n
  BY WordsAre
<1>2. B \in Nat /\ B >= 4 /\ \A i \in 1 .. n : w[i] \in Int /\ 0 <= w[i] /\ w[i] < B
  BY <1>1, WordsAre, BaseIs
<1> DEFINE step == [p \in (1 .. n) \X {0, 1} |-> (w[p[1]] + p[2]) \div B]
           c == CHOOSE u : u = [i \in 0 .. n |->
                                  IF i = 0 THEN first ELSE (w[i] + u[i - 1]) \div Numbers!Base]
           word(i) == (w[i] + c[i - 1]) % Numbers!Base
<1>3. \A i \in 1 .. n, x \in {0, 1} :
         /\ (w[i] + x) \div B \in {0, 1}
         /\ (w[i] + x) % B = (w[i] + x) - ((w[i] + x) \div B) * B
         /\ (w[i] + x) % B \in 0 .. B - 1
  <2> SUFFICES ASSUME NEW i \in 1 .. n, NEW x \in {0, 1}
               PROVE  /\ (w[i] + x) \div B \in {0, 1}
                      /\ (w[i] + x) % B = (w[i] + x) - ((w[i] + x) \div B) * B
                      /\ (w[i] + x) % B \in 0 .. B - 1
    OBVIOUS
  <2>1. PICK y \in Int : y = w[i] + x /\ - B <= y /\ y < 2 * B /\ ~ (y < 0)
    BY <1>2
  <2>2. y \div B = (IF y < B THEN 0 ELSE 1) /\ y % B = IF y < B THEN y ELSE y - B
    BY <2>1, WordWraps
  <2>3. PICK q \in {0, 1} : q = y \div B /\ q = IF y < B THEN 0 ELSE 1
    BY <2>2
  <2>4. PICK m \in Int : m = q * B /\ m = IF q = 0 THEN 0 ELSE B
    <3>1. q * B = IF q = 0 THEN 0 ELSE B
      BY <1>2
    <3> QED
      BY <1>2, <3>1
  <2>6. y % B = y - m /\ y % B \in 0 .. B - 1
    <3>1. PICK r : r = y % B /\ r = IF y < B THEN y ELSE y - B
      BY <2>2
    <3>2. m = IF y < B THEN 0 ELSE B
      BY <2>3, <2>4
    <3>4. B \in Nat /\ y \in Int /\ 0 <= y /\ y < 2 * B /\ y - 0 = y
      BY <1>2, <2>1
    <3>5. r = y - m
      BY <3>1, <3>2, <3>4
    <3>6. r \in 0 .. B - 1
      BY <3>1, <3>4
    <3>3. r = y - m /\ r \in 0 .. B - 1
      BY <3>5, <3>6
    <3> QED
      BY <3>1, <3>3
  <2>5. y % B = y - q * B /\ y % B \in 0 .. B - 1
    BY <2>4, <2>6
  <2> QED
    BY <2>1, <2>3, <2>5
<1>4. PICK f \in [0 .. n -> {0, 1}] : Follows(f, n, first, step)
  <2>1. step \in [(1 .. n) \X {0, 1} -> {0, 1}]
    <3>1. \A p \in (1 .. n) \X {0, 1} : p[1] \in 1 .. n /\ p[2] \in {0, 1}
      OBVIOUS
    <3> QED
      BY <1>3, <3>1
  <2> HIDE DEF step
  <2> QED
    BY <2>1, Recursion
<1>5. f = [i \in 0 .. n |-> IF i = 0 THEN first ELSE (w[i] + f[i - 1]) \div Numbers!Base]
  <2>1. ASSUME NEW i \in 1 .. n PROVE f[i] = (w[i] + f[i - 1]) \div B
    <3>1. i - 1 \in 0 .. n
      OBVIOUS
    <3>2. <<i, f[i - 1]>> \in (1 .. n) \X {0, 1}
      BY <3>1
    <3> QED
      BY <1>4, <3>2 DEF Follows
  <2>2. f[0] = first /\ \A i \in 0 .. n : i # 0 => i \in 1 .. n
    BY <1>4 DEF Follows
  <2> QED
    BY <2>1, <2>2 DEF B
<1>6. c = [i \in 0 .. n |-> IF i = 0 THEN first ELSE (w[i] + c[i - 1]) \div Numbers!Base]
  <2> HIDE DEF c
  <2> QED
    BY <1>5, Zenon DEF c
<1>7. Numbers!AddWord(w, first) = [words |-> [i \in DOMAIN w |-> word(i)], carry |-> c[n]]
  BY <1>1 DEF Numbers!AddWord
<1> HIDE DEF c
<1>8. c[0] = first /\ \A i \in 1 .. n : c[i] = (w[i] + c[i - 1]) \div B
  BY <1>6 DEF B
<1>9. \A i \in 0 .. n : c[i] \in {0, 1}
  <2> DEFINE S == {i \in 0 .. n : c[i] \in {0, 1}}
  <2>1. 0 \in S
    BY <1>8
  <2>2. ASSUME NEW i \in 0 .. n, i \in S, i < n PROVE i + 1 \in S
    <3>1. i + 1 \in 1 .. n /\ (i + 1) - 1 = i /\ i + 1 \in 0 .. n
      BY <2>2
    <3> QED
      BY <1>3, <1>8, <2>2, <3>1
  <2> HIDE DEF S
  <2>3. \A i \in 0 .. n : i \in S
    BY <2>1, <2>2, Upwards
  <2> QED
    BY <2>3 DEF S
<1>10. \A i \in 1 .. n : word(i) = (w[i] + c[i - 1]) - c[i] * B /\ word(i) \in Numbers!Word
  <2> SUFFICES ASSUME NEW i \in 1 .. n
               PROVE  word(i) = (w[i] + c[i - 1]) - c[i] * B /\ word(i) \in Numbers!Word
    OBVIOUS
  <2>1. c[i - 1] \in {0, 1} /\ Numbers!Word = 0 .. B - 1
    BY <1>9, BaseIs
  <2> QED
    BY <1>3, <1>8, <2>1 DEF B
<1>11. /\ Numbers!AddWord(w, first).words = [i \in 1 .. n |-> word(i)]
       /\ Numbers!AddWord(w, first).carry = c[n]
  BY <1>1, <1>7
<1> HIDE DEF word
<1>12. [i \in 1 .. n |-> word(i)] \in Seq(Numbers!Word) /\ Len([i \in 1 .. n |-> word(i)]) = n
  BY <1>10
<1> QED
  BY <1>1, <1>8, <1>9, <1>10, <1>11, <1>12

\* One word of AddWords: the carry is that of the sum, though it is computed
\* from a sum that may have wrapped.
Carried(w, o, x) == LET more == (w + x) % B
                    IN  IF more = 0 THEN x ELSE IF (o + more) % B < o THEN 1 ELSE 0

\* A digitwise sum of two words and a carry leaves a word and a carry.
LEMMA CarryStep ==
    ASSUME DigitAssumption, NEW w \in Int, NEW o \in Int, NEW x \in {0, 1},
           0 <= w, w < B, 0 <= o, o < B
    PROVE  /\ Carried(w, o, x) \in {0, 1}
           /\ ((o + w) + x) % B = ((o + w) + x) - Carried(w, o, x) * B
           /\ ((o + w) + x) % B \in 0 .. B - 1
<1>0. PICK v : v = Carried(w, o, x)
  OBVIOUS
<1>1. B \in Nat /\ B >= 4 /\ x \in Int /\ 0 <= x /\ x <= 1 /\ - B <= 0
  <2>1. B \in Nat /\ B >= 4
    BY BaseIs
  <2>2. - B <= 0
    BY <2>1
  <2> QED
    BY <2>1, <2>2
<1>2. PICK m : m = (w + x) % B
  OBVIOUS
<1>3. PICK t \in Int : t = (o + w) + x /\ 0 <= t /\ t < 2 * B /\ - B <= t
  <2> DEFINE t == (o + w) + x
  <2>1. t \in Int /\ 0 <= t /\ t < 2 * B
    BY <1>1
  <2> HIDE DEF t
  <2>2. - B <= t
    BY <1>1, <2>1
  <2> QED
    BY <2>1, <2>2 DEF t
<1>4. PICK r : r = t % B /\ r = IF t < B THEN t ELSE t - B
  <2>1. t % B = IF t < 0 THEN t + B ELSE IF t < B THEN t ELSE t - B
    BY <1>3, WordWraps, Zenon
  <2> QED
    BY <1>3, <2>1
<1>5. PICK y \in Int : y = w + x /\ 0 <= y /\ y < 2 * B /\ - B <= y
  <2> DEFINE y == w + x
  <2>1. y \in Int /\ 0 <= y /\ y < 2 * B
    BY <1>1
  <2> HIDE DEF y
  <2>2. - B <= y
    BY <1>1, <2>1
  <2> QED
    BY <2>1, <2>2 DEF y
<1>6. m = IF y < B THEN y ELSE y - B
  <2>1. y % B = IF y < 0 THEN y + B ELSE IF y < B THEN y ELSE y - B
    BY <1>5, WordWraps, Zenon
  <2> QED
    BY <1>2, <1>5, <2>1
<1>7. v = IF m = 0 THEN x ELSE IF (o + m) % B < o THEN 1 ELSE 0
  BY <1>0, <1>2 DEF Carried
<1>8. v = IF t < B THEN 0 ELSE 1
  <2>1. CASE y >= B
    <3>1. x = 1 /\ w = B - 1 /\ m = 0
      BY <1>1, <1>5, <1>6, <2>1
    <3> QED
      BY <1>1, <1>3, <1>7, <3>1
  <2>2. CASE y = 0
    <3>1. x = 0 /\ w = 0 /\ m = 0
      BY <1>1, <1>5, <1>6, <2>2
    <3> QED
      BY <1>1, <1>3, <1>7, <3>1
  <2>3. CASE 0 < y /\ y < B
    <3>1. m = y /\ m # 0 /\ o + m = t
      BY <1>3, <1>5, <1>6, <2>3
    <3>2. v = IF r < o THEN 1 ELSE 0
      BY <1>4, <1>7, <3>1
    <3>3. t < B => r = t /\ ~ (r < o)
      BY <1>4, <2>3, <3>1
    <3>4. ~ (t < B) => r = t - B /\ r < o
      BY <1>1, <1>3, <1>4, <2>3, <3>1
    <3> QED
      BY <3>2, <3>3, <3>4
  <2> QED
    BY <1>1, <1>5, <2>1, <2>2, <2>3
<1>9. v \in {0, 1} /\ v * B = IF t < B THEN 0 ELSE B
  BY <1>1, <1>8
<1>10. r = t - v * B /\ r \in 0 .. B - 1
  <2>1. PICK p : p = v * B
    OBVIOUS
  <2>2. p = IF t < B THEN 0 ELSE B
    BY <1>9, <2>1
  <2>3. r = t - p
    BY <1>1, <1>3, <1>4, <2>2
  <2>4. r \in 0 .. B - 1
    BY <1>1, <1>3, <1>4
  <2> QED
    BY <2>1, <2>3, <2>4
<1> QED
  BY <1>0, <1>3, <1>4, <1>9, <1>10

\* The words that are added, and zeros behind them.
Padded(w, i) == IF i <= Len(w) THEN w[i] ELSE 0

\* AddWords adds word by word, and to the diff of out what is carried.
LEMMA AddWordsIs ==
    ASSUME DigitAssumption, NEW w \in Seq(Numbers!Word), NEW out \in Seq(Numbers!Word),
           Len(w) <= Len(out)
    PROVE  \E c : /\ \A i \in 0 .. Len(out) : c[i] \in {0, 1}
                  /\ c[0] = 0 /\ c[Len(out)] = Numbers!AddWords(w, out).carry
                  /\ Numbers!AddWords(w, out).words \in Seq(Numbers!Word)
                  /\ Len(Numbers!AddWords(w, out).words) = Len(out)
                  /\ \A i \in 1 .. Len(out) :
                        Numbers!AddWords(w, out).words[i] =
                           ((out[i] + Padded(w, i)) + c[i - 1]) - c[i] * B
<1>1. PICK n \in Nat, N \in Nat : /\ n = Len(w) /\ DOMAIN w = 1 .. n
                                  /\ N = Len(out) /\ DOMAIN out = 1 .. N /\ n <= N
  BY WordsAre
<1>2. /\ B \in Nat /\ B >= 4 /\ Numbers!Word = 0 .. B - 1
      /\ \A i \in 1 .. n : w[i] \in Int /\ 0 <= w[i] /\ w[i] < B
      /\ \A i \in 1 .. N : out[i] \in Int /\ 0 <= out[i] /\ out[i] < B
  BY <1>1, WordsAre, BaseIs
<1> DEFINE next(i, x) == LET more == (w[i] + x) % Numbers!Base
                         IN  IF more = 0 THEN x
                             ELSE IF (out[i] + more) % Numbers!Base < out[i] THEN 1 ELSE 0
           nextCase(i, x) == LET more == (w[i] + x) % Numbers!Base
                             IN  CASE more = 0 -> x
                                   [] more # 0 -> IF (out[i] + more) % Numbers!Base < out[i]
                                                    THEN 1 ELSE 0
           step == [p \in (1 .. n) \X {0, 1} |-> next(p[1], p[2])]
           b == CHOOSE u : u = [i \in 0 .. n |->
                  IF i = 0 THEN 0
                  ELSE LET more == (w[i] + u[i - 1]) % Numbers!Base
                       IN  CASE more = 0 -> u[i - 1]
                             [] more # 0 -> IF (out[i] + more) % Numbers!Base < out[i]
                                              THEN 1 ELSE 0]
           word(i) == (out[i] + w[i] + b[i - 1]) % Numbers!Base
           low == [i \in DOMAIN w |-> word(i)]
           high == SubSeq(out, Len(w) + 1, Len(out))
           diff == Numbers!AddWord(high, 1)
           sum == Numbers!AddWords(w, out)
<1>3. \A i \in 1 .. n, x \in {0, 1} :
         /\ next(i, x) \in {0, 1}
         /\ ((out[i] + w[i]) + x) % B = ((out[i] + w[i]) + x) - next(i, x) * B
         /\ ((out[i] + w[i]) + x) % B \in 0 .. B - 1
  <2> SUFFICES ASSUME NEW i \in 1 .. n, NEW x \in {0, 1}
               PROVE  /\ next(i, x) \in {0, 1}
                      /\ ((out[i] + w[i]) + x) % B = ((out[i] + w[i]) + x) - next(i, x) * B
                      /\ ((out[i] + w[i]) + x) % B \in 0 .. B - 1
    OBVIOUS
  <2>2. next(i, x) = Carried(w[i], out[i], x)
    BY DEF B, Carried
  <2>3. w[i] \in Int /\ out[i] \in Int /\ 0 <= w[i] /\ w[i] < B /\ 0 <= out[i] /\ out[i] < B
    <3>1. i \in 1 .. N
      BY <1>1
    <3> QED
      BY <1>2, <3>1
  <2> HIDE DEF next
  <2>4. /\ Carried(w[i], out[i], x) \in {0, 1}
        /\ ((out[i] + w[i]) + x) % B
             = ((out[i] + w[i]) + x) - Carried(w[i], out[i], x) * B
        /\ ((out[i] + w[i]) + x) % B \in 0 .. B - 1
    BY <2>3, CarryStep, Zenon
  <2> QED
    BY <2>2, <2>4, Zenon
<1>4. sum = IF b[n] = 1 THEN [words |-> low \o diff.words, carry |-> diff.carry]
                        ELSE [words |-> low \o high, carry |-> 0]
  BY <1>1 DEF Numbers!AddWords
<1>5. PICK f \in [0 .. n -> {0, 1}] : Follows(f, n, 0, step)
  <2>1. step \in [(1 .. n) \X {0, 1} -> {0, 1}]
    <3>1. \A p \in (1 .. n) \X {0, 1} : p[1] \in 1 .. n /\ p[2] \in {0, 1}
      OBVIOUS
    <3> HIDE DEF next
    <3> QED
      BY <1>3, <3>1
  <2>2. 0 \in {0, 1}
    OBVIOUS
  <2> HIDE DEF step
  <2> QED
    BY <2>1, <2>2, Recursion, Zenon
<1>6. f = [i \in 0 .. n |-> IF i = 0 THEN 0 ELSE next(i, f[i - 1])]
  <2>1. ASSUME NEW i \in 1 .. n PROVE f[i] = next(i, f[i - 1])
    <3>1. i - 1 \in 0 .. n
      OBVIOUS
    <3>2. <<i, f[i - 1]>> \in (1 .. n) \X {0, 1}
      BY <3>1
    <3> HIDE DEF next
    <3> QED
      BY <1>5, <3>2 DEF Follows
  <2>2. f[0] = 0 /\ \A i \in 0 .. n : i # 0 => i \in 1 .. n
    BY <1>5 DEF Follows
  <2> HIDE DEF next
  <2> QED
    BY <2>1, <2>2
<1>7. b = [i \in 0 .. n |-> IF i = 0 THEN 0 ELSE next(i, b[i - 1])]
  <2>1. \A i, x : next(i, x) = nextCase(i, x)
    <3> SUFFICES ASSUME NEW i, NEW x PROVE next(i, x) = nextCase(i, x)
      OBVIOUS
    <3> QED
      BY Zenon
  <2>2. f = [i \in 0 .. n |-> IF i = 0 THEN 0 ELSE nextCase(i, f[i - 1])]
    <3> HIDE DEF next, nextCase
    <3> QED
      BY <1>6, <2>1, Zenon
  <2>3. b = [i \in 0 .. n |-> IF i = 0 THEN 0 ELSE nextCase(i, b[i - 1])]
    BY <2>2, Zenon DEF b
  <2> HIDE DEF b, next, nextCase
  <2> QED
    BY <2>1, <2>3, Zenon
<1> HIDE DEF nextCase
<1> HIDE DEF b, next
<1>8. b[0] = 0 /\ \A i \in 1 .. n : b[i] = next(i, b[i - 1])
  BY <1>7
<1>9. \A i \in 0 .. n : b[i] \in {0, 1}
  <2> DEFINE S == {i \in 0 .. n : b[i] \in {0, 1}}
  <2>1. 0 \in S
    BY <1>8
  <2>2. ASSUME NEW i \in 0 .. n, i \in S, i < n PROVE i + 1 \in S
    <3>1. i + 1 \in 1 .. n /\ (i + 1) - 1 = i /\ i + 1 \in 0 .. n
      BY <2>2
    <3> QED
      BY <1>3, <1>8, <2>2, <3>1
  <2> HIDE DEF S
  <2>3. \A i \in 0 .. n : i \in S
    BY <2>1, <2>2, Upwards
  <2> QED
    BY <2>3 DEF S
<1>10. \A i \in 1 .. n : /\ word(i) = ((out[i] + w[i]) + b[i - 1]) - b[i] * B
                         /\ word(i) \in Numbers!Word
  <2> SUFFICES ASSUME NEW i \in 1 .. n
               PROVE  /\ word(i) = ((out[i] + w[i]) + b[i - 1]) - b[i] * B
                      /\ word(i) \in Numbers!Word
    OBVIOUS
  <2>1. b[i - 1] \in {0, 1} /\ Numbers!Word = 0 .. B - 1
    BY <1>9, BaseIs
  <2>2. out[i] + w[i] + b[i - 1] = (out[i] + w[i]) + b[i - 1]
    OBVIOUS
  <2> QED
    BY <1>3, <1>8, <2>1, <2>2 DEF B
<1> HIDE DEF word
<1>11. low \in Seq(Numbers!Word) /\ Len(low) = n /\ \A i \in 1 .. n : low[i] = word(i)
  BY <1>1, <1>10
<1>12. /\ high \in Seq(Numbers!Word) /\ Len(high) = N - n
       /\ \A i \in 1 .. N - n : high[i] = out[n + i]
  BY <1>1
<1> HIDE DEF low, high
<1> DEFINE Added(words, d) == /\ words \in Seq(Numbers!Word) /\ Len(words) = N - n
                              /\ \A i \in 0 .. N - n : d[i] \in {0, 1}
                              /\ d[0] = b[n]
                              /\ \A i \in 1 .. N - n :
                                    words[i] = (out[n + i] + d[i - 1]) - d[i] * B
<1>13. \E words, d : Added(words, d) /\ sum = [words |-> low \o words, carry |-> d[N - n]]
  <2>1. CASE b[n] = 1
    <3>1. PICK d : /\ \A i \in 0 .. Len(high) : d[i] \in {0, 1}
                   /\ d[0] = 1 /\ d[Len(high)] = diff.carry
                   /\ diff.words \in Seq(Numbers!Word)
                   /\ Len(diff.words) = Len(high)
                   /\ \A i \in 1 .. Len(high) :
                         diff.words[i] = (high[i] + d[i - 1]) - d[i] * B
      <4>1. 1 \in {0, 1}
        OBVIOUS
      <4> QED
        BY <1>12, <4>1, AddWordIs
    <3>2. sum = [words |-> low \o diff.words, carry |-> diff.carry]
      BY <1>4, <2>1
    <3> HIDE DEF diff
    <3>3. Added(diff.words, d)
      BY <1>12, <2>1, <3>1
    <3>4. diff.carry = d[N - n]
      BY <1>12, <3>1
    <3>5. sum = [words |-> low \o diff.words, carry |-> d[N - n]]
      BY <3>2, <3>4
    <3> HIDE DEF Added, sum
    <3> QED
      BY <3>3, <3>5, Zenon
  <2>2. CASE b[n] # 1
    <3>1. b[n] = 0 /\ sum = [words |-> low \o high, carry |-> 0]
      BY <1>1, <1>4, <1>9, <2>2
    <3> DEFINE d == [i \in 0 .. N - n |-> 0]
    <3>2. \A i \in 0 .. N - n : d[i] = 0
      OBVIOUS
    <3> HIDE DEF d
    <3>3. \A i \in 1 .. N - n : high[i] = (out[n + i] + d[i - 1]) - d[i] * B
      <4> SUFFICES ASSUME NEW i \in 1 .. N - n
                   PROVE  high[i] = (out[n + i] + d[i - 1]) - d[i] * B
        OBVIOUS
      <4>1. d[i - 1] = 0 /\ d[i] = 0 /\ high[i] = out[n + i] /\ n + i \in 1 .. N
        BY <1>1, <1>12, <3>2
      <4>2. out[n + i] \in Int /\ 0 * B = 0
        BY <1>2, <4>1
      <4> QED
        BY <4>1, <4>2
    <3>4. 0 \in 0 .. N - n /\ N - n \in 0 .. N - n
      BY <1>1
    <3>5. Added(high, d)
      BY <1>12, <3>1, <3>2, <3>3, <3>4
    <3> QED
      BY <3>1, <3>2, <3>4, <3>5
  <2> QED
    BY <2>1, <2>2
<1>14. PICK words, d : Added(words, d) /\ sum = [words |-> low \o words, carry |-> d[N - n]]
  BY <1>13
<1> HIDE DEF sum
<1> DEFINE c == [i \in 0 .. N |-> IF i <= n THEN b[i] ELSE d[i - n]]
           all == low \o words
<1>15. all \in Seq(Numbers!Word) /\ Len(all) = N
       /\ (\A i \in 1 .. n : all[i] = low[i]) /\ \A i \in 1 .. N - n : all[n + i] = words[i]
  BY <1>1, <1>11, <1>14
<1> HIDE DEF all
<1>16. (\A i \in 0 .. n : c[i] = b[i]) /\ \A i \in 0 .. N - n : c[n + i] = d[i]
  <2>1. \A i \in 0 .. n : c[i] = b[i]
    BY <1>1
  <2>2. ASSUME NEW i \in 0 .. N - n PROVE c[n + i] = d[i]
    <3>1. n + i \in 0 .. N /\ (n + i) - n = i
      BY <1>1
    <3>2. CASE i = 0
      BY <1>1, <1>14, <3>1, <3>2
    <3>3. CASE i # 0
      <4>1. ~ (n + i <= n)
        BY <3>3
      <4> QED
        BY <3>1, <4>1
    <3> QED
      BY <3>2, <3>3
  <2> QED
    BY <2>1, <2>2
<1> HIDE DEF c
<1>17. \A i \in 0 .. N : c[i] \in {0, 1}
  <2> SUFFICES ASSUME NEW i \in 0 .. N PROVE c[i] \in {0, 1}
    OBVIOUS
  <2>1. CASE i <= n
    <3>1. i \in 0 .. n
      BY <2>1
    <3> QED
      BY <1>9, <1>16, <3>1
  <2>2. CASE i > n
    <3>1. i - n \in 0 .. N - n /\ n + (i - n) = i
      BY <2>2
    <3> QED
      BY <1>14, <1>16, <3>1
  <2> QED
    BY <2>1, <2>2
<1>18. c[0] = 0 /\ c[N] = sum.carry /\ sum.words = all
  <2>1. 0 \in 0 .. n /\ N - n \in 0 .. N - n /\ n + (N - n) = N
    BY <1>1
  <2>2. c[0] = b[0] /\ c[N] = d[N - n]
    BY <1>16, <2>1
  <2> QED
    BY <1>8, <1>14, <2>2 DEF all
<1>19. \A i \in 1 .. N : all[i] = ((out[i] + Padded(w, i)) + c[i - 1]) - c[i] * B
  <2> SUFFICES ASSUME NEW i \in 1 .. N
               PROVE  all[i] = ((out[i] + Padded(w, i)) + c[i - 1]) - c[i] * B
    OBVIOUS
  <2>1. CASE i <= n
    <3>1. i \in 1 .. n /\ i \in 0 .. n /\ i - 1 \in 0 .. n /\ Padded(w, i) = w[i]
      BY <1>1, <2>1 DEF Padded
    <3> QED
      BY <1>10, <1>11, <1>15, <1>16, <3>1, ZenonT(30)
  <2>2. CASE i > n
    <3>1. PICK j \in 1 .. N - n : j = i - n
      BY <2>2
    <3>2. /\ i = n + j /\ i - 1 = n + (j - 1) /\ j \in 0 .. N - n /\ j - 1 \in 0 .. N - n
          /\ Padded(w, i) = 0 /\ out[i] \in Int /\ out[i] + 0 = out[i]
      BY <1>1, <1>2, <2>2, <3>1 DEF Padded
    <3>3. words[j] = (out[n + j] + d[j - 1]) - d[j] * B
      BY <1>14
    <3>4. all[i] = words[j] /\ c[i] = d[j] /\ c[i - 1] = d[j - 1]
      BY <1>15, <1>16, <3>2
    <3> QED
      BY <3>2, <3>3, <3>4
  <2> QED
    BY <2>1, <2>2
<1> QED
  BY <1>1, <1>15, <1>17, <1>18, <1>19 DEF sum

\* A borrow that each word may pass to the next: what the word becomes.
Borrowed(w, o, x) == IF o >= w + x THEN 0 ELSE 1

\* A digitwise difference of two words and a borrow leaves a word and a borrow.
LEMMA BorrowStep ==
    ASSUME DigitAssumption, NEW w \in Int, NEW o \in Int, NEW x \in {0, 1},
           0 <= w, w < B, 0 <= o, o < B, w + x < B
    PROVE  /\ Borrowed(w, o, x) \in {0, 1}
           /\ ((o - w) - x) % B = ((o - w) - x) + Borrowed(w, o, x) * B
           /\ ((o - w) - x) % B \in 0 .. B - 1
<1>0. PICK v : v = Borrowed(w, o, x)
  OBVIOUS
<1>1. B \in Nat /\ B >= 4 /\ x \in Int /\ 0 <= x /\ x <= 1
  BY BaseNat
<1>2. PICK t \in Int : t = (o - w) - x /\ t < B /\ - B <= t /\ t < 2 * B
  <2> DEFINE t == (o - w) - x
  <2>1. t \in Int /\ t < B
    BY <1>1
  <2>2. 0 <= t + B
    BY <1>1
  <2> HIDE DEF t
  <2>3. - B <= t /\ t < 2 * B
    BY <1>1, <2>1, <2>2
  <2> QED
    BY <2>1, <2>3 DEF t
<1>3. t % B = IF t < 0 THEN t + B ELSE IF t < B THEN t ELSE t - B
  BY <1>2, WordWraps, Zenon
<1>4. v = IF t < 0 THEN 1 ELSE 0
  BY <1>0, <1>1, <1>2 DEF Borrowed
<1>5. v \in {0, 1} /\ v * B = IF t < 0 THEN B ELSE 0
  BY <1>1, <1>4
<1>6. PICK p \in Int : p = v * B /\ p = IF t < 0 THEN B ELSE 0
  BY <1>1, <1>5
<1>7. PICK r : r = t % B /\ r = IF t < 0 THEN t + B ELSE IF t < B THEN t ELSE t - B
  BY <1>3
<1>8. r = t + p /\ r \in 0 .. B - 1
  BY <1>1, <1>2, <1>6, <1>7
<1> QED
  BY <1>0, <1>2, <1>5, <1>6, <1>7, <1>8

\* The largest of 0 and n - 2, which the borrowing loops return.
LEMMA MaxIs ==
    ASSUME NEW n \in Nat
    PROVE  Numbers!Max({0, n - 2}) = IF n >= 2 THEN n - 2 ELSE 0
<1> DEFINE S == {0, n - 2}
           m == IF n >= 2 THEN n - 2 ELSE 0
<1>1. m \in S /\ (\A y \in S : m >= y) /\ S \subseteq Int
  OBVIOUS
<1>2. \A x \in S : (\A y \in S : x >= y) => x = m
  <2> SUFFICES ASSUME NEW x \in S, \A y \in S : x >= y PROVE x = m
    OBVIOUS
  <2>1. x >= m /\ m >= x /\ x \in Int /\ m \in Int
    BY <1>1
  <2> HIDE DEF m
  <2> QED
    BY <2>1
<1> HIDE DEF S, m
<1>3. Numbers!Max(S) = CHOOSE x \in S : \A y \in S : x >= y
  BY DEF Numbers!Max
<1>4. Numbers!Max(S) = m
  BY <1>1, <1>2, <1>3, Zenon
<1> QED
  BY <1>4 DEF S, m

\* SubWord subtracts one, if the words are not all 0, and says whether the last
\* word has become 0.
LEMMA SubWordIs ==
    ASSUME DigitAssumption, NEW w \in Seq(Numbers!Word)
    PROVE  \E b : /\ \A i \in 0 .. Len(w) : b[i] \in {0, 1}
                  /\ b[0] = 1
                  /\ Numbers!SubWord(w, 1).words \in Seq(Numbers!Word)
                  /\ Len(Numbers!SubWord(w, 1).words) = Len(w)
                  /\ \A i \in 1 .. Len(w) :
                        /\ Numbers!SubWord(w, 1).words[i] = (w[i] - b[i - 1]) + b[i] * B
                        /\ b[i] = IF w[i] >= b[i - 1] THEN 0 ELSE 1
                  /\ Numbers!SubWord(w, 1).end =
                        IF Len(w) > 0 /\ b[Len(w) - 1] = 1 /\ w[Len(w)] = 1
                          THEN IF Len(w) >= 2 THEN Len(w) - 2 ELSE 0
                          ELSE Len(w)
<1>1. PICK n \in Nat : n = Len(w) /\ DOMAIN w = 1 .. n
  BY WordsAre
<1>2. B \in Nat /\ B >= 4 /\ \A i \in 1 .. n : w[i] \in Int /\ 0 <= w[i] /\ w[i] < B
  BY <1>1, WordsAre, BaseIs
<1> DEFINE next(i, x) == IF w[i] >= x THEN 0 ELSE 1
           step == [p \in (1 .. n) \X {0, 1} |-> next(p[1], p[2])]
           b == CHOOSE u : u = [i \in 0 .. n |->
                                  IF i = 0 THEN 1 ELSE IF w[i] >= u[i - 1] THEN 0 ELSE 1]
           word(i) == (w[i] - b[i - 1]) % Numbers!Base
           ended == n > 0 /\ b[n - 1] # 0 /\ w[n] = b[n - 1]
           diff == Numbers!SubWord(w, 1)
<1>3. \A i \in 1 .. n, x \in {0, 1} :
         /\ next(i, x) \in {0, 1}
         /\ (w[i] - x) % B = (w[i] - x) + next(i, x) * B
         /\ (w[i] - x) % B \in 0 .. B - 1
  <2> SUFFICES ASSUME NEW i \in 1 .. n, NEW x \in {0, 1}
               PROVE  /\ next(i, x) \in {0, 1}
                      /\ (w[i] - x) % B = (w[i] - x) + next(i, x) * B
                      /\ (w[i] - x) % B \in 0 .. B - 1
    OBVIOUS
  <2>1. w[i] \in Int /\ 0 <= w[i] /\ w[i] < B
    BY <1>2
  <2>2. PICK o \in Int, z \in Int : /\ o = w[i] /\ 0 <= o /\ o < B /\ z = 0
                                    /\ 0 <= z /\ z < B /\ z + x < B
    BY <1>2, <2>1
  <2>3. next(i, x) = Borrowed(z, o, x)
    <3>1. o >= z + x <=> o >= x
      BY <2>2
    <3> QED
      BY <2>2, <3>1 DEF Borrowed
  <2>4. /\ Borrowed(z, o, x) \in {0, 1}
        /\ ((o - z) - x) % B = ((o - z) - x) + Borrowed(z, o, x) * B
        /\ ((o - z) - x) % B \in 0 .. B - 1
    BY <2>2, BorrowStep, Zenon
  <2>5. (o - z) - x = w[i] - x
    BY <2>2
  <2> HIDE DEF next
  <2> QED
    BY <2>3, <2>4, <2>5, Zenon
<1>4. PICK f \in [0 .. n -> {0, 1}] : Follows(f, n, 1, step)
  <2>1. step \in [(1 .. n) \X {0, 1} -> {0, 1}]
    <3>1. \A p \in (1 .. n) \X {0, 1} : p[1] \in 1 .. n /\ p[2] \in {0, 1}
      OBVIOUS
    <3> HIDE DEF next
    <3> QED
      BY <1>3, <3>1
  <2>2. 1 \in {0, 1}
    OBVIOUS
  <2> HIDE DEF step
  <2> QED
    BY <2>1, <2>2, Recursion, Zenon
<1>5. f = [i \in 0 .. n |-> IF i = 0 THEN 1 ELSE next(i, f[i - 1])]
  <2>1. ASSUME NEW i \in 1 .. n PROVE f[i] = next(i, f[i - 1])
    <3>1. i - 1 \in 0 .. n
      OBVIOUS
    <3>2. <<i, f[i - 1]>> \in (1 .. n) \X {0, 1}
      BY <3>1
    <3> HIDE DEF next
    <3> QED
      BY <1>4, <3>2 DEF Follows
  <2>2. f[0] = 1 /\ \A i \in 0 .. n : i # 0 => i \in 1 .. n
    BY <1>4 DEF Follows
  <2> HIDE DEF next
  <2> QED
    BY <2>1, <2>2
<1>6. b = [i \in 0 .. n |-> IF i = 0 THEN 1 ELSE next(i, b[i - 1])]
  <2> HIDE DEF b
  <2> QED
    BY <1>5, Zenon DEF b
<1>7. diff = [words |-> [i \in DOMAIN w |-> word(i)],
              end |-> IF ended THEN Numbers!Max({0, n - 2}) ELSE n]
  BY <1>1 DEF Numbers!SubWord
<1> HIDE DEF b
<1>8. b[0] = 1 /\ \A i \in 1 .. n : b[i] = next(i, b[i - 1])
  BY <1>6
<1>9. \A i \in 0 .. n : b[i] \in {0, 1}
  <2> DEFINE S == {i \in 0 .. n : b[i] \in {0, 1}}
  <2>1. 0 \in S
    BY <1>8
  <2>2. ASSUME NEW i \in 0 .. n, i \in S, i < n PROVE i + 1 \in S
    <3>1. i + 1 \in 1 .. n /\ (i + 1) - 1 = i /\ i + 1 \in 0 .. n
      BY <2>2
    <3> QED
      BY <1>3, <1>8, <2>2, <3>1
  <2> HIDE DEF S
  <2>3. \A i \in 0 .. n : i \in S
    BY <2>1, <2>2, Upwards
  <2> QED
    BY <2>3 DEF S
<1>10. \A i \in 1 .. n : word(i) = (w[i] - b[i - 1]) + b[i] * B /\ word(i) \in Numbers!Word
  <2> SUFFICES ASSUME NEW i \in 1 .. n
               PROVE  word(i) = (w[i] - b[i - 1]) + b[i] * B /\ word(i) \in Numbers!Word
    OBVIOUS
  <2>1. b[i - 1] \in {0, 1} /\ Numbers!Word = 0 .. B - 1
    BY <1>9, BaseIs
  <2> HIDE DEF next
  <2> QED
    BY <1>3, <1>8, <2>1 DEF B
<1> HIDE DEF diff, word, ended
<1>11. diff.words = [i \in 1 .. n |-> word(i)]
       /\ diff.end = IF ended THEN Numbers!Max({0, n - 2}) ELSE n
  BY <1>1, <1>7
<1>12. [i \in 1 .. n |-> word(i)] \in Seq(Numbers!Word) /\ Len([i \in 1 .. n |-> word(i)]) = n
  BY <1>10
<1>13. ended <=> n > 0 /\ b[n - 1] = 1 /\ w[n] = 1
  <2>1. n > 0 => b[n - 1] \in {0, 1}
    BY <1>9
  <2> QED
    BY <2>1 DEF ended
<1>14. diff.end = IF ended THEN IF n >= 2 THEN n - 2 ELSE 0 ELSE n
  BY <1>11, MaxIs
<1>15. \A i \in 1 .. n : diff.words[i] = (w[i] - b[i - 1]) + b[i] * B
  BY <1>10, <1>11
<1>16. diff.words \in Seq(Numbers!Word) /\ Len(diff.words) = n
  BY <1>11, <1>12
<1> QED
  BY <1>1, <1>8, <1>9, <1>13, <1>14, <1>15, <1>16 DEF diff

\* The largest number of a finite set exists.
LEMMA TopWordIs ==
    ASSUME NEW n \in Nat, NEW S, S \subseteq 0 .. n, S # {}
    PROVE  Numbers!Max(S) \in S /\ \A y \in S : Numbers!Max(S) >= y
<1> DEFINE T == {n - y : y \in S}
<1>1. T \subseteq Nat /\ T # {}
  <2>1. \A y \in S : n - y \in Nat
    <3> SUFFICES ASSUME NEW y \in S PROVE n - y \in Nat
      OBVIOUS
    <3>1. y \in 0 .. n
      OBVIOUS
    <3> QED
      BY <3>1
  <2> QED
    BY <2>1
<1> HIDE DEF T
<1>2. PICK t \in T : \A u \in T : t <= u
  BY <1>1, LeastOf, Zenon
<1>3. PICK x \in S : t = n - x
  BY DEF T
<1>4. \A y \in S : x >= y
  <2> SUFFICES ASSUME NEW y \in S PROVE x >= y
    OBVIOUS
  <2>1. n - y \in T
    BY DEF T
  <2>2. n - x <= n - y
    BY <1>2, <1>3, <2>1
  <2>3. x \in Nat /\ y \in Nat
    OBVIOUS
  <2> QED
    BY <2>2, <2>3
<1>5. \E z \in S : \A y \in S : z >= y
  BY <1>4
<1> QED
  BY <1>5, Zenon DEF Numbers!Max

\* SubWords subtracts word by word.  It either has borrowed what is not there,
\* and the last word is then the larger one, or ends behind the last word that
\* is not 0.
LEMMA SubWordsIs ==
    ASSUME DigitAssumption, NEW w \in Seq(Numbers!Word), NEW out \in Seq(Numbers!Word),
           Len(w) > 0, Len(out) = Len(w) \/ Len(out) = Len(w) + 1,
           \A i \in 1 .. Len(w) : w[i] # B - 1,
           out[Len(out)] # 0
    PROVE  \E b : /\ \A i \in 0 .. Len(out) : b[i] \in {0, 1}
                  /\ b[0] = 0
                  /\ Numbers!SubWords(w, out).words \in Seq(Numbers!Word)
                  /\ Len(Numbers!SubWords(w, out).words) = Len(out)
                  /\ \A i \in 1 .. Len(out) :
                        Numbers!SubWords(w, out).words[i] =
                           ((out[i] - Padded(w, i)) - b[i - 1]) + b[i] * B
                  /\ b[Len(out)] = 1 => /\ Numbers!SubWords(w, out).end = Len(out)
                                        /\ Len(w) = Len(out)
                                        /\ Numbers!SubWords(w, out).words[Len(out)]
                                             > out[Len(out)]
                  /\ b[Len(out)] = 0 =>
                        /\ Numbers!SubWords(w, out).end \in 0 .. Len(out)
                        /\ \A i \in 1 .. Len(out) : i > Numbers!SubWords(w, out).end
                              => Numbers!SubWords(w, out).words[i] = 0
                        /\ Numbers!SubWords(w, out).end > 0 =>
                              Numbers!SubWords(w, out).words[Numbers!SubWords(w, out).end] # 0
                        /\ Numbers!SubWords(w, out).words[Len(out)] <= out[Len(out)]
<1>1. PICK n \in Nat, N \in Nat : /\ n = Len(w) /\ DOMAIN w = 1 .. n
                                  /\ N = Len(out) /\ DOMAIN out = 1 .. N
                                  /\ n > 0 /\ (N = n \/ N = n + 1)
  BY WordsAre
<1>2. /\ B \in Nat /\ B >= 4 /\ Numbers!Word = 0 .. B - 1
      /\ \A i \in 1 .. n : w[i] \in Int /\ 0 <= w[i] /\ w[i] < B - 1
      /\ \A i \in 1 .. N : out[i] \in Int /\ 0 <= out[i] /\ out[i] < B
      /\ out[N] # 0
  <2>1. /\ B \in Nat /\ B >= 4 /\ Numbers!Word = 0 .. B - 1
        /\ \A i \in 1 .. n : w[i] \in Int /\ 0 <= w[i] /\ w[i] < B /\ w[i] # B - 1
        /\ \A i \in 1 .. N : out[i] \in Int /\ 0 <= out[i] /\ out[i] < B
    BY <1>1, WordsAre, BaseIs
  <2> QED
    BY <1>1, <2>1
<1> DEFINE next(i, x) == IF out[i] >= (w[i] + x) % Numbers!Base THEN 0 ELSE 1
           step == [p \in (1 .. n) \X {0, 1} |-> next(p[1], p[2])]
           b == CHOOSE u : u = [i \in 0 .. n |->
                  IF i = 0 THEN 0
                  ELSE IF out[i] >= (w[i] + u[i - 1]) % Numbers!Base THEN 0 ELSE 1]
           word(i) == (out[i] - w[i] - b[i - 1]) % Numbers!Base
           low == [i \in DOMAIN w |-> word(i)]
           high == SubSeq(out, Len(w) + 1, Len(out))
           diff == Numbers!SubWord(high, 1)
           sub == Numbers!SubWords(w, out)
<1>3. \A i \in 1 .. n, x \in {0, 1} :
         /\ next(i, x) \in {0, 1}
         /\ ((out[i] - w[i]) - x) % B = ((out[i] - w[i]) - x) + next(i, x) * B
         /\ ((out[i] - w[i]) - x) % B \in 0 .. B - 1
  <2> SUFFICES ASSUME NEW i \in 1 .. n, NEW x \in {0, 1}
               PROVE  /\ next(i, x) \in {0, 1}
                      /\ ((out[i] - w[i]) - x) % B = ((out[i] - w[i]) - x) + next(i, x) * B
                      /\ ((out[i] - w[i]) - x) % B \in 0 .. B - 1
    OBVIOUS
  <2>1. i \in 1 .. N
    BY <1>1
  <2>2. PICK v \in Int, o \in Int : /\ v = w[i] /\ 0 <= v /\ v < B /\ v + x < B
                                    /\ o = out[i] /\ 0 <= o /\ o < B /\ 0 <= v + x
    <3>1. w[i] \in Int /\ 0 <= w[i] /\ w[i] < B - 1
      BY <1>2
    <3>2. out[i] \in Int /\ 0 <= out[i] /\ out[i] < B
      BY <1>2, <2>1
    <3>3. w[i] + x < B /\ w[i] < B /\ 0 <= w[i] + x
      BY <1>2, <3>1
    <3> QED
      BY <3>1, <3>2, <3>3
  <2>3. next(i, x) = Borrowed(v, o, x)
    <3>1. PICK y \in Int : y = v + x /\ 0 <= y /\ y < B /\ - B <= y /\ y < 2 * B
      <4> DEFINE y == v + x
      <4>1. y \in Int /\ 0 <= y /\ y < B
        BY <2>2
      <4> HIDE DEF y
      <4>2. - B <= y /\ y < 2 * B
        BY <1>2, <4>1
      <4> QED
        BY <4>1, <4>2 DEF y
    <3>2. y % B = IF y < 0 THEN y + B ELSE IF y < B THEN y ELSE y - B
      BY <3>1, WordWraps, Zenon
    <3>3. y % B = y
      BY <3>1, <3>2
    <3>4. (w[i] + x) % Numbers!Base = v + x
      BY <2>2, <3>1, <3>3 DEF B
    <3> QED
      BY <2>2, <3>4 DEF Borrowed
  <2>4. /\ Borrowed(v, o, x) \in {0, 1}
        /\ ((o - v) - x) % B = ((o - v) - x) + Borrowed(v, o, x) * B
        /\ ((o - v) - x) % B \in 0 .. B - 1
    BY <2>2, BorrowStep, Zenon
  <2> HIDE DEF next
  <2> QED
    BY <2>2, <2>3, <2>4, Zenon
<1>4. PICK f \in [0 .. n -> {0, 1}] : Follows(f, n, 0, step)
  <2>1. step \in [(1 .. n) \X {0, 1} -> {0, 1}]
    <3>1. \A p \in (1 .. n) \X {0, 1} : p[1] \in 1 .. n /\ p[2] \in {0, 1}
      OBVIOUS
    <3> HIDE DEF next
    <3> QED
      BY <1>3, <3>1
  <2>2. 0 \in {0, 1}
    OBVIOUS
  <2> HIDE DEF step
  <2> QED
    BY <2>1, <2>2, Recursion, Zenon
<1>5. f = [i \in 0 .. n |-> IF i = 0 THEN 0 ELSE next(i, f[i - 1])]
  <2>1. ASSUME NEW i \in 1 .. n PROVE f[i] = next(i, f[i - 1])
    <3>1. i - 1 \in 0 .. n
      OBVIOUS
    <3>2. <<i, f[i - 1]>> \in (1 .. n) \X {0, 1}
      BY <3>1
    <3> HIDE DEF next
    <3> QED
      BY <1>4, <3>2 DEF Follows
  <2>2. f[0] = 0 /\ \A i \in 0 .. n : i # 0 => i \in 1 .. n
    BY <1>4 DEF Follows
  <2> HIDE DEF next
  <2> QED
    BY <2>1, <2>2
<1>6. b = [i \in 0 .. n |-> IF i = 0 THEN 0 ELSE next(i, b[i - 1])]
  <2> HIDE DEF b
  <2> QED
    BY <1>5, Zenon DEF b
<1>7. sub = CASE b[n] = 1 -> [words |-> low \o diff.words, end |-> n + diff.end]
              [] b[n] = 0 /\ n = N ->
                    [words |-> low,
                     end |-> Numbers!Max({0} \union {i \in 1 .. n : low[i] # 0})]
              [] OTHER -> [words |-> low \o high, end |-> N]
  BY <1>1 DEF Numbers!SubWords, Numbers!Borrows
<1> HIDE DEF b, diff, sub
<1>8. b[0] = 0 /\ \A i \in 1 .. n : b[i] = next(i, b[i - 1])
  BY <1>6
<1>9. \A i \in 0 .. n : b[i] \in {0, 1}
  <2> DEFINE S == {i \in 0 .. n : b[i] \in {0, 1}}
  <2>1. 0 \in S
    BY <1>8
  <2>2. ASSUME NEW i \in 0 .. n, i \in S, i < n PROVE i + 1 \in S
    <3>1. i + 1 \in 1 .. n /\ (i + 1) - 1 = i /\ i + 1 \in 0 .. n
      BY <2>2
    <3> HIDE DEF next
    <3> QED
      BY <1>3, <1>8, <2>2, <3>1
  <2> HIDE DEF S
  <2>3. \A i \in 0 .. n : i \in S
    BY <2>1, <2>2, Upwards
  <2> QED
    BY <2>3 DEF S
<1>10. \A i \in 1 .. n : /\ word(i) = ((out[i] - w[i]) - b[i - 1]) + b[i] * B
                         /\ word(i) \in Numbers!Word
  <2> SUFFICES ASSUME NEW i \in 1 .. n
               PROVE  /\ word(i) = ((out[i] - w[i]) - b[i - 1]) + b[i] * B
                      /\ word(i) \in Numbers!Word
    OBVIOUS
  <2>1. b[i - 1] \in {0, 1} /\ Numbers!Word = 0 .. B - 1
    BY <1>9, BaseIs
  <2> HIDE DEF next
  <2> QED
    BY <1>3, <1>8, <2>1 DEF B
<1> HIDE DEF word
<1>11. low \in Seq(Numbers!Word) /\ Len(low) = n /\ \A i \in 1 .. n : low[i] = word(i)
  BY <1>1, <1>10
<1>12. /\ high \in Seq(Numbers!Word) /\ Len(high) = N - n
       /\ \A i \in 1 .. N - n : high[i] = out[n + i]
  BY <1>1
<1> HIDE DEF low, high, next, step
\* Nothing is left of out.
<1>13. ASSUME N = n
       PROVE  /\ sub.words = low
              /\ sub.end = IF b[n] = 1 THEN n
                           ELSE Numbers!Max({0} \union {i \in 1 .. n : low[i] # 0})
  <2>1. high = <<>>
    BY <1>12, <1>13
  <2>2. CASE b[n] = 1
    <3>1. PICK d : /\ diff.words \in Seq(Numbers!Word) /\ Len(diff.words) = Len(high)
                   /\ diff.end = IF Len(high) > 0 /\ d[Len(high) - 1] = 1
                                       /\ high[Len(high)] = 1
                                   THEN IF Len(high) >= 2 THEN Len(high) - 2 ELSE 0
                                   ELSE Len(high)
      BY <1>12, SubWordIs DEF diff
    <3>2. Len(high) = 0 /\ diff.end = 0 /\ diff.words = <<>>
      BY <2>1, <3>1
    <3>3. low \o diff.words = low
      BY <1>11, <3>2
    <3>4. sub = [words |-> low \o diff.words, end |-> n + diff.end]
      BY <1>7, <2>2
    <3>5. n + diff.end = n
      BY <3>2
    <3> QED
      BY <2>2, <3>3, <3>4, <3>5
  <2>3. CASE b[n] # 1
    <3>1. b[n] = 0
      BY <1>1, <1>9, <2>3
    <3> QED
      BY <1>7, <1>13, <2>3, <3>1
  <2> QED
    BY <2>2, <2>3

\* One word is left of it.
<1>14. ASSUME N = n + 1
       PROVE  \E tail : /\ sub.words = low \o tail /\ tail \in Seq(Numbers!Word)
                        /\ Len(tail) = 1 /\ tail[1] = out[N] - b[n]
                        /\ sub.end = IF b[n] = 1 /\ out[N] = 1 THEN n ELSE N
  <2>1. Len(high) = 1 /\ high[1] = out[N] /\ 1 \in 1 .. Len(high)
    BY <1>1, <1>12, <1>14
  <2>2. out[N] \in Int /\ out[N] > 0 /\ b[n] \in {0, 1}
    BY <1>1, <1>2, <1>9
  <2>3. CASE b[n] = 1
    <3>1. PICK d : /\ d[0] = 1 /\ diff.words \in Seq(Numbers!Word)
                   /\ Len(diff.words) = Len(high)
                   /\ \A i \in 1 .. Len(high) :
                        /\ diff.words[i] = (high[i] - d[i - 1]) + d[i] * B
                        /\ d[i] = IF high[i] >= d[i - 1] THEN 0 ELSE 1
                   /\ diff.end = IF Len(high) > 0 /\ d[Len(high) - 1] = 1
                                       /\ high[Len(high)] = 1
                                   THEN IF Len(high) >= 2 THEN Len(high) - 2 ELSE 0
                                   ELSE Len(high)
      BY <1>12, SubWordIs DEF diff
    <3>2. /\ diff.words[1] = (out[N] - d[0]) + d[1] * B
          /\ d[1] = IF out[N] >= d[0] THEN 0 ELSE 1
      <4>1. 1 - 1 = 0
        OBVIOUS
      <4> QED
        BY <2>1, <3>1, <4>1
    <3>3. d[1] = 0 /\ d[1] * B = 0
      BY <1>2, <2>2, <3>1, <3>2
    <3>4. diff.words[1] = out[N] - b[n]
      BY <2>2, <2>3, <3>1, <3>2, <3>3
    <3>5. diff.end = IF out[N] = 1 THEN 0 ELSE 1
      BY <2>1, <3>1
    <3>6. sub = [words |-> low \o diff.words, end |-> n + diff.end]
      BY <1>7, <2>3
    <3>7. n + diff.end = IF b[n] = 1 /\ out[N] = 1 THEN n ELSE N
      BY <1>14, <2>3, <3>5
    <3>8. /\ sub.words = low \o diff.words /\ sub.end = n + diff.end
      BY <3>6
    <3> QED
      BY <2>1, <3>1, <3>4, <3>7, <3>8
  <2>4. CASE b[n] # 1
    <3>1. b[n] = 0 /\ n # N
      BY <1>14, <2>2, <2>4
    <3>2. sub = [words |-> low \o high, end |-> N]
      BY <1>7, <2>4, <3>1
    <3>3. high[1] = out[N] - b[n]
      BY <2>1, <2>2, <3>1
    <3>4. sub.words = low \o high /\ sub.end = IF b[n] = 1 /\ out[N] = 1 THEN n ELSE N
      BY <2>4, <3>2
    <3> QED
      BY <1>12, <2>1, <3>3, <3>4
  <2> QED
    BY <2>3, <2>4
<1>15. b[n] * B = (IF b[n] = 1 THEN B ELSE 0) /\ b[n] \in {0, 1} /\ b[n - 1] \in {0, 1}
  <2>1. b[n] \in {0, 1} /\ b[n - 1] \in {0, 1}
    BY <1>1, <1>9
  <2> QED
    BY <1>2, <2>1
<1>16. b[n] = 1 => low[n] > out[n] /\ low[n] # 0
  <2>1. n \in 1 .. n /\ n \in 1 .. N
    BY <1>1
  <2>2. low[n] = ((out[n] - w[n]) - b[n - 1]) + b[n] * B
    BY <1>10, <1>11, <2>1
  <2>3. PICK o \in Int, v \in Int, t \in Int, p \in Int :
           /\ o = out[n] /\ v = w[n] /\ t = b[n - 1] /\ p = b[n] * B
           /\ 0 <= o /\ 0 <= v /\ v < B - 1 /\ 0 <= t /\ t <= 1
           /\ p = IF b[n] = 1 THEN B ELSE 0
    <3>1. b[n - 1] \in Int /\ 0 <= b[n - 1] /\ b[n - 1] <= 1
      BY <1>15
    <3>2. b[n] * B \in Int
      BY <1>2, <1>15
    <3> QED
      BY <1>2, <1>15, <2>1, <3>1, <3>2
  <2>4. low[n] = ((o - v) - t) + p
    BY <2>2, <2>3
  <2>5. ASSUME b[n] = 1 PROVE low[n] > o /\ low[n] # 0
    <3>1. p = B /\ B \in Nat /\ v < B - 1 /\ t <= 1 /\ 0 <= o
      BY <1>2, <2>3, <2>5
    <3>2. low[n] = ((o - v) - t) + B
      BY <2>4, <3>1
    <3>3. ((o - v) - t) + B > o /\ ((o - v) - t) + B \in Int
      BY <3>1
    <3> QED
      BY <3>1, <3>2, <3>3
  <2> QED
    BY <2>3, <2>5
<1>17. b[n] = 0 => low[n] <= out[n]
  <2>1. n \in 1 .. n /\ n \in 1 .. N
    BY <1>1
  <2>2. low[n] = ((out[n] - w[n]) - b[n - 1]) + b[n] * B
    BY <1>10, <1>11, <2>1
  <2>3. PICK o \in Int, v \in Int, t \in Int, p \in Int :
           /\ o = out[n] /\ v = w[n] /\ t = b[n - 1] /\ p = b[n] * B
           /\ 0 <= o /\ 0 <= v /\ v < B - 1 /\ 0 <= t /\ t <= 1
           /\ p = IF b[n] = 1 THEN B ELSE 0
    <3>1. b[n - 1] \in Int /\ 0 <= b[n - 1] /\ b[n - 1] <= 1
      BY <1>15
    <3>2. b[n] * B \in Int
      BY <1>2, <1>15
    <3> QED
      BY <1>2, <1>15, <2>1, <3>1, <3>2
  <2>4. low[n] = ((o - v) - t) + p
    BY <2>2, <2>3
  <2>5. ASSUME b[n] = 0 PROVE low[n] <= o
    <3>1. p = 0 /\ 0 <= v /\ 0 <= t
      BY <2>3, <2>5
    <3>2. low[n] = ((o - v) - t) + 0
      BY <2>4, <3>1
    <3>3. ((o - v) - t) + 0 <= o
      BY <3>1
    <3> QED
      BY <3>2, <3>3
  <2> QED
    BY <2>3, <2>5
<1> DEFINE Result(words, end, c) ==
              /\ \A i \in 0 .. N : c[i] \in {0, 1}
              /\ c[0] = 0
              /\ words \in Seq(Numbers!Word)
              /\ Len(words) = N
              /\ \A i \in 1 .. N :
                    words[i] = ((out[i] - Padded(w, i)) - c[i - 1]) + c[i] * B
              /\ c[N] = 1 => /\ end = N
                             /\ n = N
                             /\ words[N] > out[N]
              /\ c[N] = 0 => /\ end \in 0 .. N
                             /\ \A i \in 1 .. N : i > end => words[i] = 0
                             /\ end > 0 => words[end] # 0
                             /\ words[N] <= out[N]
<1>18. CASE N = n
  <2> DEFINE nonzero == {i \in 1 .. n : low[i] # 0}
             end == Numbers!Max({0} \union nonzero)
  <2>1. ASSUME b[n] = 0
        PROVE  /\ end \in 0 .. n /\ (\A i \in 1 .. n : i > end => low[i] = 0)
               /\ end > 0 => low[end] # 0
    <3> DEFINE S == {0} \union nonzero
    <3>1. S \subseteq 0 .. n /\ S # {}
      BY <1>1
    <3> HIDE DEF S
    <3>2. Numbers!Max(S) \in S /\ \A y \in S : Numbers!Max(S) >= y
      BY <3>1, TopWordIs
    <3>3. PICK m : m = end /\ m \in S /\ \A y \in S : m >= y
      BY <3>2 DEF S
    <3>4. m \in 0 .. n
      BY <3>1, <3>3
    <3>5. ASSUME NEW i \in 1 .. n, i > m PROVE low[i] = 0
      <4>1. i \notin S
        BY <3>3, <3>4, <3>5
      <4> QED
        BY <4>1 DEF S
    <3>6. m > 0 => low[m] # 0
      BY <3>3 DEF S
    <3> HIDE DEF end
    <3> QED
      BY <3>3, <3>4, <3>5, <3>6
  <2>2. \A i \in 1 .. N : low[i] = ((out[i] - Padded(w, i)) - b[i - 1]) + b[i] * B
    BY <1>1, <1>10, <1>11, <1>18 DEF Padded
  <2> HIDE DEF end
  <2>3. sub.words = low /\ sub.end = IF b[n] = 1 THEN n ELSE end
    BY <1>13, <1>18 DEF end
  <2>4. Result(low, sub.end, b)
    BY <1>8, <1>9, <1>11, <1>16, <1>17, <1>18, <2>1, <2>2, <2>3
  <2> HIDE DEF Result
  <2> QED
    BY <1>1, <2>3, <2>4 DEF Result, sub
<1>19. CASE N = n + 1
  <2>1. PICK tail : /\ sub.words = low \o tail /\ tail \in Seq(Numbers!Word)
                    /\ Len(tail) = 1 /\ tail[1] = out[N] - b[n]
                    /\ sub.end = IF b[n] = 1 /\ out[N] = 1 THEN n ELSE N
    BY <1>14, <1>19
  <2> DEFINE all == low \o tail
             c == [i \in 0 .. N |-> IF i <= n THEN b[i] ELSE 0]
  <2>2. all \in Seq(Numbers!Word) /\ Len(all) = N
        /\ (\A i \in 1 .. n : all[i] = low[i]) /\ all[N] = tail[1]
    <3>1. /\ low \in Seq(Numbers!Word) /\ Len(low) = n
          /\ tail \in Seq(Numbers!Word) /\ Len(tail) = 1
      BY <1>11, <2>1
    <3>2. /\ all \in Seq(Numbers!Word) /\ Len(all) = n + 1
          /\ \A i \in 1 .. n + 1 : all[i] = IF i <= n THEN low[i] ELSE tail[i - n]
      <4>1. /\ low \o tail \in Seq(Numbers!Word)
            /\ Len(low \o tail) = Len(low) + Len(tail)
            /\ \A i \in 1 .. Len(low) + Len(tail) :
                  (low \o tail)[i] = IF i <= Len(low) THEN low[i] ELSE tail[i - Len(low)]
        <5>1. low \in Seq(Numbers!Word)
          BY <3>1
        <5>2. tail \in Seq(Numbers!Word)
          BY <3>1
        <5> QED
          BY <5>1, <5>2, ConcatProperties
      <4>2. /\ all \in Seq(Numbers!Word)
            /\ Len(all) = Len(low) + Len(tail)
            /\ \A i \in 1 .. Len(low) + Len(tail) :
                  all[i] = IF i <= Len(low) THEN low[i] ELSE tail[i - Len(low)]
        BY <4>1
      <4> HIDE DEF all
      <4> QED
        BY <3>1, <4>2
    <3>3. N \in 1 .. n + 1 /\ ~ (N <= n) /\ N - n = 1
      BY <1>1, <1>19
    <3>4. \A i \in 1 .. n : i \in 1 .. n + 1 /\ i <= n
      BY <1>1
    <3> HIDE DEF all
    <3> QED
      BY <1>19, <3>2, <3>3, <3>4
  <2>3. (\A i \in 0 .. n : c[i] = b[i]) /\ c[N] = 0 /\ N - 1 = n
    BY <1>1, <1>19
  <2>4. \A i \in 0 .. N : i = N \/ i \in 0 .. n
    BY <1>19
  <2>5. out[N] \in Int /\ out[N] > 0
    BY <1>1, <1>2
  <2> HIDE DEF all, c
  <2>6. \A i \in 0 .. N : c[i] \in {0, 1}
    BY <1>9, <2>3, <2>4
  <2>7. \A i \in 1 .. N : all[i] = ((out[i] - Padded(w, i)) - c[i - 1]) + c[i] * B
    <3> SUFFICES ASSUME NEW i \in 1 .. N
                 PROVE  all[i] = ((out[i] - Padded(w, i)) - c[i - 1]) + c[i] * B
      OBVIOUS
    <3>1. CASE i = N
      <4>1. Padded(w, i) = 0 /\ c[i] = 0 /\ c[i - 1] = b[n] /\ c[i] * B = 0
        BY <1>1, <1>2, <1>19, <2>3, <3>1 DEF Padded
      <4> QED
        BY <1>15, <2>1, <2>2, <2>5, <3>1, <4>1
    <3>2. CASE i # N
      <4>1. i \in 1 .. n /\ i \in 0 .. n /\ i - 1 \in 0 .. n /\ Padded(w, i) = w[i]
        BY <1>1, <1>19, <3>2 DEF Padded
      <4>2. all[i] = ((out[i] - w[i]) - b[i - 1]) + b[i] * B
        BY <1>10, <1>11, <2>2, <4>1
      <4>3. c[i] = b[i] /\ c[i - 1] = b[i - 1]
        BY <2>3, <4>1
      <4> QED
        BY <4>1, <4>2, <4>3
    <3> QED
      BY <3>1, <3>2
  <2>8. PICK end : end = sub.end
    OBVIOUS
  <2>9. end \in 0 .. N /\ (end = N \/ end = n)
    BY <1>1, <1>19, <2>1, <2>8
  <2>10. \A i \in 1 .. N : i > end => all[i] = 0
    <3> SUFFICES ASSUME NEW i \in 1 .. N, i > end PROVE all[i] = 0
      OBVIOUS
    <3>1. end = n /\ i = N /\ b[n] = 1 /\ out[N] = 1
      BY <1>19, <2>1, <2>8, <2>9
    <3> QED
      BY <2>1, <2>2, <3>1
  <2>11. all[end] # 0
    <3>1. CASE b[n] = 1 /\ out[N] = 1
      <4>1. end = n /\ n \in 1 .. n
        BY <1>1, <2>1, <2>8, <3>1
      <4> QED
        BY <1>16, <2>2, <3>1, <4>1
    <3>2. CASE ~ (b[n] = 1 /\ out[N] = 1)
      <4>1. end = N
        BY <2>1, <2>8, <3>2
      <4> QED
        BY <1>15, <2>1, <2>2, <2>5, <3>2, <4>1
    <3> QED
      BY <3>1, <3>2
  <2>12. all[N] <= out[N]
    BY <1>15, <2>1, <2>2, <2>5
  <2>13. c[0] = 0
    BY <1>1, <1>8, <2>3
  <2>14. Result(all, end, c)
    BY <2>2, <2>3, <2>6, <2>7, <2>9, <2>10, <2>11, <2>12, <2>13
  <2>15. sub.words = all /\ sub.end = end
    BY <2>1, <2>8 DEF all
  <2> HIDE DEF Result
  <2> QED
    BY <1>1, <2>14, <2>15 DEF Result, sub
<1> QED
  BY <1>1, <1>18, <1>19

\* What the last word passes on is one word more.
LEMMA CarriedOut ==
    ASSUME DigitAssumption, NEW n \in Nat, NEW s, NEW r, NEW c,
           Carries(s, r, c, n), r[n + 1] = c[n]
    PROVE  Value(r, n + 1) = Value(s, n) + c[0] /\ Value(s, n) \in Int
<1> USE DEF Carries
<1> DEFINE x == [i \in 1 .. n + 1 |-> IF i <= n THEN s[i] ELSE 0]
           d == [i \in 0 .. n + 1 |-> IF i <= n THEN c[i] ELSE 0]
<1>1. /\ \A i \in 1 .. n : x[i] = s[i] /\ s[i] \in Int
      /\ \A i \in 1 .. n + 1 : i > n => x[i] = 0
      /\ \A i \in 0 .. n : d[i] = c[i] /\ c[i] \in Int
      /\ d[n + 1] = 0
  OBVIOUS
<1>2. (\A i \in 1 .. n + 1 : i \in 1 .. n \/ i = n + 1)
      /\ (\A i \in 0 .. n + 1 : i \in 0 .. n \/ i = n + 1) /\ B \in Nat
  BY BaseNat
<1> HIDE DEF x, d
<1>3. Value(x, n + 1) = Value(s, n)
  <2>1. PICK N \in Nat : N = n + 1 /\ n <= N
    OBVIOUS
  <2>2. \A i \in 1 .. n : s[i] \in Int /\ x[i] = s[i]
    BY <1>1
  <2>3. \A i \in 1 .. N : i > n => x[i] = 0
    BY <1>1, <2>1
  <2>4. Pads(x, N, s, n)
    BY <2>1, <2>2, <2>3 DEF Pads
  <2>5. Value(x, N) = Value(s, n)
    BY <2>1, <2>4, ValuePadded
  <2> QED
    BY <2>1, <2>5
<1>4. \A i \in 0 .. n + 1 : d[i] \in Int
  BY <1>1, <1>2
<1>5. \A i \in 1 .. n + 1 : x[i] \in Int /\ r[i] = (x[i] + d[i - 1]) - d[i] * B
  <2> SUFFICES ASSUME NEW i \in 1 .. n + 1
               PROVE  x[i] \in Int /\ r[i] = (x[i] + d[i - 1]) - d[i] * B
    OBVIOUS
  <2>1. CASE i \in 1 .. n
    <3>1. i \in 0 .. n /\ i - 1 \in 0 .. n
      BY <2>1
    <3>2. r[i] = (s[i] + c[i - 1]) - c[i] * B
      BY <2>1
    <3> QED
      BY <1>1, <2>1, <3>1, <3>2
  <2>2. CASE i = n + 1
    <3>1. i - 1 = n /\ n \in 0 .. n /\ i > n
      BY <2>2
    <3>2. x[i] = 0 /\ d[i] = 0 /\ d[i - 1] = c[n] /\ c[n] \in Int /\ d[i] * B = 0
      BY <1>1, <1>2, <2>2, <3>1
    <3> QED
      BY <2>2, <3>2
  <2> QED
    BY <1>2, <2>1, <2>2
<1>6. n + 1 \in Nat /\ d[0] = c[0]
  BY <1>1
<1>7. Value(r, n + 1) = Value(x, n + 1) + d[0] /\ Value(x, n + 1) \in Int
  <2>1. PICK N \in Nat : N = n + 1
    OBVIOUS
  <2>2. \A i \in 0 .. N : d[i] \in Int
    BY <1>4, <2>1
  <2>3. \A i \in 1 .. N : x[i] \in Int /\ r[i] = (x[i] + d[i - 1]) - d[i] * B
    BY <1>5, <2>1
  <2>4. d[N] = 0
    BY <1>1, <2>1
  <2>5. Value(r, N) = Value(x, N) + d[0] /\ Value(x, N) \in Int
    <3>1. Carries(x, r, d, N)
      BY <2>2, <2>3
    <3> HIDE DEF Carries
    <3> QED
      BY <2>4, <3>1, ValueCarried, Zenon
  <2> QED
    BY <2>1, <2>5
<1> QED
  BY <1>3, <1>6, <1>7

\* What words are worth: nothing only if they are all 0.
LEMMA MagnitudeNat ==
    ASSUME DigitAssumption, NEW w \in Seq(Numbers!Word)
    PROVE  /\ Numbers!Magnitude(w) \in Nat
           /\ Numbers!Magnitude(w) = Value(w, Len(w))
           /\ w = <<>> => Numbers!Magnitude(w) = 0
           /\ (\E i \in 1 .. Len(w) : w[i] # 0) => Numbers!Magnitude(w) > 0
           /\ w # <<>> /\ w[Len(w)] # 0 => Numbers!Magnitude(w) > 0
<1>1. PICK n \in Nat : n = Len(w)
  BY WordsAre
<1>2. \A i \in 1 .. n : w[i] \in Int /\ 0 <= w[i] /\ w[i] < B /\ w[i] \in 0 .. B - 1
  BY <1>1, WordsAre
<1>3. Numbers!Magnitude(w) = Value(w, n)
  BY <1>1, MagnitudeIs
<1> DEFINE S == {i \in 1 .. n : w[i] # 0}
           z == [i \in 1 .. n |-> 0]
<1>4. /\ Value(z, n) = 0 /\ 0 \in 0 .. B - 1 /\ \A i \in 1 .. n : z[i] = 0
  <2>1. \A i \in 1 .. n : z[i] = 0
    OBVIOUS
  <2>2. 0 \in 0 .. B - 1
    BY BaseIs
  <2> HIDE DEF z
  <2>3. 0 \in Nat /\ 0 <= n /\ (\A i \in 1 .. n : i > 0 => z[i] = 0)
        /\ \A i \in 1 .. 0 : z[i] \in Int /\ z[i] = z[i]
    BY <2>1
  <2>4. Value(z, n) = Value(z, 0)
    <3>1. \A i \in 1 .. 0 : w[i] \in Int /\ z[i] = w[i]
      OBVIOUS
    <3>2. Value(z, n) = Value(w, 0)
      BY <2>3, <3>1, ValuePadded DEF Pads
    <3> QED
      BY <3>2, ValueFew
  <2>5. Value(z, 0) = 0
    BY ValueFew
  <2> QED
    BY <2>1, <2>2, <2>4, <2>5
<1> HIDE DEF z
<1>5. CASE S = {}
  <2>1. \A i \in 1 .. n : z[i] \in Int /\ w[i] = z[i]
    BY <1>4, <1>5
  <2>2. Value(w, n) = Value(z, n)
    BY <2>1, ValueSame
  <2>3. ~ (\E i \in 1 .. Len(w) : w[i] # 0)
    BY <1>1, <1>5
  <2>4. w # <<>> => Len(w) \in 1 .. Len(w)
    BY <1>1
  <2> QED
    BY <1>1, <1>3, <1>4, <2>2, <2>3, <2>4
<1>6. CASE S # {}
  <2>1. S \subseteq 0 .. n
    OBVIOUS
  <2>2. PICK d : d \in S /\ \A y \in S : d >= y
    <3> HIDE DEF S
    <3> QED
      BY <1>6, <2>1, TopWordIs
  <2>3. d \in 1 .. n /\ w[d] # 0
    BY <2>2
  <2>4. \A i \in 1 .. n : z[i] \in 0 .. B - 1 /\ w[i] \in 0 .. B - 1
    BY <1>2, <1>4
  <2>5. \A i \in 1 .. n : i > d => z[i] = w[i]
    <3> SUFFICES ASSUME NEW i \in 1 .. n, i > d PROVE z[i] = w[i]
      OBVIOUS
    <3>1. i \notin S
      BY <2>2, <2>3
    <3> QED
      BY <1>4, <3>1
  <2>6. z[d] < w[d]
    BY <1>2, <1>4, <2>3
  <2>7. Value(z, n) < Value(w, n) /\ Value(z, n) \in Int /\ Value(w, n) \in Int
    BY <2>3, <2>4, <2>5, <2>6, ValueLess
  <2>8. w # <<>>
    BY <1>1, <2>3
  <2>9. Value(w, n) > 0 /\ Value(w, n) \in Nat
    BY <1>4, <2>7
  <2> QED
    BY <1>1, <1>3, <2>8, <2>9
<1> QED
  BY <1>5, <1>6

-----------------------------------------------------------------------------
(* Integers: every call keeps the one representation of a number.          *)

\* What an object holds, as far as the calls go that the code gets right.
Good(n) == /\ n \in [sign : {0, 1}, words : Seq(Numbers!Word), room : Nat]
           /\ Numbers!Canonical(n)

\* What a good number is, without the names of Integer.
LEMMA GoodIs ==
    ASSUME NEW n, Good(n)
    PROVE  /\ n.sign \in {0, 1} /\ n.words \in Seq(Numbers!Word) /\ n.room \in Nat
           /\ n = Numbers!Number(n.sign, n.words, n.room)
           /\ Len(n.words) \in Nat
           /\ n.words # <<>> => Len(n.words) > 0 /\ n.words[Len(n.words)] # 0
           /\ n.words = <<>> => n.sign = 0
           /\ n.words = <<>> <=> Len(n.words) = 0
           /\ Len(n.words) <= n.room
           /\ Len(n.words) <= 2 <=> n.room = 2
  BY DEF Good, Numbers!Canonical, Numbers!Number, Numbers!Size

\* A number made of canonical words in the right room is good.
LEMMA GoodMade ==
    ASSUME NEW bit \in {0, 1}, NEW words \in Seq(Numbers!Word), NEW room \in Nat,
           words # <<>> => words[Len(words)] # 0,
           words = <<>> => bit = 0,
           Len(words) <= room,
           Len(words) <= 2 <=> room = 2
    PROVE  /\ Good(Numbers!Number(bit, words, room))
           /\ Numbers!Number(bit, words, room).sign = bit
           /\ Numbers!Number(bit, words, room).words = words
           /\ Numbers!Number(bit, words, room).room = room
  BY DEF Good, Numbers!Canonical, Numbers!Number, Numbers!Size

\* What a number is worth.
LEMMA ValueOfIs ==
    ASSUME DigitAssumption, NEW n, Good(n)
    PROVE  /\ Numbers!Magnitude(n.words) \in Nat
           /\ Numbers!ValueOf(n) = IF n.sign = 1 THEN - Numbers!Magnitude(n.words)
                                                 ELSE Numbers!Magnitude(n.words)
           /\ Numbers!ValueOf(n) \in Int
           /\ n.words = <<>> => Numbers!Magnitude(n.words) = 0
           /\ n.words # <<>> => Numbers!Magnitude(n.words) > 0
           /\ Numbers!Magnitude(n.words) = Value(n.words, Len(n.words))
<1>1. /\ n.sign \in {0, 1} /\ n.words \in Seq(Numbers!Word)
      /\ n.words # <<>> => n.words[Len(n.words)] # 0
  BY GoodIs
<1>2. PICK m \in Nat : /\ m = Numbers!Magnitude(n.words)
                       /\ n.words = <<>> => m = 0
                       /\ n.words # <<>> => m > 0
                       /\ m = Value(n.words, Len(n.words))
  BY <1>1, MagnitudeNat
<1>3. Numbers!ValueOf(n) = IF n.sign = 1 THEN - m ELSE m
  BY <1>2 DEF Numbers!ValueOf
<1> QED
  BY <1>1, <1>2, <1>3, MagnitudeNat

\* A copy is good and stands for the same number.
LEMMA CopyIs ==
    ASSUME DigitAssumption, NEW n, Good(n)
    PROVE  /\ Good(Numbers!Copy(n))
           /\ Numbers!Copy(n).sign = n.sign /\ Numbers!Copy(n).words = n.words
           /\ Numbers!ValueOf(Numbers!Copy(n)) = Numbers!ValueOf(n)
<1> DEFINE room == Numbers!RoomFor(n.words)
<1>1. Numbers!Copy(n) = Numbers!Number(n.sign, n.words, room)
  BY GoodIs DEF Numbers!Copy, Numbers!Number
<1>2. room \in Nat /\ Len(n.words) <= room /\ (Len(n.words) <= 2 <=> room = 2)
  BY GoodIs DEF Numbers!RoomFor
<1> HIDE DEF room
<1>3. /\ Good(Numbers!Copy(n))
      /\ Numbers!Copy(n).sign = n.sign /\ Numbers!Copy(n).words = n.words
  BY <1>1, <1>2, GoodIs, GoodMade
<1> QED
  BY <1>3 DEF Numbers!ValueOf

\* UncheckedResize with one more word, which is not 0.
LEMMA ExtendedIs ==
    ASSUME DigitAssumption, NEW n, Good(n), NEW words \in Seq(Numbers!Word),
           Len(words) = Len(n.words), NEW word \in Numbers!Word, word # 0
    PROVE  /\ Good(Numbers!Extended(n, words, word))
           /\ Numbers!Extended(n, words, word).sign = n.sign
           /\ Numbers!Extended(n, words, word).words = Append(words, word)
<1> DEFINE room == CASE Len(words) < 2 -> 2
                     [] Len(words) = 2 -> 4
                     [] OTHER -> IF Len(words) = n.room THEN 2 * n.room ELSE n.room
           all == Append(words, word)
<1>1. Numbers!Extended(n, words, word) = Numbers!Number(n.sign, all, room)
  BY DEF Numbers!Extended
<1>2. PICK m \in Nat, k \in Nat : /\ m = Len(words) /\ k = n.room /\ m <= k
                                  /\ m <= 2 <=> k = 2
  BY GoodIs
<1>3. room = IF m < 2 THEN 2 ELSE IF m = 2 THEN 4 ELSE IF m = k THEN 2 * k ELSE k
  <2>1. CASE m < 2
    <3>1. m # 2
      BY <2>1
    <3> QED
      BY <1>2, <2>1, <3>1, Zenon
  <2>2. CASE ~ (m < 2)
    BY <1>2, <2>2, Zenon
  <2> QED
    BY <2>1, <2>2, Zenon
<1>4. room \in Nat /\ m + 1 <= room /\ (m + 1 <= 2 <=> room = 2)
  <2>1. m \in Nat /\ k \in Nat /\ m <= k /\ (m <= 2 <=> k = 2)
    BY <1>2
  <2> HIDE DEF room
  <2>2. CASE m < 2
    BY <1>3, <2>1, <2>2
  <2>3. CASE m = 2
    BY <1>3, <2>1, <2>3
  <2>4. CASE m > 2 /\ m = k
    BY <1>3, <2>1, <2>4
  <2>5. CASE m > 2 /\ m # k
    BY <1>3, <2>1, <2>5
  <2> QED
    BY <2>1, <2>2, <2>3, <2>4, <2>5
<1> HIDE DEF room
<1>5. /\ all \in Seq(Numbers!Word) /\ Len(all) = m + 1 /\ all[m + 1] = word /\ all # <<>>
  BY <1>2, AppendProperties, Zenon
<1> HIDE DEF all
<1>6. all[Len(all)] # 0 /\ Len(all) <= room /\ (Len(all) <= 2 <=> room = 2)
  BY <1>4, <1>5
<1>7. n.sign \in {0, 1}
  BY GoodIs
<1>8. /\ Good(Numbers!Number(n.sign, all, room))
      /\ Numbers!Number(n.sign, all, room).sign = n.sign
      /\ Numbers!Number(n.sign, all, room).words = all
  BY <1>4, <1>5, <1>6, <1>7, GoodMade
<1> QED
  BY <1>1, <1>8 DEF all

\* Other words, as many, for a number.
LEMMA SameLength ==
    ASSUME DigitAssumption, NEW n, Good(n), NEW words \in Seq(Numbers!Word),
           Len(words) = Len(n.words), Len(words) > 0 => words[Len(words)] # 0
    PROVE  /\ Good([n EXCEPT !.words = words])
           /\ [n EXCEPT !.words = words].sign = n.sign
           /\ [n EXCEPT !.words = words].words = words
<1>1. [n EXCEPT !.words = words] = Numbers!Number(n.sign, words, n.room)
  BY GoodIs DEF Numbers!Number
<1>2. /\ n.sign \in {0, 1} /\ n.room \in Nat
      /\ words # <<>> => words[Len(words)] # 0
      /\ words = <<>> => n.sign = 0
      /\ Len(words) <= n.room
      /\ Len(words) <= 2 <=> n.room = 2
  BY GoodIs
<1>3. /\ Good(Numbers!Number(n.sign, words, n.room))
      /\ Numbers!Number(n.sign, words, n.room).sign = n.sign
      /\ Numbers!Number(n.sign, words, n.room).words = words
  BY <1>2, GoodMade
<1> QED
  BY <1>1, <1>3

\* What comes of words between which something is carried.
Grown(n, words, carry) == IF carry = 0 THEN [n EXCEPT !.words = words]
                          ELSE Numbers!Extended(n, words, carry)

\* What the carrying loops leave is good, and worth what went in.
LEMMA GrownIs ==
    ASSUME DigitAssumption, NEW n, Good(n), NEW words \in Seq(Numbers!Word),
           Len(words) = Len(n.words), NEW s, NEW c,
           Carries(s, words, c, Len(words)), c[Len(words)] \in Numbers!Word,
           c[Len(words)] = 0 /\ Len(words) > 0 => words[Len(words)] # 0
    PROVE  /\ Good(Grown(n, words, c[Len(words)]))
           /\ Grown(n, words, c[Len(words)]).sign = n.sign
           /\ Numbers!Magnitude(Grown(n, words, c[Len(words)]).words)
                 = Value(s, Len(words)) + c[0]
<1>1. PICK m \in Nat : m = Len(words)
  BY WordsAre
<1>2. PICK g : g = Grown(n, words, c[m])
  OBVIOUS
<1>3. CASE c[m] = 0
  <2>1. g = [n EXCEPT !.words = words]
    BY <1>2, <1>3 DEF Grown
  <2>2. Good(g) /\ g.sign = n.sign /\ g.words = words
    BY <1>1, <1>3, <2>1, SameLength
  <2>3. Numbers!Magnitude(g.words) = Value(words, m)
    BY <1>1, <2>2, MagnitudeIs
  <2>4. Carries(s, words, c, m)
    BY <1>1
  <2>5. Value(words, m) = Value(s, m) + c[0]
    BY <1>1, <1>3, <2>4, ValueCarried
  <2> QED
    BY <1>1, <1>2, <2>2, <2>3, <2>5
<1>4. CASE c[m] # 0
  <2> DEFINE all == Append(words, c[m])
  <2>1. c[m] \in Numbers!Word
    BY <1>1
  <2>2. g = Numbers!Extended(n, words, c[m])
    BY <1>2, <1>4 DEF Grown
  <2>3. Good(g) /\ g.sign = n.sign /\ g.words = all
    BY <1>4, <2>1, <2>2, ExtendedIs
  <2>4. /\ Len(all) = m + 1 /\ all[m + 1] = c[m]
        /\ \A i \in 1 .. m : all[i] = words[i]
    BY <1>1, <2>1
  <2> HIDE DEF all
  <2>5. Carries(s, all, c, m)
    BY <1>1, <2>4 DEF Carries
  <2>6. Value(all, m + 1) = Value(s, m) + c[0]
    BY <2>4, <2>5, CarriedOut
  <2>7. Numbers!Magnitude(g.words) = Value(all, m + 1)
    BY <2>3, <2>4, MagnitudeIs
  <2> QED
    BY <1>1, <1>2, <2>3, <2>6, <2>7
<1> QED
  BY <1>3, <1>4

\* ++ on a magnitude.
LEMMA IncreasedIs ==
    ASSUME DigitAssumption, NEW n, Good(n)
    PROVE  /\ Good(Numbers!Increased(n))
           /\ Numbers!Increased(n).sign = n.sign
           /\ Numbers!Magnitude(Numbers!Increased(n).words)
                 = Numbers!Magnitude(n.words) + 1
<1>1. PICK w \in Seq(Numbers!Word), m \in Nat : /\ w = n.words /\ m = Len(w)
                                                /\ m > 0 => w[m] # 0
  BY GoodIs
<1> DEFINE sum == Numbers!AddWord(w, 1)
<1>2. 1 \in {0, 1}
  OBVIOUS
<1>3. PICK c : /\ \A i \in 0 .. Len(w) : c[i] \in {0, 1}
               /\ c[0] = 1 /\ c[Len(w)] = sum.carry
               /\ sum.words \in Seq(Numbers!Word)
               /\ Len(sum.words) = Len(w)
               /\ \A i \in 1 .. Len(w) : sum.words[i] = (w[i] + c[i - 1]) - c[i] * B
  BY <1>2, AddWordIs
<1>4. PICK x \in Seq(Numbers!Word) : x = sum.words /\ Len(x) = m
  BY <1>1, <1>3
<1>5. Numbers!Increased(n) = Grown(n, x, c[m])
  <2>1. c[m] \in {0, 1} /\ c[m] = sum.carry
    BY <1>1, <1>3
  <2>2. Numbers!Increased(n) = IF sum.carry = 0 THEN [n EXCEPT !.words = x]
                               ELSE Numbers!Extended(n, x, 1)
    BY <1>1, <1>4 DEF Numbers!Increased
  <2> HIDE DEF sum
  <2> QED
    BY <2>1, <2>2 DEF Grown
<1>6. Carries(w, x, c, m)
  <2>1. \A i \in 1 .. m : w[i] \in Int
    BY <1>1, WordsAre
  <2>2. \A i \in 0 .. m : c[i] \in Int
    <3>1. \A i \in 0 .. m : c[i] \in {0, 1}
      BY <1>1, <1>3
    <3> QED
      BY <3>1
  <2>3. \A i \in 1 .. m : x[i] = (w[i] + c[i - 1]) - c[i] * B
    BY <1>1, <1>3, <1>4
  <2> QED
    BY <2>1, <2>2, <2>3 DEF Carries
<1>7. c[m] \in Numbers!Word /\ (c[m] = 0 /\ m > 0 => x[m] # 0)
  <2>1. c[m] \in {0, 1} /\ B \in Nat /\ B >= 4 /\ Numbers!Word = 0 .. B - 1
    <3>1. m \in 0 .. Len(w)
      BY <1>1
    <3>2. c[m] \in {0, 1}
      BY <1>3, <3>1
    <3> QED
      BY <3>2, BaseIs
  <2>2. ASSUME c[m] = 0, m > 0 PROVE x[m] # 0
    <3>1. m \in 1 .. m /\ m - 1 \in 0 .. m
      BY <2>2
    <3>2. /\ w[m] \in Int /\ w[m] > 0 /\ c[m - 1] \in {0, 1}
      <4>1. w[m] \in Int /\ 0 <= w[m] /\ w[m] # 0
        BY <1>1, <2>2, <3>1, WordsAre
      <4>2. c[m - 1] \in {0, 1}
        BY <1>1, <1>3, <3>1
      <4> QED
        BY <4>1, <4>2
    <3>3. x[m] = (w[m] + c[m - 1]) - c[m] * B
      BY <1>6, <3>1 DEF Carries
    <3>4. c[m] * B = 0
      BY <2>1, <2>2
    <3> QED
      BY <3>2, <3>3, <3>4
  <2> QED
    BY <2>1, <2>2
<1>8. /\ Good(Grown(n, x, c[m])) /\ Grown(n, x, c[m]).sign = n.sign
      /\ Numbers!Magnitude(Grown(n, x, c[m]).words) = Value(w, m) + c[0]
  <2>1. Carries(w, x, c, Len(x)) /\ Len(x) = Len(n.words) /\ c[Len(x)] \in Numbers!Word
        /\ (c[Len(x)] = 0 /\ Len(x) > 0 => x[Len(x)] # 0)
    BY <1>1, <1>4, <1>6, <1>7
  <2>2. /\ Good(Grown(n, x, c[Len(x)])) /\ Grown(n, x, c[Len(x)]).sign = n.sign
        /\ Numbers!Magnitude(Grown(n, x, c[Len(x)]).words) = Value(w, Len(x)) + c[0]
    BY <2>1, GrownIs
  <2> QED
    BY <1>4, <2>2
<1>9. Numbers!Magnitude(n.words) = Value(w, m)
  BY <1>1, MagnitudeIs
<1> QED
  BY <1>3, <1>5, <1>8, <1>9

\* The same for what is borrowed.
Borrows(s, r, b, n) ==
    /\ \A i \in 0 .. n : b[i] \in Int
    /\ \A i \in 1 .. n : s[i] \in Int /\ r[i] = (s[i] - b[i - 1]) + b[i] * B

\* A loop that borrows from word to word keeps the worth, less what came in.
LEMMA ValueBorrowed ==
    ASSUME DigitAssumption, NEW n \in Nat, NEW s, NEW r, NEW b,
           Borrows(s, r, b, n), b[n] = 0
    PROVE  Value(r, n) = Value(s, n) - b[0] /\ Value(s, n) \in Int
<1> DEFINE c == [i \in 0 .. n |-> - b[i]]
<1>1. (\A i \in 0 .. n : b[i] \in Int) /\ B \in Nat
  BY BaseIs DEF Borrows
<1>2. \A i \in 0 .. n : c[i] = - b[i] /\ c[i] \in Int
  BY <1>1
<1> HIDE DEF c
<1>3. \A i \in 1 .. n : s[i] \in Int /\ r[i] = (s[i] + c[i - 1]) - c[i] * B
  <2> SUFFICES ASSUME NEW i \in 1 .. n
               PROVE  s[i] \in Int /\ r[i] = (s[i] + c[i - 1]) - c[i] * B
    OBVIOUS
  <2>1. s[i] \in Int /\ r[i] = (s[i] - b[i - 1]) + b[i] * B
    BY DEF Borrows
  <2>2. i \in 0 .. n /\ i - 1 \in 0 .. n
    OBVIOUS
  <2>3. PICK p \in Int, q \in Int : p = b[i] /\ q = b[i - 1] /\ c[i] = - p /\ c[i - 1] = - q
    BY <1>1, <1>2, <2>2
  <2>4. PICK m \in Int : m = p * B /\ (- p) * B = - m
    BY <1>1
  <2>5. PICK v \in Int : v = s[i] /\ r[i] = (v - q) + m
    BY <2>1, <2>3, <2>4
  <2>6. c[i] * B = - m /\ s[i] + c[i - 1] = v - q
    BY <2>3, <2>4, <2>5
  <2>7. (s[i] + c[i - 1]) - c[i] * B = (v - q) + m
    BY <2>5, <2>6
  <2> QED
    BY <2>1, <2>5, <2>7
<1>4. Carries(s, r, c, n) /\ c[n] = 0 /\ c[0] = - b[0] /\ b[0] \in Int
  <2>1. 0 \in 0 .. n /\ n \in 0 .. n
    OBVIOUS
  <2>2. Carries(s, r, c, n)
    BY <1>2, <1>3 DEF Carries
  <2> QED
    BY <1>1, <1>2, <2>1, <2>2
<1>5. Value(r, n) = Value(s, n) + c[0] /\ Value(s, n) \in Int
  BY <1>4, ValueCarried
<1> QED
  BY <1>4, <1>5

\* The default integer is 0.
LEMMA ZeroIs ==
    ASSUME DigitAssumption
    PROVE  /\ Good(Numbers!Zero)
           /\ Numbers!Zero.words = <<>> /\ Numbers!Zero.sign = 0
           /\ Numbers!Magnitude(Numbers!Zero.words) = 0
           /\ Numbers!ValueOf(Numbers!Zero) = 0
<1>1. /\ Numbers!Zero = [sign |-> 0, words |-> <<>>, room |-> 2]
      /\ 0 \in {0, 1} /\ 2 \in Nat
  BY DEF Numbers!Zero, Numbers!Number
<1>2. <<>> \in Seq(Numbers!Word) /\ Len(<<>>) = 0
  OBVIOUS
<1>3. Numbers!Zero.words = <<>> /\ Numbers!Zero.sign = 0
  BY <1>1
<1>4. Good(Numbers!Zero)
  BY <1>1, <1>2 DEF Good, Numbers!Canonical, Numbers!Size
<1>5. Numbers!Magnitude(Numbers!Zero.words) = 0
  BY <1>2, <1>3, MagnitudeNat
<1> QED
  BY <1>3, <1>4, <1>5 DEF Numbers!ValueOf

\* ++ on the magnitude of a negative number.
LEMMA ReducedIs ==
    ASSUME DigitAssumption, NEW n, Good(n), n.words # <<>>
    PROVE  /\ Good(Numbers!Reduced(n))
           /\ Numbers!Reduced(n).words # <<>> => Numbers!Reduced(n).sign = n.sign
           /\ Numbers!Magnitude(Numbers!Reduced(n).words)
                 = Numbers!Magnitude(n.words) - 1
<1>1. PICK w \in Seq(Numbers!Word), m \in Nat : /\ w = n.words /\ m = Len(w)
                                                /\ m > 0 /\ w[m] # 0
  BY GoodIs
<1> DEFINE diff == Numbers!SubWord(w, 1)
<1>2. PICK b : /\ \A i \in 0 .. Len(w) : b[i] \in {0, 1}
               /\ b[0] = 1
               /\ diff.words \in Seq(Numbers!Word)
               /\ Len(diff.words) = Len(w)
               /\ \A i \in 1 .. Len(w) :
                     /\ diff.words[i] = (w[i] - b[i - 1]) + b[i] * B
                     /\ b[i] = IF w[i] >= b[i - 1] THEN 0 ELSE 1
               /\ diff.end = IF Len(w) > 0 /\ b[Len(w) - 1] = 1 /\ w[Len(w)] = 1
                               THEN IF Len(w) >= 2 THEN Len(w) - 2 ELSE 0
                               ELSE Len(w)
  BY SubWordIs
<1>3. PICK x \in Seq(Numbers!Word) : x = diff.words /\ Len(x) = m
  BY <1>1, <1>2
<1>4. \A i \in 1 .. m : w[i] \in Int /\ 0 <= w[i] /\ w[i] < B
  BY <1>1, WordsAre
<1>5. \A i \in 0 .. m : b[i] \in {0, 1}
  BY <1>1, <1>2
<1>6. \A i \in 1 .. m : /\ x[i] = (w[i] - b[i - 1]) + b[i] * B
                        /\ b[i] = IF w[i] >= b[i - 1] THEN 0 ELSE 1
  BY <1>1, <1>2, <1>3
<1>7. /\ m \in 1 .. m /\ m - 1 \in 0 .. m /\ B \in Nat /\ B >= 4
      /\ b[m] = 0 /\ b[m - 1] \in {0, 1} /\ x[m] = w[m] - b[m - 1] /\ w[m] \in Int
  <2>1. m \in 1 .. m /\ m - 1 \in 0 .. m /\ B \in Nat /\ B >= 4
    <3>1. m \in 1 .. m /\ m - 1 \in 0 .. m
      BY <1>1
    <3>2. B \in Nat /\ B >= 4
      BY BaseIs
    <3> QED
      BY <3>1, <3>2
  <2>2. w[m] \in Int /\ w[m] > 0 /\ b[m - 1] \in {0, 1}
    BY <1>1, <1>4, <1>5, <2>1
  <2>3. b[m] = 0 /\ x[m] = (w[m] - b[m - 1]) + b[m] * B
    BY <1>6, <2>1, <2>2
  <2>4. b[m] * B = 0
    BY <2>1, <2>3
  <2>5. x[m] = w[m] - b[m - 1]
    BY <2>2, <2>3, <2>4
  <2> QED
    BY <2>1, <2>2, <2>3, <2>5
<1>8. Value(x, m) = Value(w, m) - 1 /\ Value(w, m) \in Int
  <2>1. \A i \in 0 .. m : b[i] \in Int
    BY <1>5
  <2>2. Borrows(w, x, b, m)
    BY <1>4, <1>6, <2>1 DEF Borrows
  <2> QED
    BY <1>2, <1>7, <2>2, ValueBorrowed
<1>9. Numbers!Magnitude(n.words) = Value(w, m)
  BY <1>1, MagnitudeIs
<1> DEFINE ended == b[m - 1] = 1 /\ w[m] = 1
<1>10. (diff.end = m <=> ~ ended) /\ (~ ended => x[m] # 0) /\ (ended => x[m] = 0)
  <2>1. diff.end = IF m > 0 /\ b[m - 1] = 1 /\ w[m] = 1
                     THEN IF m >= 2 THEN m - 2 ELSE 0 ELSE m
    BY <1>1, <1>2
  <2>2. diff.end = m <=> ~ ended
    BY <1>1, <2>1
  <2>3. (~ ended => x[m] # 0) /\ (ended => x[m] = 0)
    BY <1>1, <1>7
  <2> QED
    BY <2>2, <2>3
<1> HIDE DEF ended
<1>11. PICK r : r = Numbers!Reduced(n)
  OBVIOUS
<1>12. r = CASE diff.end = m -> [n EXCEPT !.words = diff.words]
             [] diff.end # m /\ m = 1 -> Numbers!Zero
             [] OTHER -> Numbers!Number(n.sign, SubSeq(diff.words, 1, m - 1),
                                        IF m = 3 THEN 2 ELSE n.room)
  BY <1>1, <1>11 DEF Numbers!Reduced, Numbers!Size
<1> HIDE DEF diff
<1>13. CASE ~ ended
  <2>1. r = [n EXCEPT !.words = x]
    <3>1. diff.end = m
      BY <1>10, <1>13
    <3>2. r = [n EXCEPT !.words = diff.words]
      BY <1>12, <3>1, Zenon
    <3> QED
      BY <1>3, <3>2
  <2>2. Good(r) /\ r.sign = n.sign /\ r.words = x
    BY <1>1, <1>3, <1>10, <1>13, <2>1, SameLength
  <2>3. Numbers!Magnitude(r.words) = Value(x, m)
    BY <1>3, <2>2, MagnitudeIs
  <2> QED
    BY <1>8, <1>9, <1>11, <2>2, <2>3
<1>14. CASE ended /\ m = 1
  <2>1. diff.end # m
    BY <1>10, <1>14
  <2>2. r = Numbers!Zero
    BY <1>12, <1>14, <2>1, Zenon
  <2>3. <<>> \in Seq(Numbers!Word) /\ Len(<<>>) = 0
    OBVIOUS
  <2>4. Good(r) /\ r.words = <<>>
    BY <2>2, ZeroIs
  <2>5. Numbers!Magnitude(r.words) = 0
    BY <2>2, ZeroIs
  <2>6. w[1] = 1 /\ Value(w, 1) = 1
    <3>1. w[1] = 1 /\ w[1] \in Int
      BY <1>7, <1>14 DEF ended
    <3> QED
      BY <3>1, ValueFew
  <2> QED
    BY <1>9, <1>11, <1>14, <2>4, <2>5, <2>6
<1>15. CASE ended /\ m # 1
  <2> DEFINE front == SubSeq(diff.words, 1, m - 1)
             room == IF m = 3 THEN 2 ELSE n.room
  <2>1. r = Numbers!Number(n.sign, front, room)
    <3>1. diff.end # m
      BY <1>10, <1>15
    <3> QED
      BY <1>12, <1>15, <3>1, Zenon
  <2>2. PICK k \in Nat : k = m - 1 /\ k >= 1 /\ k \in 1 .. m /\ m = k + 1
    <3>1. m \in Nat /\ m > 0 /\ m # 1
      BY <1>1, <1>15
    <3>2. m - 1 \in Nat /\ m - 1 >= 1 /\ m - 1 \in 1 .. m /\ m = (m - 1) + 1
      BY <3>1
    <3> QED
      BY <3>2
  <2>3. front \in Seq(Numbers!Word) /\ Len(front) = k /\ \A i \in 1 .. k : front[i] = x[i]
    <3>1. front = SubSeq(x, 1, k)
      BY <1>3, <2>2
    <3> QED
      BY <1>3, <2>2, <3>1
  <2> HIDE DEF front
  <2>4. front[k] # 0
    <3>1. b[k] = 1 /\ k - 1 \in 0 .. m /\ k \in 1 .. k
      BY <1>15, <2>2 DEF ended
    <3>2. b[k - 1] \in {0, 1} /\ w[k] \in Int /\ 0 <= w[k]
      BY <1>4, <1>5, <2>2, <3>1
    <3>3. x[k] = (w[k] - b[k - 1]) + b[k] * B /\ ~ (w[k] >= b[k - 1])
      <4>1. /\ x[k] = (w[k] - b[k - 1]) + b[k] * B
            /\ b[k] = IF w[k] >= b[k - 1] THEN 0 ELSE 1
        BY <1>6, <2>2
      <4> QED
        BY <3>1, <4>1
    <3>4. b[k] * B = B
      BY <1>7, <3>1
    <3>5. x[k] = (w[k] - b[k - 1]) + B
      BY <3>3, <3>4
    <3>6. x[k] # 0
      BY <1>7, <3>2, <3>3, <3>5
    <3> QED
      BY <2>3, <3>1, <3>6
  <2>5. /\ n.sign \in {0, 1} /\ room \in Nat /\ Len(front) <= room
        /\ Len(front) <= 2 <=> room = 2
    <3>1. /\ n.sign \in {0, 1} /\ n.room \in Nat /\ m <= n.room
          /\ m <= 2 <=> n.room = 2
      BY <1>1, GoodIs
    <3> QED
      BY <2>2, <2>3, <3>1
  <2> HIDE DEF room
  <2>6. front # <<>> /\ front[Len(front)] # 0
    BY <2>2, <2>3, <2>4
  <2>7. Good(r) /\ r.sign = n.sign /\ r.words = front
    BY <2>1, <2>3, <2>5, <2>6, GoodMade
  <2>8. Numbers!Magnitude(r.words) = Value(front, k)
    BY <2>3, <2>7, MagnitudeIs
  <2>9. Value(x, m) = Value(front, k)
    <3>1. k <= m
      BY <2>2
    <3>2. \A i \in 1 .. k : front[i] \in Int /\ x[i] = front[i]
      BY <2>3, WordsAre
    <3>3. \A i \in 1 .. m : i > k => x[i] = 0
      BY <1>10, <1>15, <2>2
    <3>4. Pads(x, m, front, k)
      BY <3>1, <3>2, <3>3 DEF Pads
    <3> QED
      BY <3>4, ValuePadded
  <2> QED
    BY <1>8, <1>9, <1>11, <2>7, <2>8, <2>9
<1> QED
  BY <1>13, <1>14, <1>15

\* ++ adds 1, whichever sign the integer has.
LEMMA IncrementedIs ==
    ASSUME DigitAssumption, NEW n, Good(n)
    PROVE  /\ Good(Numbers!Incremented(n))
           /\ Numbers!ValueOf(Numbers!Incremented(n)) = Numbers!ValueOf(n) + 1
<1>1. CASE n.sign = 1
  <2>1. n.words # <<>> /\ Numbers!Incremented(n) = Numbers!Reduced(n)
    BY <1>1, GoodIs DEF Numbers!Incremented
  <2>2. PICK r : r = Numbers!Reduced(n)
    OBVIOUS
  <2>3. /\ Good(r) /\ (r.words # <<>> => r.sign = 1)
        /\ Numbers!Magnitude(r.words) = Numbers!Magnitude(n.words) - 1
    BY <1>1, <2>1, <2>2, ReducedIs
  <2>4. /\ Numbers!ValueOf(r) = IF r.sign = 1 THEN - Numbers!Magnitude(r.words)
                                              ELSE Numbers!Magnitude(r.words)
        /\ r.words = <<>> => Numbers!Magnitude(r.words) = 0
        /\ Numbers!Magnitude(r.words) \in Nat
    BY <2>3, ValueOfIs
  <2>5. /\ Numbers!ValueOf(n) = - Numbers!Magnitude(n.words)
        /\ Numbers!Magnitude(n.words) \in Nat
    BY <1>1, ValueOfIs
  <2> QED
    BY <2>1, <2>2, <2>3, <2>4, <2>5
<1>2. CASE n.sign # 1
  <2>1. Numbers!Incremented(n) = Numbers!Increased(n)
    BY <1>2 DEF Numbers!Incremented
  <2>2. PICK r : r = Numbers!Increased(n)
    OBVIOUS
  <2>3. /\ Good(r) /\ r.sign = n.sign
        /\ Numbers!Magnitude(r.words) = Numbers!Magnitude(n.words) + 1
    BY <2>2, IncreasedIs
  <2>4. Numbers!ValueOf(r) = Numbers!Magnitude(r.words)
    BY <1>2, <2>3, ValueOfIs
  <2>5. Numbers!ValueOf(n) = Numbers!Magnitude(n.words)
    BY <1>2, ValueOfIs
  <2> QED
    BY <2>1, <2>2, <2>3, <2>4, <2>5
<1> QED
  BY <1>1, <1>2

\* - negates, and 0 has no sign.
LEMMA NegatedIs ==
    ASSUME DigitAssumption, NEW n, Good(n)
    PROVE  /\ Good(Numbers!Negated(n))
           /\ Numbers!ValueOf(Numbers!Negated(n)) = - Numbers!ValueOf(n)
<1>1. CASE n.words = <<>>
  <2>1. Numbers!Negated(n) = n
    BY <1>1, GoodIs DEF Numbers!Negated, Numbers!Size
  <2>2. Numbers!ValueOf(n) = 0
    <3>1. n.sign = 0
      BY <1>1, GoodIs
    <3>2. Numbers!Magnitude(n.words) = 0
      BY <1>1, ValueOfIs
    <3> QED
      BY <3>1, <3>2 DEF Numbers!ValueOf
  <2>3. \A v, u \in Int : v + u = 0 => u = - v
    OBVIOUS
  <2>4. 0 \in Int /\ 0 + 0 = 0
    OBVIOUS
  <2> QED
    BY <2>1, <2>2, <2>3, <2>4, Zenon
<1>2. CASE n.words # <<>>
  <2> DEFINE r == Numbers!Number(1 - n.sign, n.words, n.room)
  <2>1. Numbers!Negated(n) = r
    BY <1>2, GoodIs DEF Numbers!Negated, Numbers!Size, Numbers!Number
  <2>2. n.sign \in {0, 1} /\ 1 - n.sign \in {0, 1}
    BY GoodIs
  <2>3. Good(r) /\ r.sign = 1 - n.sign /\ r.words = n.words
    BY <1>2, <2>2, GoodIs, GoodMade
  <2> HIDE DEF r
  <2>4. PICK m \in Nat : m = Numbers!Magnitude(n.words)
    BY ValueOfIs
  <2>5. Numbers!ValueOf(r) = IF r.sign = 1 THEN - m ELSE m
    BY <2>3, <2>4, ValueOfIs
  <2>6. Numbers!ValueOf(n) = IF n.sign = 1 THEN - m ELSE m
    BY <2>4, ValueOfIs
  <2> QED
    BY <2>1, <2>2, <2>3, <2>5, <2>6
<1> QED
  BY <1>1, <1>2

\* One word times a factor, and what goes into the next.
LEMMA TimesStep ==
    ASSUME DigitAssumption, NEW w \in Int, 0 <= w, w < B,
           NEW k \in Nat, 1 <= k, k < B, NEW x \in 0 .. k - 1
    PROVE  /\ (w * k + x) \div B \in 0 .. k - 1
           /\ (w * k + x) % B = (w * k + x) - ((w * k + x) \div B) * B
           /\ (w * k + x) % B \in 0 .. B - 1
<1>1. B \in Nat /\ B >= 4
  BY BaseIs
<1>2. PICK p \in Nat : p = w * k
  OBVIOUS
<1>3. PICK t \in Int : t = w * k + x /\ t = p + x /\ 0 <= t
  BY <1>2
<1>4. PICK z \in Nat : z = k * B /\ t < z
  <2>1. PICK d \in Nat : d = (B - 1) - w /\ w = (B - 1) - d
    BY <1>1
  <2>2. PICK e \in Nat : e = d * k
    OBVIOUS
  <2>3. PICK z \in Nat : z = k * B
    BY <1>1
  <2>4. p = (z - k) - e
    BY <1>1, <1>2, <2>1, <2>2, <2>3
  <2> QED
    BY <1>3, <2>3, <2>4
<1>5. PICK q \in Int, r \in 0 .. B - 1 : q = t \div B /\ r = t % B /\ t = q * B + r
  BY <1>3, Quotient
<1>6. PICK m \in Int : m = q * B /\ t = m + r
  BY <1>1, <1>5
<1>7. q >= 0
  <2>1. CASE q < 0
    <3>1. PICK d \in Nat : d = - 1 - q /\ q = - 1 - d
      BY <2>1
    <3>2. PICK e \in Nat : e = d * B
      BY <1>1
    <3>3. m = (- B) - e
      BY <1>1, <1>6, <3>1, <3>2
    <3> QED
      BY <1>1, <1>3, <1>6, <3>3
  <2> QED
    BY <2>1
<1>8. q < k
  <2>1. CASE q >= k
    <3>1. PICK d \in Nat : d = q - k /\ q = k + d
      BY <2>1
    <3>2. PICK e \in Nat : e = d * B
      BY <1>1
    <3>3. m = z + e
      BY <1>1, <1>4, <1>6, <3>1, <3>2
    <3> QED
      BY <1>3, <1>4, <1>6, <3>3
  <2> QED
    BY <2>1
<1>9. r = t - m /\ q \in 0 .. k - 1
  BY <1>1, <1>6, <1>7, <1>8
<1> QED
  BY <1>3, <1>5, <1>6, <1>9

\* operator*= by a word.
LEMMA SlowMulIs ==
    ASSUME DigitAssumption, NEW n, Good(n), NEW k \in Nat, 1 <= k, k < B
    PROVE  /\ Good(Numbers!SlowMul(n, k))
           /\ Numbers!SlowMul(n, k).sign = n.sign
           /\ Numbers!Magnitude(Numbers!SlowMul(n, k).words)
                 = Numbers!Magnitude(n.words) * k
<1>1. PICK w \in Seq(Numbers!Word), m \in Nat :
         /\ w = n.words /\ m = Len(w) /\ DOMAIN w = 1 .. m
         /\ m > 0 => w[m] # 0
  BY GoodIs
<1>2. B \in Nat /\ B >= 4 /\ \A i \in 1 .. m : w[i] \in Int /\ 0 <= w[i] /\ w[i] < B
  BY <1>1, WordsAre, BaseIs
<1> DEFINE T == 0 .. k - 1
           step == [p \in (1 .. m) \X T |-> (w[p[1]] * k + p[2]) \div B]
           c == CHOOSE u : u = [i \in 0 .. m |->
                  IF i = 0 THEN 0 ELSE (w[i] * k + u[i - 1]) \div Numbers!Base]
           word(i) == (w[i] * k + c[i - 1]) % Numbers!Base
           words == [i \in 1 .. m |-> word(i)]
<1>3. \A i \in 1 .. m, x \in T :
         /\ (w[i] * k + x) \div B \in T
         /\ (w[i] * k + x) % B = (w[i] * k + x) - ((w[i] * k + x) \div B) * B
         /\ (w[i] * k + x) % B \in 0 .. B - 1
  <2> SUFFICES ASSUME NEW i \in 1 .. m, NEW x \in T
               PROVE  /\ (w[i] * k + x) \div B \in T
                      /\ (w[i] * k + x) % B
                            = (w[i] * k + x) - ((w[i] * k + x) \div B) * B
                      /\ (w[i] * k + x) % B \in 0 .. B - 1
    OBVIOUS
  <2>1. w[i] \in Int /\ 0 <= w[i] /\ w[i] < B
    BY <1>2
  <2> QED
    BY <2>1, TimesStep, Zenon
<1>4. 0 \in T
  OBVIOUS
<1>5. PICK f \in [0 .. m -> T] : Follows(f, m, 0, step)
  <2>1. step \in [(1 .. m) \X T -> T]
    <3>1. \A p \in (1 .. m) \X T : p[1] \in 1 .. m /\ p[2] \in T
      OBVIOUS
    <3> HIDE DEF T
    <3> QED
      BY <1>3, <3>1
  <2> HIDE DEF step, T
  <2> QED
    BY <1>4, <2>1, Recursion, Zenon
<1>6. f = [i \in 0 .. m |-> IF i = 0 THEN 0 ELSE (w[i] * k + f[i - 1]) \div Numbers!Base]
  <2>1. ASSUME NEW i \in 1 .. m PROVE f[i] = (w[i] * k + f[i - 1]) \div B
    <3>1. i - 1 \in 0 .. m
      OBVIOUS
    <3> HIDE DEF T
    <3>2. <<i, f[i - 1]>> \in (1 .. m) \X T
      BY <3>1
    <3> QED
      BY <1>5, <3>2 DEF Follows
  <2>2. f[0] = 0 /\ \A i \in 0 .. m : i # 0 => i \in 1 .. m
    BY <1>5 DEF Follows
  <2> QED
    BY <2>1, <2>2 DEF B
<1>7. c = [i \in 0 .. m |-> IF i = 0 THEN 0 ELSE (w[i] * k + c[i - 1]) \div Numbers!Base]
  <2> HIDE DEF c
  <2> QED
    BY <1>6, Zenon DEF c
<1>8. Numbers!SlowMul(n, k) = Grown(n, words, c[m])
  <2>1. Numbers!MulCarry(n, k) = c
    BY <1>1, Zenon DEF Numbers!MulCarry, Numbers!Size
  <2> HIDE DEF c
  <2> QED
    BY <1>1, <2>1 DEF Numbers!SlowMul, Numbers!Size, Grown
<1> HIDE DEF c, T
<1>9. c[0] = 0 /\ \A i \in 1 .. m : c[i] = (w[i] * k + c[i - 1]) \div B
  BY <1>7 DEF B
<1>10. \A i \in 0 .. m : c[i] \in T
  <2> DEFINE S == {i \in 0 .. m : c[i] \in T}
  <2>1. 0 \in S
    BY <1>4, <1>9
  <2>2. ASSUME NEW i \in 0 .. m, i \in S, i < m PROVE i + 1 \in S
    <3>1. i + 1 \in 1 .. m /\ (i + 1) - 1 = i /\ i + 1 \in 0 .. m
      BY <2>2
    <3>2. (w[i + 1] * k + c[i]) \div B \in T
      BY <1>3, <2>2, <3>1, Zenon
    <3>3. c[i + 1] = (w[i + 1] * k + c[i]) \div B
      BY <1>9, <3>1
    <3> QED
      BY <3>1, <3>2, <3>3
  <2> HIDE DEF S
  <2>3. \A i \in 0 .. m : i \in S
    BY <2>1, <2>2, Upwards
  <2> QED
    BY <2>3 DEF S
<1>11. \A i \in 1 .. m : /\ word(i) = (w[i] * k + c[i - 1]) - c[i] * B
                         /\ word(i) \in Numbers!Word
  <2> SUFFICES ASSUME NEW i \in 1 .. m
               PROVE  /\ word(i) = (w[i] * k + c[i - 1]) - c[i] * B
                      /\ word(i) \in Numbers!Word
    OBVIOUS
  <2>1. c[i - 1] \in T /\ Numbers!Word = 0 .. B - 1
    BY <1>10, BaseIs
  <2>2. /\ (w[i] * k + c[i - 1]) % B
              = (w[i] * k + c[i - 1]) - ((w[i] * k + c[i - 1]) \div B) * B
        /\ (w[i] * k + c[i - 1]) % B \in 0 .. B - 1
    BY <1>3, <2>1, Zenon
  <2>3. c[i] = (w[i] * k + c[i - 1]) \div B
    BY <1>9
  <2>4. word(i) = (w[i] * k + c[i - 1]) % B
    BY Zenon DEF B
  <2> HIDE DEF word
  <2> QED
    BY <2>1, <2>2, <2>3, <2>4, Zenon
<1> HIDE DEF word
<1>12. words \in Seq(Numbers!Word) /\ Len(words) = m /\ \A i \in 1 .. m : words[i] = word(i)
  BY <1>11
<1> HIDE DEF words
<1> DEFINE s == [i \in 1 .. m |-> w[i] * k]
<1>13. \A i \in 1 .. m : s[i] = w[i] * k /\ s[i] \in Int
  <2>1. \A i \in 1 .. m : w[i] * k \in Int
    BY <1>2
  <2> QED
    BY <2>1
<1> HIDE DEF s
<1>14. \A i \in 0 .. m : c[i] \in Int /\ c[i] \in Numbers!Word /\ c[i] >= 0
  <2>1. T \subseteq Int /\ T \subseteq Numbers!Word /\ \A x \in T : x >= 0
    <3> SUFFICES ASSUME NEW x \in T
                 PROVE  x \in Int /\ x \in Numbers!Word /\ x >= 0
      OBVIOUS
    <3>1. x \in 0 .. k - 1
      BY DEF T
    <3>2. x \in 0 .. B - 1
      BY <1>2, <3>1
    <3> QED
      BY <3>1, <3>2, BaseIs
  <2> QED
    BY <1>10, <2>1
<1>15. Carries(s, words, c, m)
  BY <1>11, <1>12, <1>13, <1>14 DEF Carries
<1>16. c[m] = 0 /\ m > 0 => words[m] # 0
  <2> SUFFICES ASSUME c[m] = 0, m > 0 PROVE words[m] # 0
    OBVIOUS
  <2>1. m \in 1 .. m /\ m - 1 \in 0 .. m
    OBVIOUS
  <2>2. words[m] = (s[m] + c[m - 1]) - c[m] * B
    BY <1>15, <2>1 DEF Carries
  <2>3. PICK v \in Nat, x \in Nat : v = w[m] /\ v > 0 /\ x = c[m - 1] /\ c[m] * B = 0
    <3>1. w[m] \in Nat /\ w[m] > 0
      BY <1>1, <1>2, <2>1
    <3>2. c[m - 1] \in Nat
      BY <1>14, <2>1
    <3>3. c[m] * B = 0
      BY <1>2
    <3> QED
      BY <3>1, <3>2, <3>3
  <2>4. PICK p \in Nat : p = v * k /\ p > 0
    <3>1. PICK d \in Nat : k = 1 + d
      BY SMT
    <3>2. PICK e \in Nat : e = v * d
      OBVIOUS
    <3>3. v * k = v + e
      BY <3>1, <3>2
    <3> QED
      BY <2>3, <3>3
  <2>5. s[m] = p
    BY <1>13, <2>1, <2>3, <2>4
  <2> QED
    BY <2>2, <2>3, <2>4, <2>5
<1>17. /\ Good(Grown(n, words, c[m])) /\ Grown(n, words, c[m]).sign = n.sign
       /\ Numbers!Magnitude(Grown(n, words, c[m]).words) = Value(s, m) + c[0]
  <2>1. /\ Carries(s, words, c, Len(words)) /\ Len(words) = Len(n.words)
        /\ c[Len(words)] \in Numbers!Word
        /\ c[Len(words)] = 0 /\ Len(words) > 0 => words[Len(words)] # 0
    <3>1. m \in 0 .. m
      OBVIOUS
    <3> QED
      BY <1>1, <1>12, <1>14, <1>15, <1>16, <3>1
  <2>2. /\ Good(Grown(n, words, c[Len(words)]))
        /\ Grown(n, words, c[Len(words)]).sign = n.sign
        /\ Numbers!Magnitude(Grown(n, words, c[Len(words)]).words)
              = Value(s, Len(words)) + c[0]
    BY <1>12, <2>1, GrownIs
  <2> QED
    BY <1>12, <2>2
<1>18. Value(s, m) = k * Value(w, m) /\ Value(w, m) \in Int
  <2> DEFINE z == [i \in 1 .. m |-> 0]
  <2>1. \A i \in 1 .. m : z[i] = 0
    OBVIOUS
  <2> HIDE DEF z
  <2>2. Combines(s, k, w, 0, z, m)
    <3>1. \A i \in 1 .. m : w[i] \in Int /\ z[i] \in Int /\ s[i] = k * w[i] + 0 * z[i]
      <4> SUFFICES ASSUME NEW i \in 1 .. m
                   PROVE  w[i] \in Int /\ z[i] \in Int /\ s[i] = k * w[i] + 0 * z[i]
        OBVIOUS
      <4>1. PICK v \in Int, p \in Int : v = w[i] /\ p = v * k /\ s[i] = p
        BY <1>2, <1>13
      <4>2. p = k * v /\ 0 * z[i] = 0 /\ z[i] = 0
        BY <2>1, <4>1
      <4> QED
        BY <4>1, <4>2
    <3> QED
      BY <3>1 DEF Combines
  <2>3. k \in Int /\ 0 \in Int
    OBVIOUS
  <2>4. /\ Value(s, m) = k * Value(w, m) + 0 * Value(z, m)
        /\ Value(w, m) \in Int /\ Value(z, m) \in Int
    BY <2>2, <2>3, ValueLinear
  <2> QED
    BY <2>4
<1>19. Numbers!Magnitude(n.words) = Value(w, m)
  BY <1>1, MagnitudeIs
<1>20. k * Value(w, m) = Value(w, m) * k /\ k * Value(w, m) + 0 = k * Value(w, m)
  BY <1>18
<1> QED
  BY <1>8, <1>9, <1>17, <1>18, <1>19, <1>20

\* Zeros behind words.
LEMMA PaddedIs ==
    ASSUME DigitAssumption, NEW w \in Seq(Numbers!Word), NEW N \in Nat, Len(w) <= N
    PROVE  \E p : /\ \A i \in 1 .. N : /\ p[i] = Padded(w, i)
                                       /\ p[i] \in Int /\ 0 <= p[i] /\ p[i] < B
                  /\ Value(p, N) = Numbers!Magnitude(w)
<1> DEFINE p == [i \in 1 .. N |-> Padded(w, i)]
<1>1. PICK n \in Nat : /\ n = Len(w) /\ n <= N
                       /\ \A i \in 1 .. n : w[i] \in Int /\ 0 <= w[i] /\ w[i] < B
  BY WordsAre
<1>2. \A i \in 1 .. N : p[i] = Padded(w, i)
  OBVIOUS
<1> HIDE DEF p
<1>3. /\ \A i \in 1 .. n : p[i] = w[i]
      /\ \A i \in 1 .. N : i > n => p[i] = 0
  <2>1. ASSUME NEW i \in 1 .. n PROVE p[i] = w[i]
    <3>1. i \in 1 .. N /\ i <= Len(w)
      BY <1>1
    <3> QED
      BY <1>2, <3>1 DEF Padded
  <2>2. ASSUME NEW i \in 1 .. N, i > n PROVE p[i] = 0
    <3>1. ~ (i <= Len(w))
      BY <1>1, <2>2
    <3> QED
      BY <1>2, <3>1 DEF Padded
  <2> QED
    BY <2>1, <2>2
<1>4. Pads(p, N, w, n)
  BY <1>1, <1>3 DEF Pads
<1>5. Value(p, N) = Value(w, n)
  BY <1>4, ValuePadded
<1>6. \A i \in 1 .. N : p[i] \in Int /\ 0 <= p[i] /\ p[i] < B
  <2> SUFFICES ASSUME NEW i \in 1 .. N PROVE p[i] \in Int /\ 0 <= p[i] /\ p[i] < B
    OBVIOUS
  <2>1. i \in 1 .. n \/ i > n
    BY <1>1
  <2>2. 0 \in Int /\ 0 <= 0 /\ 0 < B
    BY BaseIs
  <2> QED
    BY <1>1, <1>3, <2>1, <2>2
<1>7. Numbers!Magnitude(w) = Value(w, n)
  BY <1>1, MagnitudeIs
<1> QED
  BY <1>2, <1>5, <1>6, <1>7

\* The sum of two magnitudes, the first of which has as many words or more.
LEMMA SameSignIs ==
    ASSUME DigitAssumption, NEW lhs, NEW rhs, Good(lhs), Good(rhs),
           Len(rhs.words) <= Len(lhs.words)
    PROVE  /\ Good(Numbers!SameSign(lhs, rhs))
           /\ Numbers!SameSign(lhs, rhs).sign = lhs.sign
           /\ Numbers!Magnitude(Numbers!SameSign(lhs, rhs).words)
                 = Numbers!Magnitude(lhs.words) + Numbers!Magnitude(rhs.words)
<1>1. PICK out \in Seq(Numbers!Word), N \in Nat :
         /\ out = lhs.words /\ N = Len(out)
         /\ N > 0 => out[N] # 0
  BY GoodIs
<1>2. PICK w \in Seq(Numbers!Word) : w = rhs.words /\ Len(w) <= N
  BY <1>1, GoodIs
<1>3. PICK result : result = Numbers!Copy(lhs) /\ Good(result) /\ result.sign = lhs.sign
                    /\ result.words = out
  BY <1>1, CopyIs
<1> DEFINE sum == Numbers!AddWords(w, out)
<1>4. PICK c : /\ \A i \in 0 .. Len(out) : c[i] \in {0, 1}
               /\ c[0] = 0 /\ c[Len(out)] = sum.carry
               /\ sum.words \in Seq(Numbers!Word)
               /\ Len(sum.words) = Len(out)
               /\ \A i \in 1 .. Len(out) :
                     sum.words[i] = ((out[i] + Padded(w, i)) + c[i - 1]) - c[i] * B
  BY <1>1, <1>2, AddWordsIs
<1>5. PICK x \in Seq(Numbers!Word) : x = sum.words /\ Len(x) = N
  BY <1>1, <1>4
<1>6. PICK p : /\ \A i \in 1 .. N : /\ p[i] = Padded(w, i)
                                    /\ p[i] \in Int /\ 0 <= p[i] /\ p[i] < B
               /\ Value(p, N) = Numbers!Magnitude(w)
  BY <1>2, PaddedIs
<1>7. \A i \in 1 .. N : out[i] \in Int /\ 0 <= out[i]
  BY <1>1, WordsAre
<1>8. /\ \A i \in 0 .. N : c[i] \in {0, 1} /\ c[i] \in Int /\ c[i] >= 0
      /\ c[0] = 0 /\ c[N] = sum.carry /\ N \in 0 .. N
  <2>1. \A i \in 0 .. N : c[i] \in {0, 1}
    BY <1>1, <1>4
  <2> QED
    BY <1>1, <1>4, <2>1
<1> DEFINE s == [i \in 1 .. N |-> out[i] + p[i]]
<1>9. \A i \in 1 .. N : s[i] = out[i] + p[i] /\ s[i] \in Int
  BY <1>6, <1>7
<1> HIDE DEF s
<1>10. Numbers!SameSign(lhs, rhs) = Grown(result, x, c[N])
  <2>1. Numbers!SameSign(lhs, rhs) = IF sum.carry = 0 THEN [result EXCEPT !.words = x]
                                     ELSE Numbers!Extended(result, x, 1)
    BY <1>1, <1>2, <1>3, <1>5 DEF Numbers!SameSign
  <2> HIDE DEF sum
  <2>2. sum.carry = 0 \/ sum.carry = 1
    BY <1>8
  <2> QED
    BY <1>8, <2>1, <2>2 DEF Grown
<1> HIDE DEF sum
<1>11. Carries(s, x, c, N)
  <2>1. \A i \in 1 .. N : x[i] = (s[i] + c[i - 1]) - c[i] * B
    BY <1>1, <1>4, <1>5, <1>6, <1>9
  <2> QED
    BY <1>8, <1>9, <2>1 DEF Carries
<1>12. c[N] = 0 /\ N > 0 => x[N] # 0
  <2> SUFFICES ASSUME c[N] = 0, N > 0 PROVE x[N] # 0
    OBVIOUS
  <2>1. N \in 1 .. N /\ N - 1 \in 0 .. N /\ B \in Nat
    BY BaseIs
  <2>2. x[N] = (s[N] + c[N - 1]) - c[N] * B
    BY <1>11, <2>1 DEF Carries
  <2>3. PICK o \in Int, v \in Int, y \in Int :
           /\ o = out[N] /\ o > 0 /\ v = p[N] /\ v >= 0 /\ y = c[N - 1] /\ y >= 0
           /\ c[N] * B = 0
    <3>1. out[N] \in Int /\ out[N] > 0
      BY <1>1, <1>7, <2>1
    <3>2. p[N] \in Int /\ p[N] >= 0
      BY <1>6, <2>1
    <3>3. c[N - 1] \in Int /\ c[N - 1] >= 0
      BY <1>8, <2>1
    <3>4. c[N] * B = 0
      BY <2>1
    <3> QED
      BY <3>1, <3>2, <3>3, <3>4
  <2>4. s[N] = o + v
    BY <1>9, <2>1, <2>3
  <2> QED
    BY <2>2, <2>3, <2>4
<1>13. /\ Good(Grown(result, x, c[N])) /\ Grown(result, x, c[N]).sign = lhs.sign
       /\ Numbers!Magnitude(Grown(result, x, c[N]).words) = Value(s, N) + c[0]
  <2>1. c[N] \in Numbers!Word
    <3>1. c[N] \in {0, 1}
      BY <1>8
    <3> QED
      BY <3>1, BaseNat
  <2>2. /\ Carries(s, x, c, Len(x)) /\ Len(x) = Len(result.words)
        /\ c[Len(x)] \in Numbers!Word
        /\ c[Len(x)] = 0 /\ Len(x) > 0 => x[Len(x)] # 0
    BY <1>1, <1>3, <1>5, <1>11, <1>12, <2>1
  <2>3. /\ Good(Grown(result, x, c[Len(x)]))
        /\ Grown(result, x, c[Len(x)]).sign = result.sign
        /\ Numbers!Magnitude(Grown(result, x, c[Len(x)]).words)
              = Value(s, Len(x)) + c[0]
    BY <1>3, <2>2, GrownIs
  <2> QED
    BY <1>3, <1>5, <2>3
<1>14. Value(s, N) = Value(out, N) + Value(p, N)
  <2>1. \A i \in 1 .. N : out[i] \in Int /\ p[i] \in Int /\ s[i] = 1 * out[i] + 1 * p[i]
    BY <1>6, <1>7, <1>9
  <2>2. Combines(s, 1, out, 1, p, N) /\ 1 \in Int
    BY <2>1 DEF Combines
  <2>3. /\ Value(s, N) = 1 * Value(out, N) + 1 * Value(p, N)
        /\ Value(out, N) \in Int /\ Value(p, N) \in Int
    BY <2>2, ValueLinear
  <2> QED
    BY <2>3
<1>15. /\ Numbers!Magnitude(lhs.words) = Value(out, N)
       /\ Numbers!Magnitude(lhs.words) \in Nat /\ Numbers!Magnitude(rhs.words) \in Nat
  BY <1>1, ValueOfIs
<1>16. Value(s, N) + c[0] = Numbers!Magnitude(lhs.words) + Numbers!Magnitude(rhs.words)
  BY <1>2, <1>6, <1>8, <1>14, <1>15
<1> QED
  BY <1>10, <1>13, <1>16

\* The first words of a number, behind which there are only zeros.
Ends(words, end) == /\ end \in 0 .. Len(words)
                    /\ end > 0 => words[end] # 0
                    /\ \A i \in 1 .. Len(words) : i > end => words[i] = 0

\* ResizeTo drops the zeros on top, and the sign of 0.
LEMMA ResizedIs ==
    ASSUME DigitAssumption, NEW n, Good(n), NEW words \in Seq(Numbers!Word),
           Len(words) = Len(n.words), NEW end, Ends(words, end)
    PROVE  /\ Good(Numbers!Resized(n, words, end))
           /\ Numbers!Resized(n, words, end).sign = IF end = 0 THEN 0 ELSE n.sign
           /\ Numbers!Resized(n, words, end).words = <<>> <=> end = 0
           /\ Numbers!Magnitude(Numbers!Resized(n, words, end).words)
                 = Value(words, Len(words))
<1> USE DEF Ends
<1> DEFINE bit == IF end = 0 THEN 0 ELSE n.sign
           first == SubSeq(words, 1, end)
           room == IF end <= 2 THEN 2 ELSE n.room
           r == Numbers!Number(bit, first, room)
<1>1. Numbers!Resized(n, words, end) = r
  BY DEF Numbers!Resized
<1>2. PICK m \in Nat : m = Len(words) /\ end \in 0 .. m
  BY WordsAre
<1>3. first \in Seq(Numbers!Word) /\ Len(first) = end
      /\ \A i \in 1 .. end : first[i] = words[i]
  BY <1>2
<1> HIDE DEF first
<1>4. end \in Nat /\ (first = <<>> <=> end = 0) /\ (first # <<>> => first[Len(first)] # 0)
  <2>1. end \in Nat /\ (first = <<>> <=> end = 0)
    BY <1>2, <1>3
  <2>2. ASSUME end > 0 PROVE first[Len(first)] # 0
    <3>1. end \in 1 .. end
      BY <2>1, <2>2
    <3> QED
      BY <1>3, <2>2, <3>1
  <2>3. end = 0 \/ end > 0
    BY <2>1
  <2> QED
    BY <2>1, <2>2, <2>3
<1>5. /\ n.sign \in {0, 1} /\ n.room \in Nat /\ m <= n.room /\ (m <= 2 <=> n.room = 2)
  BY <1>2, GoodIs
<1>6. /\ bit \in {0, 1} /\ room \in Nat /\ Len(first) <= room
      /\ Len(first) <= 2 <=> room = 2
  BY <1>2, <1>3, <1>5
<1>7. first = <<>> => bit = 0
  BY <1>4
<1> HIDE DEF bit, room
<1>8. Good(r) /\ r.sign = bit /\ r.words = first
  BY <1>3, <1>4, <1>6, <1>7, GoodMade
<1> HIDE DEF r
<1>9. Pads(words, m, first, end)
  <2>1. \A i \in 1 .. end : first[i] \in Int /\ words[i] = first[i]
    BY <1>3, WordsAre
  <2> QED
    BY <1>2, <2>1 DEF Pads
<1>10. Value(words, m) = Value(first, end)
  BY <1>4, <1>9, ValuePadded
<1>11. Numbers!Magnitude(r.words) = Value(first, end)
  BY <1>3, <1>8, MagnitudeIs
<1> QED
  BY <1>1, <1>2, <1>4, <1>8, <1>10, <1>11 DEF bit

\* The sign of a number that is not zero may be any.
LEMMA SignedIs ==
    ASSUME DigitAssumption, NEW n, Good(n), NEW bit \in {0, 1},
           n.words # <<>> \/ bit = 0
    PROVE  /\ Good([n EXCEPT !.sign = bit])
           /\ [n EXCEPT !.sign = bit].sign = bit
           /\ [n EXCEPT !.sign = bit].words = n.words
<1>1. [n EXCEPT !.sign = bit] = Numbers!Number(bit, n.words, n.room)
  BY GoodIs DEF Numbers!Number
<1>2. /\ n.words \in Seq(Numbers!Word) /\ n.room \in Nat
      /\ n.words # <<>> => n.words[Len(n.words)] # 0
      /\ n.words = <<>> => bit = 0
      /\ Len(n.words) <= n.room
      /\ Len(n.words) <= 2 <=> n.room = 2
  BY GoodIs
<1>3. /\ Good(Numbers!Number(bit, n.words, n.room))
      /\ Numbers!Number(bit, n.words, n.room).sign = bit
      /\ Numbers!Number(bit, n.words, n.room).words = n.words
  BY <1>2, GoodMade
<1> QED
  BY <1>1, <1>3

\* The difference of two magnitudes, as far as the code gets it right.
LEMMA UnlikeSignsIs ==
    ASSUME DigitAssumption, NEW lhs, NEW rhs, Good(lhs), Good(rhs),
           rhs.words # <<>>, Len(rhs.words) <= Len(lhs.words),
           Len(lhs.words) <= Len(rhs.words) + 1,
           \A i \in DOMAIN rhs.words : rhs.words[i] # B - 1
    PROVE  LET result == Numbers!UnlikeSigns(lhs, rhs)
           IN  /\ Good(result)
               /\ \/ /\ result.sign = lhs.sign \/ result.words = <<>>
                     /\ Numbers!Magnitude(result.words)
                           = Numbers!Magnitude(lhs.words) - Numbers!Magnitude(rhs.words)
                  \/ /\ result.sign = rhs.sign
                     /\ Numbers!Magnitude(result.words)
                           = Numbers!Magnitude(rhs.words) - Numbers!Magnitude(lhs.words)
<1>1. PICK out \in Seq(Numbers!Word), w \in Seq(Numbers!Word), N \in Nat, n \in Nat :
         /\ out = lhs.words /\ N = Len(out) /\ w = rhs.words /\ n = Len(w)
         /\ n > 0 /\ n <= N /\ N <= n + 1
         /\ out[N] # 0 /\ DOMAIN w = 1 .. n
  <2>1. /\ lhs.words \in Seq(Numbers!Word) /\ rhs.words \in Seq(Numbers!Word)
        /\ Len(rhs.words) \in Nat /\ Len(lhs.words) \in Nat /\ Len(rhs.words) > 0
    BY GoodIs
  <2>2. lhs.words # <<>>
    BY <2>1
  <2>3. lhs.words[Len(lhs.words)] # 0
    BY <2>2, GoodIs
  <2>4. DOMAIN rhs.words = 1 .. Len(rhs.words)
    BY <2>1
  <2> QED
    BY <2>1, <2>3, <2>4
<1>2. N = n \/ N = n + 1
  BY <1>1
<1> DEFINE diff == Numbers!SubWords(w, out)
<1>3. PICK b : /\ \A i \in 0 .. N : b[i] \in {0, 1}
               /\ b[0] = 0
               /\ diff.words \in Seq(Numbers!Word)
               /\ Len(diff.words) = N
               /\ \A i \in 1 .. N :
                     diff.words[i] = ((out[i] - Padded(w, i)) - b[i - 1]) + b[i] * B
               /\ b[N] = 1 => /\ diff.end = N
                              /\ n = N
                              /\ diff.words[N] > out[N]
               /\ b[N] = 0 =>
                     /\ diff.end \in 0 .. N
                     /\ \A i \in 1 .. N : i > diff.end => diff.words[i] = 0
                     /\ diff.end > 0 => diff.words[diff.end] # 0
                     /\ diff.words[N] <= out[N]
  <2>1. /\ Len(w) > 0 /\ (Len(out) = Len(w) \/ Len(out) = Len(w) + 1)
        /\ out[Len(out)] # 0
    BY <1>1, <1>2
  <2>2. \A i \in 1 .. Len(w) : w[i] # B - 1
    BY <1>1
  <2>3. Len(out) = N /\ Len(w) = n
    BY <1>1
  <2>4. PICK b : /\ \A i \in 0 .. Len(out) : b[i] \in {0, 1}
                 /\ b[0] = 0
                 /\ diff.words \in Seq(Numbers!Word)
                 /\ Len(diff.words) = Len(out)
                 /\ \A i \in 1 .. Len(out) :
                       diff.words[i] =
                          ((out[i] - Padded(w, i)) - b[i - 1]) + b[i] * B
                 /\ b[Len(out)] = 1 => /\ diff.end = Len(out)
                                       /\ Len(w) = Len(out)
                                       /\ diff.words[Len(out)] > out[Len(out)]
                 /\ b[Len(out)] = 0 =>
                       /\ diff.end \in 0 .. Len(out)
                       /\ \A i \in 1 .. Len(out) : i > diff.end => diff.words[i] = 0
                       /\ diff.end > 0 => diff.words[diff.end] # 0
                       /\ diff.words[Len(out)] <= out[Len(out)]
    BY <2>1, <2>2, SubWordsIs
  <2> HIDE DEF diff
  <2> QED
    BY <2>3, <2>4
<1>4. PICK x, end : /\ x = diff.words /\ x \in Seq(Numbers!Word) /\ Len(x) = N
                    /\ end = diff.end
  BY <1>3
<1>5. PICK result : /\ result = Numbers!Copy(lhs) /\ Good(result) /\ result.sign = lhs.sign
                    /\ result.words = out
  BY <1>1, CopyIs
<1>6. PICK p : /\ \A i \in 1 .. N : /\ p[i] = Padded(w, i)
                                    /\ p[i] \in Int /\ 0 <= p[i] /\ p[i] < B
               /\ Value(p, N) = Numbers!Magnitude(w)
  <2>1. Len(w) <= N
    BY <1>1
  <2> QED
    BY <2>1, PaddedIs
<1>7. \A i \in 1 .. N : out[i] \in Int /\ 0 <= out[i]
  BY <1>1, WordsAre
<1>8. PICK P \in Nat, M \in Nat :
         /\ M = Numbers!Magnitude(lhs.words) /\ M = Value(out, N)
         /\ P = Numbers!Magnitude(rhs.words) /\ P = Value(p, N)
  BY <1>1, <1>6, ValueOfIs
<1> DEFINE s == [i \in 1 .. N |-> out[i] - p[i]]
           t == [i \in 1 .. N |-> p[i] - out[i]]
<1>9. \A i \in 1 .. N : /\ s[i] = out[i] - p[i] /\ s[i] \in Int
                        /\ t[i] = p[i] - out[i] /\ t[i] \in Int
  BY <1>6, <1>7
<1> HIDE DEF s, t
<1>10. Value(s, N) = M - P
  <2>1. \A i \in 1 .. N : out[i] \in Int /\ p[i] \in Int /\ s[i] = 1 * out[i] + (-1) * p[i]
    BY <1>6, <1>7, <1>9
  <2>2. Combines(s, 1, out, -1, p, N) /\ 1 \in Int /\ -1 \in Int
    BY <2>1 DEF Combines
  <2>3. Value(s, N) = 1 * Value(out, N) + (-1) * Value(p, N)
    BY <2>2, ValueLinear
  <2> QED
    BY <1>8, <2>3
<1>11. Value(t, N) = P - M
  <2>1. \A i \in 1 .. N : out[i] \in Int /\ p[i] \in Int /\ t[i] = (-1) * out[i] + 1 * p[i]
    BY <1>6, <1>7, <1>9
  <2>2. Combines(t, -1, out, 1, p, N) /\ 1 \in Int /\ -1 \in Int
    BY <2>1 DEF Combines
  <2>3. Value(t, N) = (-1) * Value(out, N) + 1 * Value(p, N)
    BY <2>2, ValueLinear
  <2> QED
    BY <1>8, <2>3
<1>12. N \in 1 .. N /\ N \in 0 .. N /\ \A i \in 0 .. N : b[i] \in Int /\ b[i] \in {0, 1}
  BY <1>1, <1>3
<1>13. \A i \in 1 .. N : x[i] = (s[i] - b[i - 1]) + b[i] * B
  BY <1>3, <1>4, <1>6, <1>9
<1>14. x \in Seq(Numbers!Word) /\ Len(x) = Len(result.words)
  BY <1>1, <1>4, <1>5
<1> DEFINE complement == [i \in DOMAIN x |-> Numbers!Base - 1 - x[i]]
           top == Numbers!Max({0} \union {i \in DOMAIN complement : complement[i] # 0})
<1>15. Numbers!UnlikeSigns(lhs, rhs) =
          IF end # N THEN Numbers!Resized(result, x, end)
          ELSE IF x[N] <= out[N] THEN [result EXCEPT !.words = x]
          ELSE [Numbers!Increased(Numbers!Resized([result EXCEPT !.sign = 0], complement, top))
                   EXCEPT !.sign = rhs.sign]
  BY <1>1, <1>4, <1>5, Zenon DEF Numbers!UnlikeSigns, Numbers!Size
<1> HIDE DEF diff, top, complement
<1>16. PICK r : r = Numbers!UnlikeSigns(lhs, rhs)
  OBVIOUS
<1>17. CASE b[N] = 0
  <2>1. /\ end \in 0 .. N /\ (\A i \in 1 .. N : i > end => x[i] = 0)
        /\ (end > 0 => x[end] # 0) /\ x[N] <= out[N]
    BY <1>3, <1>4, <1>17
  <2>2. Value(x, N) = M - P
    <3>1. Borrows(s, x, b, N)
      BY <1>9, <1>12, <1>13 DEF Borrows
    <3>2. Value(x, N) = Value(s, N) - b[0]
      BY <1>1, <1>17, <3>1, ValueBorrowed
    <3> QED
      BY <1>3, <1>8, <1>10, <3>2
  <2>3. CASE end # N
    <3>1. r = Numbers!Resized(result, x, end)
      BY <1>15, <1>16, <2>3
    <3>2. Ends(x, end)
      BY <1>4, <2>1 DEF Ends
    <3>3. /\ Good(r) /\ r.sign = IF end = 0 THEN 0 ELSE result.sign
          /\ r.words = <<>> <=> end = 0
          /\ Numbers!Magnitude(r.words) = Value(x, Len(x))
      <4>1. Good(result) /\ x \in Seq(Numbers!Word) /\ Len(x) = Len(result.words)
        BY <1>5, <1>14
      <4>2. /\ Good(Numbers!Resized(result, x, end))
            /\ Numbers!Resized(result, x, end).sign = IF end = 0 THEN 0 ELSE result.sign
            /\ Numbers!Resized(result, x, end).words = <<>> <=> end = 0
            /\ Numbers!Magnitude(Numbers!Resized(result, x, end).words) = Value(x, Len(x))
        BY <3>2, <4>1, ResizedIs
      <4> QED
        BY <3>1, <4>2, Zenon
    <3> QED
      BY <1>4, <1>5, <1>8, <1>16, <2>2, <3>3
  <2>4. CASE end = N
    <3>1. r = [result EXCEPT !.words = x]
      BY <1>15, <1>16, <2>1, <2>4
    <3>2. Len(x) > 0 => x[Len(x)] # 0
      BY <1>1, <1>4, <2>1, <2>4
    <3>3. Good(r) /\ r.sign = lhs.sign /\ r.words = x
      BY <1>5, <1>14, <3>1, <3>2, SameLength
    <3>4. Numbers!Magnitude(r.words) = Value(x, N)
      BY <1>4, <3>3, MagnitudeIs
    <3> QED
      BY <1>8, <1>16, <2>2, <3>3, <3>4
  <2> QED
    BY <2>3, <2>4
<1>18. CASE b[N] = 1
  <2>1. end = N /\ ~ (x[N] <= out[N])
    <3>1. end = N /\ x[N] > out[N]
      BY <1>3, <1>4, <1>18
    <3>2. out[N] \in Int /\ x[N] \in Int
      BY <1>4, <1>7, <1>12, WordsAre
    <3> QED
      BY <3>1, <3>2
  <2>2. PICK z : z = [result EXCEPT !.sign = 0] /\ Good(z) /\ z.sign = 0 /\ z.words = out
    <3>1. 0 \in {0, 1}
      OBVIOUS
    <3> QED
      BY <1>5, <3>1, SignedIs
  <2>3. PICK g : g = Numbers!Resized(z, complement, top)
    OBVIOUS
  <2>4. r = [Numbers!Increased(g) EXCEPT !.sign = rhs.sign]
    BY <1>15, <1>16, <2>1, <2>2, <2>3, Zenon
  <2>5. DOMAIN x = 1 .. N /\ \A i \in 1 .. N : x[i] \in Int /\ 0 <= x[i] /\ x[i] <= B - 1
    <3>1. DOMAIN x = 1 .. N /\ \A i \in 1 .. N : x[i] \in 0 .. B - 1
      BY <1>4, WordsAre
    <3>2. B \in Nat
      BY BaseIs
    <3> QED
      BY <3>1, <3>2
  <2>6. \A i \in 1 .. N : (Numbers!Base - 1) - x[i] \in 0 .. B - 1 /\ B - 1 \in Int
    <3>1. B \in Nat
      BY BaseIs
    <3> QED
      BY <2>5, <3>1 DEF B
  <2>7. /\ complement \in Seq(Numbers!Word) /\ Len(complement) = N
        /\ DOMAIN complement = 1 .. N
        /\ \A i \in 1 .. N : complement[i] = (B - 1) - x[i]
    <3>1. complement = [i \in 1 .. N |-> (B - 1) - x[i]]
      BY <2>5 DEF complement, B
    <3>2. \A i \in 1 .. N : (B - 1) - x[i] \in Numbers!Word
      BY <2>6, BaseIs DEF B
    <3> QED
      BY <3>1, <3>2
  <2>8. Ends(complement, top)
    <3> DEFINE S == {0} \union {i \in 1 .. N : complement[i] # 0}
    <3>1. S \subseteq 0 .. N /\ S # {}
      OBVIOUS
    <3>2. top = Numbers!Max(S)
      BY <2>7 DEF top
    <3>3. \A i \in 1 .. N : complement[i] # 0 => i \in S
      OBVIOUS
    <3>4. \A i \in S : i > 0 => complement[i] # 0
      OBVIOUS
    <3> HIDE DEF S
    <3>5. Numbers!Max(S) \in S /\ \A y \in S : Numbers!Max(S) >= y
      BY <3>1, TopWordIs
    <3>6. PICK m \in 0 .. N : m = top /\ m \in S /\ \A y \in S : m >= y
      BY <3>1, <3>2, <3>5
    <3>7. \A i \in 1 .. N : i > m => complement[i] = 0
      <4> SUFFICES ASSUME NEW i \in 1 .. N, i > m PROVE complement[i] = 0
        OBVIOUS
      <4>1. i \notin S
        BY <3>6
      <4> QED
        BY <3>3, <4>1
    <3> QED
      BY <2>7, <3>4, <3>6, <3>7 DEF Ends
  <2>9. /\ Good(g) /\ g.sign = 0
        /\ Numbers!Magnitude(g.words) = Value(complement, N)
    <3>1. Len(complement) = Len(z.words) /\ complement \in Seq(Numbers!Word)
      BY <1>1, <2>2, <2>7
    <3>2. /\ Good(g) /\ g.sign = IF top = 0 THEN 0 ELSE z.sign
          /\ Numbers!Magnitude(g.words) = Value(complement, Len(complement))
      <4>1. Good(z)
        BY <2>2
      <4> QED
        BY <2>3, <2>8, <3>1, <4>1, ResizedIs
    <3> QED
      BY <2>2, <2>7, <3>2
  <2> DEFINE e == [i \in 0 .. N |-> b[i] - 1]
  <2>10. \A i \in 0 .. N : e[i] = b[i] - 1 /\ e[i] \in Int
    BY <1>12
  <2>11. 0 \in 0 .. N
    OBVIOUS
  <2>12. e[0] = -1 /\ e[N] = 0
    BY <1>3, <1>12, <1>18, <2>11
  <2> HIDE DEF e
  <2>13. Carries(t, complement, e, N)
    <3>1. \A i \in 1 .. N : complement[i] = (t[i] + e[i - 1]) - e[i] * B
      <4> SUFFICES ASSUME NEW i \in 1 .. N
                   PROVE  complement[i] = (t[i] + e[i - 1]) - e[i] * B
        OBVIOUS
      <4>1. i \in 0 .. N /\ i - 1 \in 0 .. N
        OBVIOUS
      <4>2. PICK o \in Int, v \in Int, u \in Int, y \in Int, k \in Int :
               /\ o = out[i] /\ v = p[i] /\ u = b[i - 1] /\ y = b[i] /\ k = B
        <5>1. B \in Int
          BY BaseIs
        <5> QED
          BY <1>6, <1>7, <1>12, <4>1, <5>1
      <4>3. PICK q \in Int : q = y * k /\ (y - 1) * k = q - k
        OBVIOUS
      <4>4. x[i] = ((o - v) - u) + q
        BY <1>9, <1>13, <4>2, <4>3
      <4>5. t[i] = v - o /\ e[i - 1] = u - 1 /\ e[i] * B = q - k
        BY <1>9, <2>10, <4>1, <4>2, <4>3
      <4>6. complement[i] = (k - 1) - x[i]
        BY <2>7, <4>2
      <4> QED
        BY <4>4, <4>5, <4>6
    <3> QED
      BY <1>9, <2>10, <3>1 DEF Carries
  <2>14. Value(complement, N) = (P - M) - 1
    <3>1. Value(complement, N) = Value(t, N) + e[0]
      BY <1>1, <2>12, <2>13, ValueCarried
    <3> QED
      BY <1>8, <1>11, <2>12, <3>1
  <2>15. PICK h : /\ h = Numbers!Increased(g) /\ Good(h)
                  /\ Numbers!Magnitude(h.words) = Numbers!Magnitude(g.words) + 1
    BY <2>9, IncreasedIs
  <2>16. Numbers!Magnitude(h.words) = P - M /\ h.words # <<>>
    <3>1. Numbers!Magnitude(g.words) \in Nat
      BY <2>9, ValueOfIs
    <3>2. h.words = <<>> => Numbers!Magnitude(h.words) = 0
      BY <2>15, ValueOfIs
    <3>3. Numbers!Magnitude(h.words) # 0
      BY <2>15, <3>1
    <3>4. Numbers!Magnitude(h.words) = P - M
      BY <1>8, <2>9, <2>14, <2>15
    <3> QED
      BY <3>2, <3>3, <3>4
  <2>17. rhs.sign \in {0, 1}
    BY GoodIs
  <2>18. Good(r) /\ r.sign = rhs.sign /\ r.words = h.words
    BY <2>4, <2>15, <2>16, <2>17, SignedIs
  <2> QED
    BY <1>8, <1>16, <2>16, <2>18
<1>19. b[N] \in {0, 1}
  BY <1>12
<1> QED
  BY <1>17, <1>18, <1>19

\* The sum, when its first operand has as many words or more.
Added(lhs, rhs) ==
    CASE Numbers!Size(rhs) = 0 -> Numbers!Copy(lhs)
      [] Numbers!Size(rhs) # 0 /\ Numbers!sign(lhs) = Numbers!sign(rhs) ->
            Numbers!SameSign(lhs, rhs)
      [] OTHER -> Numbers!UnlikeSigns(lhs, rhs)

\* The sum of a longer and a shorter integer.
LEMMA AddedIs ==
    ASSUME DigitAssumption, NEW lhs, NEW rhs, Good(lhs), Good(rhs),
           Len(rhs.words) <= Len(lhs.words), Numbers!Exact(lhs, rhs)
    PROVE  /\ Good(Added(lhs, rhs))
           /\ Numbers!ValueOf(Added(lhs, rhs))
                 = Numbers!ValueOf(lhs) + Numbers!ValueOf(rhs)
<1>1. PICK r : r = Added(lhs, rhs)
  OBVIOUS
<1>2. /\ lhs.sign \in {0, 1} /\ rhs.sign \in {0, 1}
      /\ Len(lhs.words) \in Nat /\ Len(rhs.words) \in Nat
      /\ rhs.words = <<>> <=> Len(rhs.words) = 0
      /\ lhs.words = <<>> <=> Len(lhs.words) = 0
  BY GoodIs
<1>3. PICK M \in Nat, P \in Nat :
         /\ M = Numbers!Magnitude(lhs.words) /\ P = Numbers!Magnitude(rhs.words)
         /\ Numbers!ValueOf(lhs) = IF lhs.sign = 1 THEN - M ELSE M
         /\ Numbers!ValueOf(rhs) = IF rhs.sign = 1 THEN - P ELSE P
         /\ rhs.words = <<>> => P = 0
  BY ValueOfIs
<1>4. CASE rhs.words = <<>>
  <2>1. Numbers!Size(rhs) = 0
    BY <1>2, <1>4 DEF Numbers!Size
  <2>2. r = Numbers!Copy(lhs)
    BY <1>1, <2>1, Zenon DEF Added
  <2>3. Good(r) /\ Numbers!ValueOf(r) = Numbers!ValueOf(lhs)
    BY <2>2, CopyIs
  <2>4. Numbers!ValueOf(rhs) = 0 /\ Numbers!ValueOf(lhs) \in Int
    <3>1. rhs.sign = 0 /\ P = 0
      BY <1>3, <1>4, GoodIs
    <3> QED
      BY <1>3, <3>1
  <2> QED
    BY <1>1, <2>3, <2>4
<1>5. CASE rhs.words # <<>> /\ lhs.sign = rhs.sign
  <2>1. /\ Numbers!Size(rhs) # 0 /\ Numbers!Size(lhs) # 0
        /\ Numbers!sign(lhs) = Numbers!sign(rhs)
    BY <1>2, <1>5 DEF Numbers!Size, Numbers!sign
  <2>2. r = Numbers!SameSign(lhs, rhs)
    BY <1>1, <2>1, Zenon DEF Added
  <2>3. Good(r) /\ r.sign = lhs.sign /\ Numbers!Magnitude(r.words) = M + P
    BY <1>3, <2>2, SameSignIs
  <2>4. Numbers!ValueOf(r) = IF r.sign = 1 THEN - (M + P) ELSE M + P
    BY <2>3, ValueOfIs
  <2> QED
    BY <1>1, <1>3, <1>5, <2>3, <2>4
<1>6. CASE rhs.words # <<>> /\ lhs.sign # rhs.sign
  <2>1. /\ Numbers!Size(rhs) # 0 /\ Numbers!Size(lhs) # 0
        /\ Numbers!sign(lhs) # Numbers!sign(rhs)
    BY <1>2, <1>6 DEF Numbers!Size, Numbers!sign
  <2>2. r = Numbers!UnlikeSigns(lhs, rhs)
    BY <1>1, <2>1, Zenon DEF Added
  <2>3. /\ Len(lhs.words) <= Len(rhs.words) + 1
        /\ \A i \in DOMAIN rhs.words : rhs.words[i] # B - 1
    BY <1>6, <2>1 DEF Numbers!Exact, Numbers!Size, B
  <2>4. /\ Good(r)
        /\ \/ (r.sign = lhs.sign \/ r.words = <<>>) /\ Numbers!Magnitude(r.words) = M - P
           \/ r.sign = rhs.sign /\ Numbers!Magnitude(r.words) = P - M
    <3>1. /\ Good(r)
          /\ \/ /\ r.sign = lhs.sign \/ r.words = <<>>
                /\ Numbers!Magnitude(r.words)
                      = Numbers!Magnitude(lhs.words) - Numbers!Magnitude(rhs.words)
             \/ /\ r.sign = rhs.sign
                /\ Numbers!Magnitude(r.words)
                      = Numbers!Magnitude(rhs.words) - Numbers!Magnitude(lhs.words)
      BY <1>6, <2>2, <2>3, UnlikeSignsIs
    <3> QED
      BY <1>3, <3>1
  <2>5. PICK m \in Nat : /\ m = Numbers!Magnitude(r.words)
                         /\ Numbers!ValueOf(r) = IF r.sign = 1 THEN - m ELSE m
                         /\ r.words = <<>> => m = 0
    BY <2>4, ValueOfIs
  <2>6. Numbers!ValueOf(r) = Numbers!ValueOf(lhs) + Numbers!ValueOf(rhs)
    <3>1. CASE r.words = <<>>
      <4>1. Numbers!ValueOf(r) = 0 /\ M = P
        <5>1. r.sign = 0
          BY <2>4, <3>1, GoodIs
        <5>2. m = 0 /\ (m = M - P \/ m = P - M)
          BY <2>4, <2>5, <3>1
        <5> QED
          BY <2>5, <5>1, <5>2
      <4> QED
        BY <1>2, <1>3, <1>6, <4>1
    <3>2. CASE r.words # <<>>
      BY <1>2, <1>3, <1>6, <2>4, <2>5, <3>2
    <3> QED
      BY <3>1, <3>2
  <2> QED
    BY <1>1, <2>4, <2>6
<1> QED
  BY <1>4, <1>5, <1>6

\* operator+, where it comes out right.
LEMMA SumIs ==
    ASSUME DigitAssumption, NEW x, NEW y, Good(x), Good(y),
           Numbers!ExactSum(x, y)
    PROVE  /\ Good(Numbers!Sum(x, y))
           /\ Numbers!ValueOf(Numbers!Sum(x, y))
                 = Numbers!ValueOf(x) + Numbers!ValueOf(y)
<1>1. /\ Numbers!Size(x) = Len(x.words) /\ Numbers!Size(y) = Len(y.words)
      /\ Len(x.words) \in Nat /\ Len(y.words) \in Nat
      /\ Numbers!ValueOf(x) \in Int /\ Numbers!ValueOf(y) \in Int
  BY GoodIs, ValueOfIs DEF Numbers!Size
<1>2. CASE Numbers!Size(x) < Numbers!Size(y)
  <2>1. Numbers!Sum(x, y) = Added(y, x)
    BY <1>2, Zenon DEF Numbers!Sum, Added
  <2>2. Len(x.words) <= Len(y.words) /\ Numbers!Exact(y, x)
    BY <1>1, <1>2 DEF Numbers!ExactSum
  <2>3. /\ Good(Added(y, x))
        /\ Numbers!ValueOf(Added(y, x)) = Numbers!ValueOf(y) + Numbers!ValueOf(x)
    BY <2>2, AddedIs
  <2> QED
    BY <1>1, <2>1, <2>3
<1>3. CASE ~ (Numbers!Size(x) < Numbers!Size(y))
  <2>1. Numbers!Sum(x, y) = Added(x, y)
    BY <1>3, Zenon DEF Numbers!Sum, Added
  <2>2. Len(y.words) <= Len(x.words) /\ Numbers!Exact(x, y)
    BY <1>1, <1>3 DEF Numbers!ExactSum
  <2>3. /\ Good(Added(x, y))
        /\ Numbers!ValueOf(Added(x, y)) = Numbers!ValueOf(x) + Numbers!ValueOf(y)
    BY <2>2, AddedIs
  <2> QED
    BY <2>1, <2>3
<1> QED
  BY <1>2, <1>3

\* The constructors.
LEMMA OneWord ==
    ASSUME DigitAssumption, NEW v \in Numbers!Word, v # 0, NEW bit \in {0, 1}
    PROVE  /\ Good(Numbers!Number(bit, <<v>>, 2))
           /\ Numbers!ValueOf(Numbers!Number(bit, <<v>>, 2)) = IF bit = 1 THEN - v ELSE v
           /\ Numbers!Magnitude(<<v>>) = v
<1> DEFINE w == <<v>>
           r == Numbers!Number(bit, w, 2)
<1>1. w \in Seq(Numbers!Word) /\ Len(w) = 1 /\ w[1] = v /\ w # <<>> /\ v \in Int
  BY BaseIs
<1>2. Numbers!Magnitude(w) = Value(w, 1)
  <2>1. Len(w) = 1
    BY <1>1
  <2> HIDE DEF w
  <2> QED
    BY <2>1, MagnitudeIs
<1> HIDE DEF w
<1>3. Value(w, 1) = v
  BY <1>1, ValueFew
<1>4. /\ w[Len(w)] # 0 /\ 2 \in Nat /\ Len(w) <= 2
  <2>1. w[1] # 0 /\ Len(w) = 1
    BY <1>1
  <2>2. w[Len(w)] = w[1]
    BY <2>1, Zenon
  <2> QED
    BY <2>1, <2>2
<1>5. Good(r) /\ r.sign = bit /\ r.words = w
  <2>1. w \in Seq(Numbers!Word) /\ bit \in {0, 1} /\ 2 \in Nat
    BY <1>1
  <2>2. w # <<>> => w[Len(w)] # 0
    BY <1>4
  <2>3. w = <<>> => bit = 0
    BY <1>1
  <2>4. Len(w) <= 2 /\ (Len(w) <= 2 <=> 2 = 2)
    BY <1>4
  <2> QED
    BY <2>1, <2>2, <2>3, <2>4, GoodMade
<1>6. Numbers!ValueOf(r) = IF bit = 1 THEN - v ELSE v
  BY <1>2, <1>3, <1>5 DEF Numbers!ValueOf
<1> QED
  BY <1>2, <1>3, <1>5, <1>6 DEF w

\* An integer made of a built-in number is that number.
LEMMA FromNumberIs ==
    ASSUME DigitAssumption, NEW k \in Numbers!Signed \union Numbers!Word
    PROVE  Good(Numbers!FromNumber(k)) /\ Numbers!ValueOf(Numbers!FromNumber(k)) = k
<1>1. PICK h \in Nat : /\ h = B \div 2 /\ B = 2 * h /\ h >= 2
                       /\ Numbers!Word = 0 .. B - 1 /\ Numbers!Signed = - h .. h - 1
  <2>1. /\ B \div 2 \in Nat /\ B = 2 * (B \div 2) /\ B >= 4 /\ B \in Nat
        /\ Numbers!Word = 0 .. B - 1 /\ Numbers!Signed = - (B \div 2) .. B \div 2 - 1
    BY BaseIs
  <2>2. PICK h \in Nat : h = B \div 2
    BY <2>1
  <2>3. B = 2 * h /\ h >= 2 /\ Numbers!Signed = - h .. h - 1
    BY <2>1, <2>2
  <2> QED
    BY <2>1, <2>2, <2>3
<1>2. k \in Int
  BY <1>1
<1>3. CASE k = 0
  <2>1. Numbers!FromNumber(k) = Numbers!Zero
    BY <1>3 DEF Numbers!FromNumber, Numbers!Zero
  <2> QED
    BY <1>3, <2>1, ZeroIs
<1>4. CASE k > 0
  <2>1. Numbers!FromNumber(k) = Numbers!Number(0, <<k>>, 2)
    BY <1>2, <1>4 DEF Numbers!FromNumber
  <2>2. k \in Numbers!Word /\ k # 0 /\ 0 \in {0, 1}
    BY <1>1, <1>2, <1>4
  <2>3. /\ Good(Numbers!Number(0, <<k>>, 2))
        /\ Numbers!ValueOf(Numbers!Number(0, <<k>>, 2)) = IF 0 = 1 THEN - k ELSE k
    BY <2>2, OneWord
  <2> QED
    BY <2>1, <2>3
<1>5. CASE k < 0
  <2>1. PICK v \in Int : v = - k /\ v > 0 /\ k = - v
    BY <1>2, <1>5
  <2>2. Numbers!FromNumber(k) = Numbers!Number(1, <<v>>, 2)
    BY <1>2, <1>5, <2>1 DEF Numbers!FromNumber
  <2>3. v \in Numbers!Word /\ v # 0 /\ 1 \in {0, 1}
    <3>1. v <= h /\ v \in Nat
      BY <1>1, <1>5, <2>1
    <3> QED
      BY <1>1, <2>1, <3>1
  <2>4. /\ Good(Numbers!Number(1, <<v>>, 2))
        /\ Numbers!ValueOf(Numbers!Number(1, <<v>>, 2)) = IF 1 = 1 THEN - v ELSE v
    BY <2>3, OneWord
  <2> QED
    BY <2>1, <2>2, <2>4
<1> QED
  BY <1>2, <1>3, <1>4, <1>5

\* An integer made of words, the last of them not 0, is worth these.
LEMMA FromWordsIs ==
    ASSUME DigitAssumption, NEW words \in Seq(Numbers!Word),
           Numbers!Canonical(Numbers!FromWords(words))
    PROVE  /\ Good(Numbers!FromWords(words))
           /\ Numbers!ValueOf(Numbers!FromWords(words)) = Numbers!Magnitude(words)
<1>1. PICK r : r = Numbers!FromWords(words)
  OBVIOUS
<1>2. CASE words = <<>>
  <2>1. r = Numbers!Zero
    <3>1. Numbers!FromWords(words) = CASE words = <<>> -> Numbers!Zero
                                       [] Len(words) = 1 -> Numbers!FromNumber(words[1])
                                       [] OTHER -> Numbers!Number(0, words, Numbers!RoomFor(words))
      BY Zenon DEF Numbers!FromWords
    <3>2. words = <<>> /\ ~ (Len(words) = 1)
      BY <1>2
    <3> QED
      BY <1>1, <3>1, <3>2, Zenon
  <2>2. Numbers!Magnitude(words) = 0
    BY <1>2, MagnitudeNat
  <2> QED
    BY <1>1, <2>1, <2>2, ZeroIs
<1>3. CASE Len(words) = 1
  <2>1. words # <<>> /\ words[1] \in Numbers!Word
    BY <1>3
  <2>2. r = Numbers!FromNumber(words[1])
    BY <1>1, <1>3, <2>1, Zenon DEF Numbers!FromWords
  <2>3. Good(r) /\ Numbers!ValueOf(r) = words[1]
    BY <2>1, <2>2, FromNumberIs
  <2>4. Numbers!Magnitude(words) = words[1]
    <3>1. Numbers!Magnitude(words) = Value(words, 1)
      <4>1. Numbers!Magnitude(words) = Value(words, Len(words))
        BY MagnitudeIs
      <4> QED
        BY <1>3, <4>1, Zenon
    <3>2. words[1] \in Int
      <4>1. \A v \in Numbers!Word : v \in Int
        BY BaseIs
      <4> QED
        BY <2>1, <4>1
    <3> QED
      BY <3>1, <3>2, ValueFew
  <2> QED
    BY <1>1, <2>3, <2>4
<1>4. CASE words # <<>> /\ Len(words) # 1
  <2>1. r = Numbers!Number(0, words, Numbers!RoomFor(words))
    BY <1>1, <1>4, Zenon DEF Numbers!FromWords
  <2>2. /\ Numbers!RoomFor(words) \in Nat /\ 0 \in {0, 1}
    BY DEF Numbers!RoomFor
  <2>3. /\ r \in [sign : {0, 1}, words : Seq(Numbers!Word), room : Nat]
        /\ r.sign = 0 /\ r.words = words
    BY <2>1, <2>2 DEF Numbers!Number
  <2>4. Good(r)
    BY <1>1, <2>3 DEF Good
  <2> QED
    BY <1>1, <2>3, <2>4 DEF Numbers!ValueOf
<1> QED
  BY <1>2, <1>3, <1>4

\* The products.
LEMMA ProductIs ==
    ASSUME DigitAssumption, NEW n, Good(n), NEW k \in Nat, 1 <= k, k < B
    PROVE  /\ Good(Numbers!SlowMul(Numbers!Copy(n), k))
           /\ Numbers!ValueOf(Numbers!SlowMul(Numbers!Copy(n), k)) = Numbers!ValueOf(n) * k
<1>1. PICK c : /\ c = Numbers!Copy(n) /\ Good(c)
               /\ c.sign = n.sign /\ c.words = n.words
  BY CopyIs
<1>2. PICK r : /\ r = Numbers!SlowMul(c, k) /\ Good(r) /\ r.sign = n.sign
               /\ Numbers!Magnitude(r.words) = Numbers!Magnitude(n.words) * k
  BY <1>1, SlowMulIs
<1>3. PICK M \in Nat : /\ M = Numbers!Magnitude(n.words)
                       /\ Numbers!ValueOf(n) = IF n.sign = 1 THEN - M ELSE M
  BY ValueOfIs
<1>4. PICK P \in Int : P = M * k
  OBVIOUS
<1>5. Numbers!ValueOf(r) = IF n.sign = 1 THEN - P ELSE P
  BY <1>2, <1>3, <1>4, ValueOfIs
<1>6. (- M) * k = - P
  BY <1>4
<1>7. Numbers!ValueOf(r) = Numbers!ValueOf(n) * k
  BY <1>3, <1>4, <1>5, <1>6
<1> QED
  BY <1>1, <1>2, <1>7

\* A product with an unsigned number.
LEMMA TimesUnsignedIs ==
    ASSUME DigitAssumption, NEW n, Good(n), NEW k \in Numbers!Word
    PROVE  /\ Good(Numbers!TimesUnsigned(n, k))
           /\ Numbers!ValueOf(Numbers!TimesUnsigned(n, k)) = Numbers!ValueOf(n) * k
<1>1. k \in Nat /\ k < B /\ Numbers!ValueOf(n) \in Int
  <2>1. Numbers!Word = 0 .. B - 1 /\ B \in Nat
    BY BaseIs
  <2>2. Numbers!ValueOf(n) \in Int
    BY ValueOfIs
  <2> QED
    BY <2>1, <2>2
<1>2. CASE k = 0
  <2>1. k # 1
    BY <1>2
  <2>2. Numbers!TimesUnsigned(n, k) = Numbers!Zero
    BY <1>2, <2>1, Zenon DEF Numbers!TimesUnsigned
  <2> QED
    BY <1>1, <1>2, <2>2, ZeroIs
<1>3. CASE k = 1
  <2>1. k # 0
    BY <1>3
  <2>2. Numbers!TimesUnsigned(n, k) = Numbers!Copy(n)
    BY <1>3, <2>1, Zenon DEF Numbers!TimesUnsigned
  <2> QED
    BY <1>1, <1>3, <2>2, CopyIs
<1>4. CASE k # 0 /\ k # 1
  <2>1. Numbers!TimesUnsigned(n, k) = Numbers!SlowMul(Numbers!Copy(n), k)
    BY <1>4, Zenon DEF Numbers!TimesUnsigned
  <2>2. 1 <= k
    BY <1>1, <1>4
  <2> QED
    BY <1>1, <2>1, <2>2, ProductIs
<1> QED
  BY <1>2, <1>3, <1>4

\* A product with a signed number of at least -1.
LEMMA TimesSignedIs ==
    ASSUME DigitAssumption, NEW n, Good(n), NEW k \in Numbers!Signed, k >= -1
    PROVE  /\ Good(Numbers!TimesSigned(n, k))
           /\ Numbers!ValueOf(Numbers!TimesSigned(n, k)) = Numbers!ValueOf(n) * k
<1>1. k \in Int /\ k < B /\ Numbers!ValueOf(n) \in Int /\ B \in Nat
  <2>1. PICK h \in Nat : B = 2 * h /\ Numbers!Signed = - h .. h - 1
    <3>1. PICK h : h = B \div 2
      OBVIOUS
    <3> QED
      BY <3>1, BaseIs
  <2>2. k \in - h .. h - 1
    BY <2>1
  <2>3. Numbers!ValueOf(n) \in Int
    BY ValueOfIs, Zenon
  <2> QED
    BY <2>1, <2>2, <2>3
<1>2. CASE k = 0
  <2>1. k # 1 /\ k # -1
    BY <1>2
  <2>2. Numbers!TimesSigned(n, k) = Numbers!Zero
    BY <1>2, <2>1, Zenon DEF Numbers!TimesSigned
  <2> QED
    BY <1>1, <1>2, <2>2, ZeroIs
<1>3. CASE k = 1
  <2>1. k # 0 /\ k # -1
    BY <1>3
  <2>2. Numbers!TimesSigned(n, k) = Numbers!Copy(n)
    BY <1>3, <2>1, Zenon DEF Numbers!TimesSigned
  <2> QED
    BY <1>1, <1>3, <2>2, CopyIs
<1>4. CASE k = -1
  <2>1. k # 0 /\ k # 1
    BY <1>4
  <2>2. Numbers!TimesSigned(n, k) = Numbers!Negated(Numbers!Copy(n))
    BY <1>4, <2>1, Zenon DEF Numbers!TimesSigned
  <2>3. Good(Numbers!Copy(n)) /\ Numbers!ValueOf(Numbers!Copy(n)) = Numbers!ValueOf(n)
    BY CopyIs
  <2>4. /\ Good(Numbers!Negated(Numbers!Copy(n)))
        /\ Numbers!ValueOf(Numbers!Negated(Numbers!Copy(n))) = - Numbers!ValueOf(n)
    BY <2>3, NegatedIs
  <2> QED
    BY <1>1, <1>4, <2>2, <2>4
<1>5. CASE k # 0 /\ k # 1 /\ k # -1
  <2>1. k \in Nat /\ 1 <= k /\ ~ (k < 0)
    BY <1>1, <1>5
  <2>2. k % B = k
    BY <1>1, <2>1
  <2>3. Numbers!TimesSigned(n, k) = Numbers!SlowMul(Numbers!Copy(n), k % B)
    BY <1>5, <2>1, Zenon DEF Numbers!TimesSigned, B
  <2> QED
    BY <1>1, <2>1, <2>2, <2>3, ProductIs
<1> QED
  BY <1>2, <1>3, <1>4, <1>5

\* A number that does not fit in one word has more words.
LEMMA ManyWords ==
    ASSUME DigitAssumption, NEW w \in Seq(Numbers!Word), Len(w) >= 2, w[Len(w)] # 0
    PROVE  Numbers!Magnitude(w) >= B
<1>1. PICK n \in Nat : n = Len(w) /\ n >= 2
  BY WordsAre
<1>2. /\ \A i \in 1 .. n : w[i] \in 0 .. B - 1 /\ w[i] \in Int /\ 0 <= w[i]
      /\ Numbers!Magnitude(w) = Value(w, n) /\ w[n] # 0 /\ n \in 1 .. n
  BY <1>1, WordsAre, MagnitudeNat
<1> DEFINE y == [i \in 1 .. n |-> IF i = 1 THEN B - 1 ELSE 0]
<1>3. /\ \A i \in 1 .. n : y[i] \in 0 .. B - 1 /\ y[i] = IF i = 1 THEN B - 1 ELSE 0
      /\ 1 \in 1 .. n /\ B - 1 \in Int /\ B \in Nat
  <2>1. B \in Nat /\ B >= 4
    BY BaseIs
  <2>2. B - 1 \in 0 .. B - 1 /\ 0 \in 0 .. B - 1
    BY <2>1
  <2> QED
    BY <1>1, <2>1, <2>2
<1> HIDE DEF y
<1>4. Value(y, n) = B - 1
  <2>1. 1 <= n /\ 1 \in Nat
    BY <1>1
  <2>2. \A i \in 1 .. 1 : y[i] \in Int /\ y[i] = y[i]
    <3>1. \A i \in 1 .. 1 : i = 1
      OBVIOUS
    <3>2. y[1] = B - 1
      BY <1>3
    <3> QED
      BY <1>3, <3>1, <3>2
  <2>3. \A i \in 1 .. n : i > 1 => y[i] = 0
    BY <1>3
  <2>4. Pads(y, n, y, 1)
    BY <2>1, <2>2, <2>3 DEF Pads
  <2>5. Value(y, n) = Value(y, 1)
    BY <2>1, <2>4, ValuePadded
  <2>6. y[1] = B - 1 /\ y[1] \in Int
    BY <1>3
  <2> QED
    BY <2>5, <2>6, ValueFew
<1>5. Value(y, n) < Value(w, n) /\ Value(w, n) \in Int
  <2>1. \A i \in 1 .. n : y[i] \in 0 .. B - 1 /\ w[i] \in 0 .. B - 1
    BY <1>2, <1>3
  <2>2. \A i \in 1 .. n : i > n => y[i] = w[i]
    BY <1>1
  <2>3. y[n] < w[n]
    <3>1. y[n] = 0
      BY <1>1, <1>2, <1>3
    <3> QED
      BY <1>2, <3>1
  <2> QED
    BY <1>2, <2>1, <2>2, <2>3, ValueLess
<1> QED
  BY <1>2, <1>3, <1>4, <1>5

\* The sign is the number's.
LEMMA SignRight ==
    ASSUME DigitAssumption, NEW n, Good(n)
    PROVE  /\ Numbers!sign(n) = "negative" <=> Numbers!ValueOf(n) < 0
           /\ Numbers!sign(n) = "zero" <=> Numbers!ValueOf(n) = 0
<1>1. PICK M \in Nat : /\ M = Numbers!Magnitude(n.words)
                       /\ Numbers!ValueOf(n) = IF n.sign = 1 THEN - M ELSE M
                       /\ n.words = <<>> => M = 0
                       /\ n.words # <<>> => M > 0
  BY ValueOfIs
<1>2. /\ n.sign \in {0, 1}
      /\ n.words = <<>> => n.sign = 0
      /\ n.words = <<>> <=> Len(n.words) = 0
  BY GoodIs
<1>3. CASE n.sign = 1
  <2>1. Numbers!sign(n) = "negative"
    BY <1>3 DEF Numbers!sign
  <2> QED
    BY <1>1, <1>2, <1>3, <2>1
<1>4. CASE n.sign = 0 /\ n.words = <<>>
  <2>1. Numbers!sign(n) = "zero"
    BY <1>2, <1>4 DEF Numbers!sign, Numbers!Size
  <2> QED
    BY <1>1, <1>4, <2>1
<1>5. CASE n.sign = 0 /\ n.words # <<>>
  <2>1. Numbers!sign(n) = "positive"
    BY <1>2, <1>5 DEF Numbers!sign, Numbers!Size
  <2> QED
    BY <1>1, <1>5, <2>1
<1> QED
  BY <1>2, <1>3, <1>4, <1>5

\* A number that fits is cast to itself, but for the lowest.
LEMMA CastRight ==
    ASSUME DigitAssumption, NEW n, Good(n), Numbers!ValueOf(n) \in Numbers!Signed,
           Numbers!ValueOf(n) # - (Numbers!Base \div 2)
    PROVE  Numbers!ToSigned(n) = {Numbers!ValueOf(n)}
<1>1. PICK h \in Nat : /\ h = B \div 2 /\ B = 2 * h /\ h >= 2
                       /\ Numbers!Signed = - h .. h - 1
  <2>1. /\ B \div 2 \in Nat /\ B = 2 * (B \div 2) /\ B >= 4 /\ B \in Nat
        /\ Numbers!Signed = - (B \div 2) .. B \div 2 - 1
    BY BaseIs
  <2>2. PICK h \in Nat : h = B \div 2
    BY <2>1
  <2>3. B = 2 * h /\ h >= 2 /\ Numbers!Signed = - h .. h - 1
    BY <2>1, <2>2
  <2> QED
    BY <2>2, <2>3
<1>2. PICK M \in Nat : /\ M = Numbers!Magnitude(n.words)
                       /\ Numbers!ValueOf(n) = IF n.sign = 1 THEN - M ELSE M
                       /\ n.words = <<>> => M = 0
  BY ValueOfIs
<1>3. /\ n.sign \in {0, 1}
      /\ n.words = <<>> => n.sign = 0
      /\ n.words = <<>> <=> Len(n.words) = 0
      /\ Len(n.words) \in Nat /\ n.words \in Seq(Numbers!Word)
      /\ n.words # <<>> => n.words[Len(n.words)] # 0
  BY GoodIs
<1>4. M < h
  <2>1. PICK v \in Int : /\ v = Numbers!ValueOf(n) /\ v > - h /\ v < h
    BY <1>1 DEF B
  <2>2. v = IF n.sign = 1 THEN - M ELSE M
    BY <1>2, <2>1
  <2> QED
    BY <2>1, <2>2
<1>5. M < B
  BY <1>1, <1>3, <1>4
<1>6. Len(n.words) <= 1
  <2>1. Len(n.words) >= 2 => M >= B
    BY <1>2, <1>3, ManyWords
  <2> QED
    BY <1>1, <1>3, <1>5, <2>1
<1>7. PICK word \in Nat : /\ word = IF Numbers!Size(n) = 0 THEN 0 ELSE n.words[1]
                          /\ word = M
  <2>1. CASE n.words = <<>>
    BY <1>2, <1>3, <2>1 DEF Numbers!Size
  <2>2. CASE n.words # <<>>
    <3>1. Len(n.words) = 1
      <4>1. PICK l \in Nat : l = Len(n.words)
        BY <1>3
      <4>2. l # 0 /\ l <= 1
        BY <1>3, <1>6, <2>2, <4>1
      <4>3. l = 1
        BY <4>2
      <4> QED
        BY <4>1, <4>3
    <3>2. M = Value(n.words, 1)
      <4>1. M = Value(n.words, Len(n.words))
        BY <1>2, MagnitudeIs
      <4> QED
        BY <3>1, <4>1, Zenon
    <3>3. n.words[1] \in Int
      BY <1>3, <3>1, WordsAre
    <3>4. M = n.words[1]
      BY <3>2, <3>3, ValueFew
    <3>5. Numbers!Size(n) = 1
      BY <3>1 DEF Numbers!Size
    <3> QED
      BY <3>4, <3>5
  <2> QED
    BY <2>1, <2>2
<1> DEFINE words == CASE Numbers!Size(n) = 0 -> {0}
                      [] Numbers!Size(n) \in {1, 2} -> {n.words[1]}
                      [] OTHER -> Numbers!Word
           low == {IF w >= h THEN w - B ELSE w : w \in words}
<1>8. words = {word}
  <2>1. Numbers!Size(n) = 0 \/ Numbers!Size(n) = 1
    <3>1. PICK l \in Nat : l = Numbers!Size(n) /\ l <= 1
      BY <1>3, <1>6 DEF Numbers!Size
    <3>2. \A k \in Nat : k <= 1 => k = 0 \/ k = 1
      OBVIOUS
    <3> QED
      BY <3>1, <3>2, Zenon
  <2>2. CASE Numbers!Size(n) = 0
    <3>1. Numbers!Size(n) \notin {1, 2} /\ word = 0
      BY <1>7, <2>2
    <3> QED
      BY <2>2, <3>1
  <2>3. CASE Numbers!Size(n) = 1
    <3>1. Numbers!Size(n) \in {1, 2} /\ Numbers!Size(n) # 0 /\ word = n.words[1]
      BY <1>7, <2>3
    <3> QED
      BY <3>1
  <2> QED
    BY <2>1, <2>2, <2>3
<1>9. Numbers!ToSigned(n) = IF n.sign = 0 THEN low
                            ELSE IF - h \in low THEN Numbers!Signed ELSE {- l : l \in low}
  BY <1>1, Zenon DEF Numbers!ToSigned, B
<1> HIDE DEF words
<1>10. low = {M} /\ - h \notin low
  BY <1>1, <1>4, <1>7, <1>8
<1> HIDE DEF low
<1> QED
  BY <1>1, <1>2, <1>3, <1>9, <1>10

\* The order of magnitudes: by the words there are, then by the uppermost that
\* differ.
LEMMA MagnitudesByLength ==
    ASSUME DigitAssumption, NEW x \in Seq(Numbers!Word), NEW y \in Seq(Numbers!Word),
           Len(x) < Len(y), y[Len(y)] # 0
    PROVE  Numbers!Magnitude(x) < Numbers!Magnitude(y)
<1>1. PICK m \in Nat, n \in Nat : m = Len(x) /\ n = Len(y) /\ m < n /\ n >= 1
  BY WordsAre
<1>2. /\ \A i \in 1 .. n : y[i] \in 0 .. B - 1 /\ y[i] \in Int /\ 0 <= y[i]
      /\ Numbers!Magnitude(y) = Value(y, n) /\ y[n] # 0 /\ n \in 1 .. n
  BY <1>1, WordsAre, MagnitudeNat
<1>3. PICK p : /\ \A i \in 1 .. n : /\ p[i] = Padded(x, i)
                                    /\ p[i] \in Int /\ 0 <= p[i] /\ p[i] < B
               /\ Value(p, n) = Numbers!Magnitude(x)
  <2>1. Len(x) <= n
    BY <1>1
  <2> QED
    BY <2>1, PaddedIs
<1>4. Value(p, n) < Value(y, n)
  <2>1. \A i \in 1 .. n : p[i] \in 0 .. B - 1 /\ y[i] \in 0 .. B - 1
    <3>1. B \in Nat
      BY BaseIs
    <3> QED
      BY <1>2, <1>3, <3>1
  <2>2. \A i \in 1 .. n : i > n => p[i] = y[i]
    BY <1>1
  <2>3. p[n] < y[n]
    <3>1. p[n] = 0
      BY <1>1, <1>2, <1>3 DEF Padded
    <3> QED
      BY <1>2, <3>1
  <2> QED
    BY <1>2, <2>1, <2>2, <2>3, ValueLess
<1> QED
  BY <1>2, <1>3, <1>4

\* Of two words B * B is the limit.
LEMMA FewWords ==
    ASSUME DigitAssumption, NEW n, Good(n),
           - (B * B) < Numbers!ValueOf(n), Numbers!ValueOf(n) < B * B
    PROVE  Numbers!Size(n) <= 2
<1>1. PICK M \in Nat : /\ M = Numbers!Magnitude(n.words)
                       /\ Numbers!ValueOf(n) = IF n.sign = 1 THEN - M ELSE M
  BY ValueOfIs
<1>2. /\ n.words \in Seq(Numbers!Word) /\ Len(n.words) \in Nat
      /\ n.words # <<>> => n.words[Len(n.words)] # 0
      /\ n.words = <<>> <=> Len(n.words) = 0
  BY GoodIs
<1>3. B \in Nat /\ B >= 4 /\ Numbers!Word = 0 .. B - 1 /\ B - 1 \in Numbers!Word
  <2>1. B \in Nat /\ B >= 4 /\ Numbers!Word = 0 .. B - 1
    BY BaseNat, Zenon
  <2>2. B - 1 \in 0 .. B - 1
    BY <2>1
  <2> QED
    BY <2>1, <2>2
<1>4. PICK S \in Nat : S = B * B
  BY <1>3
<1>5. M < S
  BY <1>1, <1>4
<1> SUFFICES ASSUME Len(n.words) > 2 PROVE FALSE
  BY <1>2 DEF Numbers!Size
<1> DEFINE most == <<B - 1, B - 1>>
<1>6. /\ most \in Seq(Numbers!Word) /\ Len(most) = 2
      /\ most[1] = B - 1 /\ most[2] = B - 1
  BY <1>3
<1> HIDE DEF most
<1>7. Numbers!Magnitude(most) = S - 1
  <2>1. PICK f \in [0 .. 2 -> Int] : Uppers(f, most, 2) /\ Value(most, 2) = f[2]
    <3>1. \A i \in 1 .. 2 : i = 1 \/ i = 2
      OBVIOUS
    <3>2. 2 \in Nat /\ \A i \in 1 .. 2 : most[i] \in Int
      BY <1>3, <1>6, <3>1
    <3> QED
      BY <3>2, UppersExist, Zenon
  <2>2. /\ 1 \in 1 .. 2 /\ 2 \in 1 .. 2 /\ 1 - 1 = 0 /\ 2 - 1 = 1
        /\ (2 + 1) - 1 = 2 /\ (2 + 1) - 2 = 1
    OBVIOUS
  <2>3. f[1] = 0 * B + (B - 1) /\ f[2] = f[1] * B + (B - 1)
    BY <1>6, <2>1, <2>2 DEF Uppers
  <2>4. f[1] = B - 1
    BY <1>3, <2>3
  <2>5. f[2] = (B - 1) * B + (B - 1)
    BY <2>3, <2>4
  <2>6. (B - 1) * B + (B - 1) = S - 1
    BY <1>3, <1>4
  <2>7. Numbers!Magnitude(most) = Value(most, 2)
    BY <1>6, MagnitudeNat
  <2> QED
    BY <2>1, <2>5, <2>6, <2>7
<1>8. Numbers!Magnitude(most) < Numbers!Magnitude(n.words)
  <2>1. n.words[Len(n.words)] # 0 /\ Len(most) < Len(n.words)
    BY <1>2, <1>6
  <2> QED
    BY <1>2, <1>6, <2>1, MagnitudesByLength
<1> QED
  BY <1>1, <1>4, <1>5, <1>7, <1>8

\* The sign bit of a good number.
LEMMA SignIs ==
    ASSUME DigitAssumption, NEW n, Good(n)
    PROVE  /\ n.sign = 0 <=> Numbers!ValueOf(n) >= 0
           /\ Numbers!Size(n) = 0 <=> Numbers!ValueOf(n) = 0
<1>1. PICK M \in Nat : /\ M = Numbers!Magnitude(n.words)
                       /\ Numbers!ValueOf(n) = IF n.sign = 1 THEN - M ELSE M
                       /\ n.words = <<>> => M = 0
                       /\ n.words # <<>> => M > 0
  BY ValueOfIs
<1>2. /\ n.sign \in {0, 1} /\ Numbers!Size(n) = Len(n.words)
      /\ n.words = <<>> => n.sign = 0
      /\ n.words = <<>> <=> Len(n.words) = 0
  BY GoodIs DEF Numbers!Size
<1> QED
  BY <1>1, <1>2

\* Numbers that are alike in sign are added as they should.
LEMMA AlikeAdd ==
    ASSUME DigitAssumption, NEW m, NEW n, Good(m), Good(n),
           Numbers!Arithmetic!Alike(Numbers!ValueOf(m), Numbers!ValueOf(n))
    PROVE  Numbers!ExactSum(m, n)
<1>1. /\ m.sign \in {0, 1} /\ n.sign \in {0, 1}
      /\ Numbers!ValueOf(m) \in Int /\ Numbers!ValueOf(n) \in Int
      /\ Numbers!Size(m) \in Nat /\ Numbers!Size(n) \in Nat
  BY GoodIs, ValueOfIs DEF Numbers!Size
<1>2. \/ m.sign = n.sign
      \/ Numbers!Size(m) = 0
      \/ Numbers!Size(n) = 0
  BY <1>1, SignIs DEF Numbers!Arithmetic!Alike
<1>3. Numbers!Size(m) < Numbers!Size(n) => Numbers!Exact(n, m)
  BY <1>1, <1>2 DEF Numbers!Exact
<1>4. ~ (Numbers!Size(m) < Numbers!Size(n)) => Numbers!Exact(m, n)
  BY <1>1, <1>2 DEF Numbers!Exact
<1> QED
  BY <1>3, <1>4 DEF Numbers!ExactSum

\* The invariant: every object that is sure holds a number in its one
\* representation.
NumbersInv ==
    /\ rep = [x \in Objects |-> rep[x]] /\ sure \subseteq Objects
    /\ refused \in BOOLEAN /\ numberCalls \in 0 .. 3
    /\ \A x \in sure : Good(rep[x])

\* What the objects stand for.
Worth == [x \in Objects |-> Numbers!ValueOf(rep[x])]

\* A call is recorded as the specification records it.
LEMMA CalledIs ==
    ASSUME NumbersInv, NEW op, NEW x, NEW y, NEW n, Numbers!Called(op, x, y, n)
    PROVE  /\ numberCalls' \in 0 .. 3
           /\ Numbers!Arithmetic!Called(op, x, y, n)
           /\ Numbers!Arithmetic!Given = n
<1>1. numberCalls' \in 0 .. 3
  BY DEF NumbersInv, Numbers!Called
<1>2. call' = [op |-> op, to |-> x, of |-> y, by |-> n]
  BY DEF Numbers!Called
<1>3. call' # <<>>
  BY <1>2
<1>4. call'.by = n
  BY <1>2
<1> QED
  BY <1>1, <1>2, <1>3, <1>4
  DEF Numbers!Arithmetic!Called, Numbers!Arithmetic!Given

\* A store changes one object, which is sure of its number only if the call is
\* exact and the objects it comes from are sure.
LEMMA StoredIs ==
    ASSUME NumbersInv, NEW x \in Objects, NEW n, NEW exact \in BOOLEAN,
           Numbers!Stores(x, n, exact), numberCalls' \in 0 .. 3,
           NEW of, NEW v, NEW keeps \in BOOLEAN,
           exact => Good(n) /\ of \subseteq sure /\ Numbers!ValueOf(n) = v,
           keeps /\ of \subseteq sure => exact
    PROVE  NumbersInv' /\ Numbers!Arithmetic!Stores(x, of, v, keeps)
<1>1. /\ rep' = [rep EXCEPT ![x] = n] /\ refused' = refused
      /\ sure' = IF exact THEN sure \union {x} ELSE sure \ {x}
  BY DEF Numbers!Stores, Numbers!Sure
<1>2. /\ \A z \in Objects : rep'[z] = IF z = x THEN n ELSE rep[z]
      /\ rep' = [z \in Objects |-> rep'[z]]
  BY <1>1 DEF NumbersInv
<1>3. /\ sure' \subseteq Objects
      /\ x \in sure' <=> exact
      /\ \A z \in Objects \ {x} : z \in sure' <=> z \in sure
  BY <1>1 DEF NumbersInv
<1>4. \A z \in sure' : Good(rep'[z])
  BY <1>2, <1>3 DEF NumbersInv
<1>5. NumbersInv'
  BY <1>1, <1>2, <1>3, <1>4 DEF NumbersInv
<1>6. /\ Worth' = [z \in Objects |-> Worth'[z]]
      /\ Worth'[x] = Numbers!ValueOf(n)
      /\ \A z \in Objects \ {x} : Worth'[z] = Worth[z]
  BY <1>2 DEF Worth
<1>7. /\ x \in sure' => of \subseteq sure /\ Worth'[x] = v
      /\ keeps /\ of \subseteq sure => x \in sure'
  BY <1>3, <1>6
<1> QED
  BY <1>3, <1>5, <1>6, <1>7
  DEF Numbers!Arithmetic!Stores, Numbers!Arithmetic!Becomes, Numbers!Arithmetic!Others, Worth

\* A call that is refused changes no object.
LEMMA AbortIs ==
    ASSUME NumbersInv, Numbers!Abort
    PROVE  NumbersInv' /\ UNCHANGED Numbers!Arithmetic!vars
<1>1. /\ rep' = rep /\ call' = call /\ sure' = sure /\ refused' = TRUE
      /\ numberCalls' = numberCalls + 1 /\ numberCalls < 3
  BY DEF Numbers!Abort
<1> QED
  BY <1>1 DEF NumbersInv, Numbers!Arithmetic!vars

\* The calls, one by one.
LEMMA ConstructStep ==
    ASSUME DigitAssumption, NumbersInv, NEW x \in Objects, Numbers!Construct(x)
    PROVE  NumbersInv' /\ Numbers!Arithmetic!Construct(x)
<1>1. PICK n \in Numbers!Signed \union Numbers!Word :
         /\ Numbers!Called("construct", x, x, n)
         /\ Numbers!Stores(x, Numbers!FromNumber(n), TRUE)
  BY DEF Numbers!Construct
<1>2. Good(Numbers!FromNumber(n)) /\ Numbers!ValueOf(Numbers!FromNumber(n)) = n
  BY FromNumberIs
<1>3. /\ numberCalls' \in 0 .. 3 /\ Numbers!Arithmetic!Given = n
      /\ Numbers!Arithmetic!Called("construct", x, x, n)
  BY <1>1, CalledIs
<1>4. NumbersInv' /\ Numbers!Arithmetic!Stores(x, {}, n, TRUE)
  <2>1. {} \subseteq sure /\ TRUE \in BOOLEAN
    OBVIOUS
  <2> QED
    BY <1>1, <1>2, <1>3, <2>1, StoredIs
<1>5. n \in Int
  BY <1>2, ValueOfIs
<1> QED
  BY <1>3, <1>4, <1>5 DEF Numbers!Arithmetic!Construct

\* What integer() leaves is 0, or nothing that is sure.
LEMMA ConstructDefaultStep ==
    ASSUME DigitAssumption, NumbersInv, NEW x \in Objects, Numbers!ConstructDefault(x)
    PROVE  NumbersInv' /\ Numbers!Arithmetic!ConstructDefault(x)
<1>1. PICK bit \in {0, 1} :
         /\ Numbers!Called("default", x, x, 0)
         /\ Numbers!Stores(x, Numbers!Number(bit, <<>>, 2), bit = 0)
  BY DEF Numbers!ConstructDefault
<1> DEFINE exact == bit = 0
<1>2. exact \in BOOLEAN /\ {} \subseteq sure /\ FALSE \in BOOLEAN
  OBVIOUS
<1>3. exact => /\ Good(Numbers!Number(bit, <<>>, 2))
               /\ Numbers!ValueOf(Numbers!Number(bit, <<>>, 2)) = 0
  BY ZeroIs DEF Numbers!Zero
<1>4. numberCalls' \in 0 .. 3 /\ Numbers!Arithmetic!Called("default", x, x, 0)
  BY <1>1, CalledIs
<1>5. Numbers!Stores(x, Numbers!Number(bit, <<>>, 2), exact)
  BY <1>1
<1> HIDE DEF exact
<1>6. NumbersInv' /\ Numbers!Arithmetic!Stores(x, {}, 0, FALSE)
  BY <1>2, <1>3, <1>4, <1>5, StoredIs
<1> QED
  BY <1>4, <1>6 DEF Numbers!Arithmetic!ConstructDefault

\* from_words constructs an integer, if the last word is not 0.
LEMMA FromWordsStep ==
    ASSUME DigitAssumption, NumbersInv, NEW x \in Objects, Numbers!ConstructFromWords(x)
    PROVE  NumbersInv' /\ Numbers!Arithmetic!ConstructFromWords(x)
<1>1. PICK many \in 0 .. MaxWords : \E words \in [1 .. many -> Numbers!Word] :
         /\ Numbers!Called("from_words", x, x, Numbers!Magnitude(words))
         /\ Numbers!Stores(x, Numbers!FromWords(words),
                           Numbers!Canonical(Numbers!FromWords(words)))
  BY DEF Numbers!ConstructFromWords
<1>2. PICK words \in [1 .. many -> Numbers!Word] :
         /\ Numbers!Called("from_words", x, x, Numbers!Magnitude(words))
         /\ Numbers!Stores(x, Numbers!FromWords(words),
                           Numbers!Canonical(Numbers!FromWords(words)))
  BY <1>1
<1>3. words \in Seq(Numbers!Word)
  BY <1>1, <1>2
<1>4. PICK m \in Int : m = Numbers!Magnitude(words)
  BY <1>3, MagnitudeNat
<1> DEFINE exact == Numbers!Canonical(Numbers!FromWords(words))
<1>5. exact \in BOOLEAN /\ {} \subseteq sure /\ FALSE \in BOOLEAN
  BY DEF Numbers!Canonical
<1>6. exact => /\ Good(Numbers!FromWords(words))
               /\ Numbers!ValueOf(Numbers!FromWords(words)) = m
  BY <1>3, <1>4, FromWordsIs
<1>7. /\ numberCalls' \in 0 .. 3 /\ Numbers!Arithmetic!Given = m
      /\ Numbers!Arithmetic!Called("from_words", x, x, m)
  BY <1>2, <1>4, CalledIs
<1>8. Numbers!Stores(x, Numbers!FromWords(words), exact)
  BY <1>2
<1> HIDE DEF exact
<1>9. NumbersInv' /\ Numbers!Arithmetic!Stores(x, {}, m, FALSE)
  BY <1>5, <1>6, <1>7, <1>8, StoredIs
<1> QED
  BY <1>7, <1>9 DEF Numbers!Arithmetic!ConstructFromWords

\* A copy that is assigned is the number that was copied, if it fits.
LEMMA AssignStep ==
    ASSUME DigitAssumption, NumbersInv, NEW x \in Objects, NEW y \in Objects,
           Numbers!CopyAssign(x, y)
    PROVE  NumbersInv' /\ Numbers!Arithmetic!Assign(x, y)
<1> DEFINE exact == y \in sure /\ Numbers!Size(rep[y]) <= 2
           keeps == - (Numbers!Base * Numbers!Base) < Worth[y]
                    /\ Worth[y] < Numbers!Base * Numbers!Base
<1>1. PICK words \in Numbers!Copied(rep[y].words) :
         /\ Numbers!Called("assign", x, y, 0)
         /\ Numbers!Stores(x, Numbers!Copy([rep[y] EXCEPT !.words = words]), exact)
  BY DEF Numbers!CopyAssign
<1>2. PICK n : n = Numbers!Copy([rep[y] EXCEPT !.words = words])
  OBVIOUS
<1>3. Worth[y] = Numbers!ValueOf(rep[y])
  BY DEF Worth
<1>4. exact => Good(n) /\ {y} \subseteq sure /\ Numbers!ValueOf(n) = Worth[y]
  <2> SUFFICES ASSUME exact
               PROVE  Good(n) /\ {y} \subseteq sure /\ Numbers!ValueOf(n) = Worth[y]
    OBVIOUS
  <2>1. /\ Good(rep[y])
        /\ rep[y] \in [sign : {0, 1}, words : Seq(Numbers!Word), room : Nat]
    BY DEF NumbersInv, Good
  <2>2. words = rep[y].words
    BY <1>1 DEF Numbers!Copied, Numbers!Size
  <2>3. [rep[y] EXCEPT !.words = words] = rep[y]
    BY <2>1, <2>2
  <2>4. n = Numbers!Copy(rep[y])
    BY <1>2, <2>3
  <2> QED
    BY <1>3, <2>1, <2>4, CopyIs
<1>5. keeps /\ {y} \subseteq sure => exact
  <2> SUFFICES ASSUME keeps, y \in sure PROVE Numbers!Size(rep[y]) <= 2
    OBVIOUS
  <2>1. Good(rep[y])
    BY DEF NumbersInv
  <2> HIDE DEF keeps
  <2>2. - (B * B) < Numbers!ValueOf(rep[y]) /\ Numbers!ValueOf(rep[y]) < B * B
    BY <1>3 DEF keeps, B
  <2> QED
    BY <2>1, <2>2, FewWords
<1>6. numberCalls' \in 0 .. 3 /\ Numbers!Arithmetic!Called("assign", x, y, 0)
  BY <1>1, CalledIs
<1>7. exact \in BOOLEAN /\ keeps \in BOOLEAN
  OBVIOUS
<1>8. Numbers!Stores(x, n, exact)
  BY <1>1, <1>2
<1> HIDE DEF exact, keeps
<1>9. NumbersInv' /\ Numbers!Arithmetic!Stores(x, {y}, Worth[y], keeps)
  BY <1>4, <1>5, <1>6, <1>7, <1>8, StoredIs
<1> QED
  BY <1>6, <1>9 DEF Numbers!Arithmetic!Assign, Worth, keeps

\* A move takes the number and leaves 0, if the sign was that of 0.
LEMMA MoveStep ==
    ASSUME DigitAssumption, NumbersInv, NEW x \in Objects, NEW y \in Objects,
           Numbers!MoveAssign(x, y)
    PROVE  NumbersInv' /\ Numbers!Arithmetic!Move(x, y)
<1> DEFINE left == Numbers!Number(rep[y].sign, <<>>, 2)
<1>1. /\ Numbers!Called("move", x, y, 0) /\ refused' = refused
      /\ rep' = [rep EXCEPT ![x] = rep[y], ![y] = left]
      /\ sure' = {z \in Objects : IF z = y THEN x # y /\ rep[y].sign = 0
                                  ELSE IF z = x THEN y \in sure ELSE z \in sure}
  BY DEF Numbers!MoveAssign
<1>2. numberCalls' \in 0 .. 3 /\ Numbers!Arithmetic!Called("move", x, y, 0)
  BY <1>1, CalledIs
<1>3. y \in sure' => left = Numbers!Zero
  BY <1>1 DEF Numbers!Zero
<1> HIDE DEF left
<1>4. /\ rep' = [z \in Objects |-> rep'[z]]
      /\ \A z \in Objects : rep'[z] = IF z = y THEN left ELSE IF z = x THEN rep[y] ELSE rep[z]
  BY <1>1 DEF NumbersInv
<1>5. \A z \in sure' : z \in Objects /\ Good(rep'[z])
  <2> SUFFICES ASSUME NEW z \in sure' PROVE z \in Objects /\ Good(rep'[z])
    OBVIOUS
  <2>1. z \in Objects
    BY <1>1
  <2>2. CASE z = y
    BY <1>3, <1>4, <2>1, <2>2, ZeroIs
  <2>3. CASE z # y
    BY <1>1, <1>4, <2>1, <2>3 DEF NumbersInv
  <2> QED
    BY <2>1, <2>2, <2>3
<1>6. NumbersInv'
  BY <1>1, <1>2, <1>4, <1>5 DEF NumbersInv
<1>7. /\ Worth' = [z \in Objects |-> Worth'[z]]
      /\ \A z \in Objects : Worth'[z] = IF z = y THEN Numbers!ValueOf(left)
                                        ELSE IF z = x THEN Worth[y] ELSE Worth[z]
  BY <1>4 DEF Worth
<1>8. /\ sure' \subseteq Objects
      /\ \A z \in Objects \ {x, y} : Worth'[z] = Worth[z] /\ (z \in sure' <=> z \in sure)
  BY <1>1, <1>7
<1>9. x # y => /\ x \in sure' => {y} \subseteq sure /\ Worth'[x] = Worth[y]
               /\ TRUE /\ {y} \subseteq sure => x \in sure'
  BY <1>1, <1>7
<1>10. /\ y \in sure' => {} \subseteq sure /\ Worth'[y] = 0
       /\ (x # y /\ y \in sure /\ Worth[y] >= 0) /\ {} \subseteq sure => y \in sure'
  <2>1. y \in sure' => Worth'[y] = 0
    BY <1>3, <1>7, ZeroIs
  <2>2. ASSUME x # y, y \in sure, Worth[y] >= 0 PROVE y \in sure'
    <3>1. Good(rep[y]) /\ Numbers!ValueOf(rep[y]) >= 0
      BY <2>2 DEF NumbersInv, Worth
    <3>2. rep[y].sign = 0
      BY <3>1, SignIs
    <3> QED
      BY <1>1, <2>2, <3>2
  <2> QED
    BY <2>1, <2>2
<1> QED
  BY <1>2, <1>6, <1>7, <1>8, <1>9, <1>10
  DEF Numbers!Arithmetic!Move, Numbers!Arithmetic!Becomes, Numbers!Arithmetic!Others, Worth

\* An addition, of numbers of one sign or careful of the last word.
LEMMA AddStep ==
    ASSUME DigitAssumption, NumbersInv, NEW x \in Objects, NEW y \in Objects,
           NEW z \in Objects, Numbers!Add(x, y, z)
    PROVE  /\ NumbersInv'
           /\ Numbers!Arithmetic!Add(x, y, z) \/ UNCHANGED Numbers!Arithmetic!vars
<1> DEFINE exact == {y, z} \subseteq sure /\ Numbers!ExactSum(rep[y], rep[z])
           keeps == Numbers!Arithmetic!Alike(Worth[y], Worth[z])
           sum == Numbers!Sum(rep[y], rep[z])
<1>1. CASE Numbers!RefusedSum(rep[y], rep[z]) \/ Numbers!RefusedSum(rep[z], rep[y])
  <2>1. Numbers!Abort
    BY <1>1 DEF Numbers!Add
  <2> QED
    BY <2>1, AbortIs
<1>2. CASE ~ (Numbers!RefusedSum(rep[y], rep[z]) \/ Numbers!RefusedSum(rep[z], rep[y]))
  <2>1. Numbers!Called("add", x, y, z) /\ Numbers!Stores(x, sum, exact)
    BY <1>2 DEF Numbers!Add
  <2>2. Worth[y] = Numbers!ValueOf(rep[y]) /\ Worth[z] = Numbers!ValueOf(rep[z])
    BY DEF Worth
  <2>3. exact => Good(sum) /\ {y, z} \subseteq sure
                 /\ Numbers!ValueOf(sum) = Worth[y] + Worth[z]
    BY <2>2, SumIs DEF NumbersInv
  <2>4. keeps /\ {y, z} \subseteq sure => exact
    <3> SUFFICES ASSUME keeps, y \in sure, z \in sure
                 PROVE  Numbers!ExactSum(rep[y], rep[z])
      OBVIOUS
    <3>1. Good(rep[y]) /\ Good(rep[z])
      BY DEF NumbersInv
    <3>2. Numbers!Arithmetic!Alike(Numbers!ValueOf(rep[y]), Numbers!ValueOf(rep[z]))
      BY <2>2
    <3> QED
      BY <3>1, <3>2, AlikeAdd
  <2>5. numberCalls' \in 0 .. 3 /\ Numbers!Arithmetic!Called("add", x, y, z)
    BY <2>1, CalledIs
  <2>6. exact \in BOOLEAN /\ keeps \in BOOLEAN
    BY DEF Numbers!Arithmetic!Alike
  <2> HIDE DEF exact, keeps, sum
  <2>7. NumbersInv' /\ Numbers!Arithmetic!Stores(x, {y, z}, Worth[y] + Worth[z], keeps)
    BY <2>1, <2>3, <2>4, <2>5, <2>6, StoredIs
  <2> QED
    BY <2>5, <2>7 DEF Numbers!Arithmetic!Add, Worth, keeps
<1> QED
  BY <1>1, <1>2

\* A negation.
LEMMA NegateStep ==
    ASSUME DigitAssumption, NumbersInv, NEW x \in Objects, NEW y \in Objects,
           Numbers!Negate(x, y)
    PROVE  NumbersInv' /\ Numbers!Arithmetic!Negate(x, y)
<1> DEFINE exact == y \in sure
           n == Numbers!Negated(Numbers!Copy(rep[y]))
<1>1. Numbers!Called("negate", x, y, 0) /\ Numbers!Stores(x, n, exact)
  BY DEF Numbers!Negate
<1>2. Worth[y] = Numbers!ValueOf(rep[y])
  BY DEF Worth
<1>3. exact => Good(n) /\ {y} \subseteq sure /\ Numbers!ValueOf(n) = - Worth[y]
  <2> SUFFICES ASSUME y \in sure PROVE Good(n) /\ Numbers!ValueOf(n) = - Worth[y]
    OBVIOUS
  <2>1. /\ Good(Numbers!Copy(rep[y]))
        /\ Numbers!ValueOf(Numbers!Copy(rep[y])) = Numbers!ValueOf(rep[y])
    BY CopyIs DEF NumbersInv
  <2> QED
    BY <1>2, <2>1, NegatedIs
<1>4. numberCalls' \in 0 .. 3 /\ Numbers!Arithmetic!Called("negate", x, y, 0)
  BY <1>1, CalledIs
<1>5. exact \in BOOLEAN /\ TRUE \in BOOLEAN /\ (TRUE /\ {y} \subseteq sure => exact)
  OBVIOUS
<1> HIDE DEF exact, n
<1>6. NumbersInv' /\ Numbers!Arithmetic!Stores(x, {y}, - Worth[y], TRUE)
  BY <1>1, <1>3, <1>4, <1>5, StoredIs
<1> QED
  BY <1>4, <1>6 DEF Numbers!Arithmetic!Negate, Worth

\* An increment in place adds 1 or aborts.
LEMMA IncrementStep ==
    ASSUME DigitAssumption, NumbersInv, NEW x \in Objects, Numbers!Increment(x)
    PROVE  /\ NumbersInv'
           /\ Numbers!Arithmetic!Increment(x) \/ UNCHANGED Numbers!Arithmetic!vars
<1> DEFINE exact == x \in sure
           n == Numbers!Incremented(rep[x])
<1>1. CASE Numbers!RefusedIncrement(rep[x])
  <2>1. Numbers!Abort
    BY <1>1 DEF Numbers!Increment
  <2> QED
    BY <2>1, AbortIs
<1>2. CASE ~ Numbers!RefusedIncrement(rep[x])
  <2>1. Numbers!Called("increment", x, x, 0) /\ Numbers!Stores(x, n, exact)
    BY <1>2 DEF Numbers!Increment
  <2>2. Worth[x] = Numbers!ValueOf(rep[x])
    BY DEF Worth
  <2>3. exact => Good(n) /\ {x} \subseteq sure /\ Numbers!ValueOf(n) = Worth[x] + 1
    BY <2>2, IncrementedIs DEF NumbersInv
  <2>4. numberCalls' \in 0 .. 3 /\ Numbers!Arithmetic!Called("increment", x, x, 0)
    BY <2>1, CalledIs
  <2>5. exact \in BOOLEAN /\ TRUE \in BOOLEAN /\ (TRUE /\ {x} \subseteq sure => exact)
    OBVIOUS
  <2> HIDE DEF exact, n
  <2>6. NumbersInv' /\ Numbers!Arithmetic!Stores(x, {x}, Worth[x] + 1, TRUE)
    BY <2>1, <2>3, <2>4, <2>5, StoredIs
  <2> QED
    BY <2>4, <2>6 DEF Numbers!Arithmetic!Increment, Worth
<1> QED
  BY <1>1, <1>2

\* A post-increment returns what was there before, or aborts.
LEMMA PostIncrementStep ==
    ASSUME DigitAssumption, NumbersInv, NEW x \in Objects, NEW y \in Objects, x # y,
           Numbers!PostIncrement(x, y)
    PROVE  /\ NumbersInv'
           /\ Numbers!Arithmetic!PostIncrement(x, y) \/ UNCHANGED Numbers!Arithmetic!vars
<1> DEFINE up == Numbers!Incremented(rep[y])
           old == Numbers!Copy(rep[y])
<1>1. CASE Numbers!RefusedIncrement(rep[y])
  <2>1. Numbers!Abort
    BY <1>1 DEF Numbers!PostIncrement
  <2> QED
    BY <2>1, AbortIs
<1>2. CASE ~ Numbers!RefusedIncrement(rep[y])
  <2>1. /\ Numbers!Called("post_increment", x, y, 0) /\ refused' = refused
        /\ rep' = [rep EXCEPT ![y] = up, ![x] = old]
        /\ sure' = IF y \in sure THEN sure \union {x} ELSE sure \ {x}
    BY <1>2 DEF Numbers!PostIncrement, Numbers!Sure, NumbersInv
  <2>2. y \in sure => /\ Good(up) /\ Numbers!ValueOf(up) = Numbers!ValueOf(rep[y]) + 1
                      /\ Good(old) /\ Numbers!ValueOf(old) = Numbers!ValueOf(rep[y])
    BY IncrementedIs, CopyIs DEF NumbersInv
  <2>3. numberCalls' \in 0 .. 3 /\ Numbers!Arithmetic!Called("post_increment", x, y, 0)
    BY <2>1, CalledIs
  <2> HIDE DEF up, old
  <2>4. /\ rep' = [z \in Objects |-> rep'[z]]
        /\ \A z \in Objects : rep'[z] = IF z = x THEN old ELSE IF z = y THEN up ELSE rep[z]
    BY <2>1 DEF NumbersInv
  <2>5. /\ sure' \subseteq Objects /\ (x \in sure' <=> y \in sure)
        /\ \A z \in Objects \ {x} : z \in sure' <=> z \in sure
    BY <2>1 DEF NumbersInv
  <2>6. \A z \in sure' : Good(rep'[z])
    BY <2>2, <2>4, <2>5 DEF NumbersInv
  <2>7. NumbersInv'
    BY <2>1, <2>3, <2>4, <2>5, <2>6 DEF NumbersInv
  <2>8. /\ Worth' = [z \in Objects |-> Worth'[z]]
        /\ y \in sure => Worth'[x] = Worth[y] /\ Worth'[y] = Worth[y] + 1
        /\ \A z \in Objects \ {x, y} : Worth'[z] = Worth[z]
    BY <2>2, <2>4 DEF Worth
  <2>9. /\ x \in sure' => {y} \subseteq sure /\ Worth'[x] = Worth[y]
        /\ TRUE /\ {y} \subseteq sure => x \in sure'
        /\ y \in sure' => {y} \subseteq sure /\ Worth'[y] = Worth[y] + 1
        /\ TRUE /\ {y} \subseteq sure => y \in sure'
        /\ \A z \in Objects \ {x, y} : Worth'[z] = Worth[z] /\ (z \in sure' <=> z \in sure)
    BY <2>5, <2>8
  <2> QED
    BY <2>3, <2>5, <2>7, <2>8, <2>9
    DEF Numbers!Arithmetic!PostIncrement, Numbers!Arithmetic!Becomes,
        Numbers!Arithmetic!Others, Worth
<1> QED
  BY <1>1, <1>2

\* What a product is, given that it was stored.
LEMMA MultipliedIs ==
    ASSUME DigitAssumption, NumbersInv, NEW x \in Objects, NEW y \in Objects,
           NEW k \in Int, NEW n, NEW exact \in BOOLEAN,
           exact => y \in sure,
           exact => Good(n) /\ Numbers!ValueOf(n) = Numbers!ValueOf(rep[y]) * k,
           k >= -1 /\ y \in sure => exact,
           Numbers!Called("multiply", x, y, k), Numbers!Stores(x, n, exact)
    PROVE  NumbersInv' /\ Numbers!Arithmetic!Multiply(x, y)
<1> DEFINE keeps == k >= -1
<1>1. /\ numberCalls' \in 0 .. 3 /\ Numbers!Arithmetic!Given = k
      /\ Numbers!Arithmetic!Called("multiply", x, y, k)
  BY CalledIs
<1>2. Worth[y] = Numbers!ValueOf(rep[y])
  BY DEF Worth
<1>3. exact => Good(n) /\ {y} \subseteq sure /\ Numbers!ValueOf(n) = Worth[y] * k
  BY <1>2
<1>4. keeps \in BOOLEAN /\ (keeps /\ {y} \subseteq sure => exact)
  OBVIOUS
<1> HIDE DEF keeps
<1>5. NumbersInv' /\ Numbers!Arithmetic!Stores(x, {y}, Worth[y] * k, keeps)
  BY <1>1, <1>3, <1>4, StoredIs
<1> QED
  BY <1>1, <1>5 DEF Numbers!Arithmetic!Multiply, Worth, keeps

\* A multiplication by an unsigned number multiplies or aborts.
LEMMA MultiplyUnsignedStep ==
    ASSUME DigitAssumption, NumbersInv, NEW x \in Objects, NEW y \in Objects,
           Numbers!MultiplyUnsigned(x, y)
    PROVE  /\ NumbersInv'
           /\ Numbers!Arithmetic!Multiply(x, y) \/ UNCHANGED Numbers!Arithmetic!vars
<1> DEFINE exact == y \in sure
<1>1. PICK k \in Numbers!Word :
         IF k > 1 /\ Numbers!Refused(rep[y], k) THEN Numbers!Abort
         ELSE /\ Numbers!Called("multiply", x, y, k)
              /\ Numbers!Stores(x, Numbers!TimesUnsigned(rep[y], k), exact)
  BY DEF Numbers!MultiplyUnsigned
<1>2. CASE k > 1 /\ Numbers!Refused(rep[y], k)
  BY <1>1, <1>2, AbortIs
<1>3. CASE ~ (k > 1 /\ Numbers!Refused(rep[y], k))
  <2>1. /\ Numbers!Called("multiply", x, y, k)
        /\ Numbers!Stores(x, Numbers!TimesUnsigned(rep[y], k), exact)
    BY <1>1, <1>3
  <2>2. exact =>
          /\ Good(Numbers!TimesUnsigned(rep[y], k))
          /\ Numbers!ValueOf(Numbers!TimesUnsigned(rep[y], k)) = Numbers!ValueOf(rep[y]) * k
    BY TimesUnsignedIs DEF NumbersInv
  <2>3. k \in Int
    BY BaseIs
  <2>4. exact \in BOOLEAN /\ (exact => y \in sure) /\ (k >= -1 /\ y \in sure => exact)
    OBVIOUS
  <2> HIDE DEF exact
  <2> QED
    BY <2>1, <2>2, <2>3, <2>4, MultipliedIs
<1> QED
  BY <1>2, <1>3

\* A multiplication by a signed number multiplies or aborts.
LEMMA MultiplySignedStep ==
    ASSUME DigitAssumption, NumbersInv, NEW x \in Objects, NEW y \in Objects,
           Numbers!MultiplySigned(x, y)
    PROVE  /\ NumbersInv'
           /\ Numbers!Arithmetic!Multiply(x, y) \/ UNCHANGED Numbers!Arithmetic!vars
<1>1. PICK k \in Numbers!Signed :
         IF k \notin {-1, 0, 1} /\ Numbers!Refused(rep[y], k % Numbers!Base)
         THEN Numbers!Abort
         ELSE /\ Numbers!Called("multiply", x, y, k)
              /\ Numbers!Stores(x, Numbers!TimesSigned(rep[y], k), y \in sure /\ k >= -1)
  BY DEF Numbers!MultiplySigned
<1> DEFINE exact == y \in sure /\ k >= -1
<1>2. CASE k \notin {-1, 0, 1} /\ Numbers!Refused(rep[y], k % Numbers!Base)
  BY <1>1, <1>2, AbortIs
<1>3. CASE ~ (k \notin {-1, 0, 1} /\ Numbers!Refused(rep[y], k % Numbers!Base))
  <2>1. /\ Numbers!Called("multiply", x, y, k)
        /\ Numbers!Stores(x, Numbers!TimesSigned(rep[y], k), exact)
    BY <1>1, <1>3
  <2>2. exact =>
          /\ Good(Numbers!TimesSigned(rep[y], k))
          /\ Numbers!ValueOf(Numbers!TimesSigned(rep[y], k)) = Numbers!ValueOf(rep[y]) * k
    BY TimesSignedIs DEF NumbersInv
  <2>3. k \in Int
    BY BaseIs
  <2>4. exact \in BOOLEAN /\ (exact => y \in sure) /\ (k >= -1 /\ y \in sure => exact)
    OBVIOUS
  <2> HIDE DEF exact
  <2> QED
    BY <2>1, <2>2, <2>3, <2>4, MultipliedIs
<1> QED
  BY <1>2, <1>3

\* A multiplication in place multiplies or aborts.
LEMMA MultiplyAssignStep ==
    ASSUME DigitAssumption, NumbersInv, NEW x \in Objects, Numbers!MultiplyAssign(x)
    PROVE  /\ NumbersInv'
           /\ Numbers!Arithmetic!Multiply(x, x) \/ UNCHANGED Numbers!Arithmetic!vars
<1> DEFINE exact == x \in sure
<1>1. ASSUME NEW k \in Numbers!Signed, k = 0 \/ Numbers!Size(rep[x]) = 0,
             Numbers!Called("multiply", x, x, k), Numbers!Stores(x, Numbers!Zero, exact)
      PROVE  NumbersInv' /\ Numbers!Arithmetic!Multiply(x, x)
  <2>1. k \in Int
    BY BaseIs
  <2>2. exact => Numbers!ValueOf(rep[x]) * k = 0
    <3> SUFFICES ASSUME x \in sure PROVE Numbers!ValueOf(rep[x]) * k = 0
      OBVIOUS
    <3>1. Good(rep[x])
      BY DEF NumbersInv
    <3>2. PICK v \in Int : v = Numbers!ValueOf(rep[x])
      BY <3>1, ValueOfIs
    <3>3. Numbers!Size(rep[x]) = 0 => v = 0
      <4>1. Numbers!Size(rep[x]) = 0 => rep[x].words = <<>> /\ rep[x].sign = 0
        BY <3>1, GoodIs DEF Numbers!Size
      <4> QED
        BY <3>1, <3>2, <4>1, ValueOfIs
    <3>4. k = 0 \/ v = 0
      BY <1>1, <3>3
    <3>5. v * k = 0
      BY <2>1, <3>4
    <3> QED
      BY <3>2, <3>5
  <2>3. exact => /\ Good(Numbers!Zero)
                 /\ Numbers!ValueOf(Numbers!Zero) = Numbers!ValueOf(rep[x]) * k
    BY <2>2, ZeroIs
  <2>4. exact \in BOOLEAN /\ (exact => x \in sure) /\ (k >= -1 /\ x \in sure => exact)
    OBVIOUS
  <2> HIDE DEF exact
  <2> QED
    BY <1>1, <2>1, <2>3, <2>4, MultipliedIs
<1>2. ASSUME Numbers!Called("multiply", x, x, 1), Numbers!Stores(x, rep[x], exact)
      PROVE  NumbersInv' /\ Numbers!Arithmetic!Multiply(x, x)
  <2>1. exact => /\ Good(rep[x])
                 /\ Numbers!ValueOf(rep[x]) = Numbers!ValueOf(rep[x]) * 1
    <3>1. exact => Good(rep[x])
      BY DEF NumbersInv
    <3>2. exact => Numbers!ValueOf(rep[x]) \in Int
      BY <3>1, ValueOfIs
    <3> QED
      BY <3>1, <3>2
  <2>2. /\ exact \in BOOLEAN /\ (exact => x \in sure) /\ (1 >= -1 /\ x \in sure => exact)
        /\ 1 \in Int
    OBVIOUS
  <2> HIDE DEF exact
  <2> QED
    BY <1>2, <2>1, <2>2, MultipliedIs
<1>3. CASE Numbers!Abort
  BY <1>3, AbortIs
<1> QED
  BY <1>1, <1>2, <1>3 DEF Numbers!MultiplyAssign

\* Every call does what arithmetic says, leaves an object of which nothing is
\* sure, or is refused.
LEMMA CallStep ==
    ASSUME DigitAssumption, NumbersInv, Numbers!Next
    PROVE  NumbersInv' /\ [Numbers!Arithmetic!Next]_(Numbers!Arithmetic!vars)
<1>1. PICK x \in Objects :
         \/ Numbers!Construct(x)
         \/ Numbers!ConstructDefault(x)
         \/ Numbers!ConstructFromWords(x)
         \/ Numbers!Increment(x)
         \/ Numbers!MultiplyAssign(x)
         \/ \E y \in Objects :
               \/ Numbers!CopyAssign(x, y)
               \/ Numbers!MoveAssign(x, y)
               \/ Numbers!Negate(x, y)
               \/ x # y /\ Numbers!PostIncrement(x, y)
               \/ Numbers!MultiplyUnsigned(x, y)
               \/ Numbers!MultiplySigned(x, y)
               \/ \E z \in Objects : Numbers!Add(x, y, z)
  BY DEF Numbers!Next
<1>2. CASE Numbers!Construct(x)
  BY <1>2, ConstructStep DEF Numbers!Arithmetic!Next
<1>3. CASE Numbers!ConstructDefault(x)
  BY <1>3, ConstructDefaultStep DEF Numbers!Arithmetic!Next
<1>4. CASE Numbers!ConstructFromWords(x)
  BY <1>4, FromWordsStep DEF Numbers!Arithmetic!Next
<1>5. CASE Numbers!Increment(x)
  BY <1>5, IncrementStep DEF Numbers!Arithmetic!Next
<1>6. CASE Numbers!MultiplyAssign(x)
  BY <1>6, MultiplyAssignStep DEF Numbers!Arithmetic!Next
<1>7. ASSUME NEW y \in Objects, Numbers!CopyAssign(x, y)
      PROVE  NumbersInv' /\ [Numbers!Arithmetic!Next]_(Numbers!Arithmetic!vars)
  BY <1>7, AssignStep DEF Numbers!Arithmetic!Next
<1>8. ASSUME NEW y \in Objects, Numbers!MoveAssign(x, y)
      PROVE  NumbersInv' /\ [Numbers!Arithmetic!Next]_(Numbers!Arithmetic!vars)
  BY <1>8, MoveStep DEF Numbers!Arithmetic!Next
<1>9. ASSUME NEW y \in Objects, Numbers!Negate(x, y)
      PROVE  NumbersInv' /\ [Numbers!Arithmetic!Next]_(Numbers!Arithmetic!vars)
  BY <1>9, NegateStep DEF Numbers!Arithmetic!Next
<1>10. ASSUME NEW y \in Objects, x # y, Numbers!PostIncrement(x, y)
       PROVE  NumbersInv' /\ [Numbers!Arithmetic!Next]_(Numbers!Arithmetic!vars)
  BY <1>10, PostIncrementStep DEF Numbers!Arithmetic!Next
<1>11. ASSUME NEW y \in Objects, Numbers!MultiplyUnsigned(x, y)
       PROVE  NumbersInv' /\ [Numbers!Arithmetic!Next]_(Numbers!Arithmetic!vars)
  BY <1>11, MultiplyUnsignedStep DEF Numbers!Arithmetic!Next
<1>12. ASSUME NEW y \in Objects, Numbers!MultiplySigned(x, y)
       PROVE  NumbersInv' /\ [Numbers!Arithmetic!Next]_(Numbers!Arithmetic!vars)
  BY <1>12, MultiplySignedStep DEF Numbers!Arithmetic!Next
<1>13. ASSUME NEW y \in Objects, NEW z \in Objects, Numbers!Add(x, y, z)
       PROVE  NumbersInv' /\ [Numbers!Arithmetic!Next]_(Numbers!Arithmetic!vars)
  BY <1>13, AddStep DEF Numbers!Arithmetic!Next
<1> QED
  BY <1>1, <1>2, <1>3, <1>4, <1>5, <1>6, <1>7, <1>8, <1>9, <1>10, <1>11, <1>12, <1>13

\* Every step keeps integers good, and is one of IntegerSpec or none.
LEMMA NumbersStep ==
    ASSUME DigitAssumption, NumbersInv, [Numbers!Next]_numberVars
    PROVE  NumbersInv' /\ [Numbers!Arithmetic!Next]_(Numbers!Arithmetic!vars)
<1>1. CASE UNCHANGED numberVars
  BY <1>1 DEF numberVars, NumbersInv, Numbers!Arithmetic!vars
<1> QED
  BY <1>1, CallStep

\* Integers begin good, and as those of IntegerSpec do.
LEMMA NumbersInit ==
    ASSUME DigitAssumption, Numbers!Init
    PROVE  NumbersInv /\ Numbers!Arithmetic!Init
<1>1. /\ rep = [x \in Objects |-> Numbers!Zero] /\ refused = FALSE
      /\ numberCalls = 0 /\ call = <<>> /\ sure = Objects
  BY DEF Numbers!Init
<1>2. \A x \in Objects : Good(rep[x]) /\ Numbers!ValueOf(rep[x]) = 0
  BY <1>1, ZeroIs
<1>3. NumbersInv
  <2>1. FALSE \in BOOLEAN /\ 0 \in 0 .. 3
    OBVIOUS
  <2>2. refused \in BOOLEAN /\ numberCalls \in 0 .. 3
    BY <1>1, <2>1
  <2>3. \A x \in sure : Good(rep[x])
    BY <1>1, <1>2
  <2>4. rep = [x \in Objects |-> rep[x]] /\ sure \subseteq Objects
    BY <1>1
  <2> QED
    BY <2>2, <2>3, <2>4 DEF NumbersInv
<1>4. [x \in Objects |-> Numbers!ValueOf(rep[x])] = [x \in Objects |-> 0]
  BY <1>2
<1> QED
  BY <1>1, <1>3, <1>4 DEF Numbers!Arithmetic!Init

\* Of two magnitudes with as many words, the first difference from the top decides.
LEMMA MagnitudesByWord ==
    ASSUME DigitAssumption, NEW x \in Seq(Numbers!Word), NEW y \in Seq(Numbers!Word),
           Len(x) = Len(y), NEW d \in 1 .. Len(x),
           \A i \in 1 .. Len(x) : i > d => x[i] = y[i],
           x[d] < y[d]
    PROVE  Numbers!Magnitude(x) < Numbers!Magnitude(y)
<1>1. PICK n \in Nat : n = Len(x) /\ n = Len(y)
  BY WordsAre
<1>2. /\ \A i \in 1 .. n : x[i] \in 0 .. B - 1 /\ y[i] \in 0 .. B - 1
      /\ Numbers!Magnitude(x) = Value(x, n) /\ Numbers!Magnitude(y) = Value(y, n)
  BY <1>1, WordsAre, MagnitudeNat
<1>3. d \in 1 .. n /\ \A i \in 1 .. n : i > d => x[i] = y[i]
  BY <1>1
<1>4. Value(x, n) < Value(y, n)
  BY <1>2, <1>3, ValueLess
<1> QED
  BY <1>2, <1>4

\* The uppermost of two numbers' words that differ, when they have as many.
LEMMA DifferAt ==
    ASSUME DigitAssumption, NEW x \in Seq(Numbers!Word), NEW y \in Seq(Numbers!Word),
           Len(x) = Len(y), {i \in 1 .. Len(x) : x[i] # y[i]} # {}
    PROVE  LET d == Numbers!Max({i \in 1 .. Len(x) : x[i] # y[i]})
           IN  IF x[d] < y[d] THEN Numbers!Magnitude(x) < Numbers!Magnitude(y)
                              ELSE Numbers!Magnitude(y) < Numbers!Magnitude(x)
<1> DEFINE S == {i \in 1 .. Len(x) : x[i] # y[i]}
<1>1. PICK n \in Nat : n = Len(x) /\ n = Len(y)
  BY WordsAre
<1>2. S \subseteq 0 .. n /\ S \subseteq 1 .. n /\ S # {}
      /\ (\A i \in S : x[i] # y[i]) /\ \A i \in 1 .. n : i \notin S => x[i] = y[i]
  BY <1>1
<1>3. PICK d : d = Numbers!Max(S)
  OBVIOUS
<1> HIDE DEF S
<1>4. d \in S /\ \A i \in S : d >= i
  BY <1>2, <1>3, TopWordIs
<1>5. d \in 1 .. n /\ x[d] # y[d]
  BY <1>2, <1>4
<1>6. \A i \in 1 .. n : i > d => x[i] = y[i]
  <2> SUFFICES ASSUME NEW i \in 1 .. n, i > d PROVE x[i] = y[i]
    OBVIOUS
  <2>1. i \notin S
    BY <1>4, <1>5
  <2> QED
    BY <1>2, <2>1
<1>7. x[d] \in Int /\ y[d] \in Int
  BY <1>1, <1>5, WordsAre
<1>8. CASE x[d] < y[d]
  <2>1. d \in 1 .. Len(x) /\ \A i \in 1 .. Len(x) : i > d => x[i] = y[i]
    BY <1>1, <1>5, <1>6
  <2>2. Numbers!Magnitude(x) < Numbers!Magnitude(y)
    BY <1>8, <2>1, MagnitudesByWord
  <2> QED
    BY <1>3, <1>8, <2>2 DEF S
<1>9. CASE ~ (x[d] < y[d])
  <2>1. /\ d \in 1 .. Len(y) /\ \A i \in 1 .. Len(y) : i > d => y[i] = x[i]
        /\ Len(y) = Len(x)
    BY <1>1, <1>5, <1>6
  <2>2. y[d] < x[d]
    BY <1>5, <1>7, <1>9
  <2>3. Numbers!Magnitude(y) < Numbers!Magnitude(x)
    BY <2>1, <2>2, MagnitudesByWord
  <2> QED
    BY <1>3, <1>9, <2>3 DEF S
<1> QED
  BY <1>8, <1>9

\* Equal sizes and no word that differs: the same words.
LEMMA SameWords ==
    ASSUME DigitAssumption, NEW x \in Seq(Numbers!Word), NEW y \in Seq(Numbers!Word),
           Len(x) = Len(y), {i \in 1 .. Len(x) : x[i] # y[i]} = {}
    PROVE  x = y
<1>1. \A i \in 1 .. Len(x) : x[i] = y[i]
  OBVIOUS
<1> QED
  BY <1>1, WordsAre, SeqEqual

\* Numbers with the same magnitude have the same words.
LEMMA WordsUnique ==
    ASSUME DigitAssumption, NEW x, NEW y, Good(x), Good(y),
           Numbers!Magnitude(x.words) = Numbers!Magnitude(y.words)
    PROVE  x.words = y.words
<1>1. PICK m \in Nat, n \in Nat : m = Len(x.words) /\ n = Len(y.words)
  BY GoodIs
<1>2. /\ x.words \in Seq(Numbers!Word) /\ y.words \in Seq(Numbers!Word)
      /\ m > 0 => x.words[m] # 0
      /\ n > 0 => y.words[n] # 0
  BY <1>1, GoodIs
<1>3. PICK M \in Nat : /\ M = Numbers!Magnitude(x.words) /\ M = Numbers!Magnitude(y.words)
  BY ValueOfIs
<1>4. ~ (m < n)
  <2> SUFFICES ASSUME m < n PROVE FALSE
    OBVIOUS
  <2>1. Len(x.words) < Len(y.words) /\ y.words[Len(y.words)] # 0
    BY <1>1, <1>2
  <2>2. Numbers!Magnitude(x.words) < Numbers!Magnitude(y.words)
    BY <1>2, <2>1, MagnitudesByLength
  <2> QED
    BY <1>3, <2>2
<1>5. ~ (n < m)
  <2> SUFFICES ASSUME n < m PROVE FALSE
    OBVIOUS
  <2>1. Len(y.words) < Len(x.words) /\ x.words[Len(x.words)] # 0
    BY <1>1, <1>2
  <2>2. Numbers!Magnitude(y.words) < Numbers!Magnitude(x.words)
    BY <1>2, <2>1, MagnitudesByLength
  <2> QED
    BY <1>3, <2>2
<1>6. Len(x.words) = Len(y.words)
  BY <1>1, <1>4, <1>5
<1>7. {i \in 1 .. Len(x.words) : x.words[i] # y.words[i]} = {}
  <2> SUFFICES ASSUME {i \in 1 .. Len(x.words) : x.words[i] # y.words[i]} # {}
               PROVE  FALSE
    OBVIOUS
  <2>1. \/ Numbers!Magnitude(x.words) < Numbers!Magnitude(y.words)
        \/ Numbers!Magnitude(y.words) < Numbers!Magnitude(x.words)
    BY <1>2, <1>6, DifferAt
  <2> QED
    BY <1>3, <2>1
<1> QED
  BY <1>2, <1>6, <1>7, SameWords

\* == is the equality of the numbers.
LEMMA EqualRight ==
    ASSUME DigitAssumption, NEW x, NEW y, Good(x), Good(y)
    PROVE  Numbers!Equal(x, y) <=> Numbers!ValueOf(x) = Numbers!ValueOf(y)
<1>1. CASE Numbers!Equal(x, y)
  <2>1. x.sign = y.sign /\ x.words = y.words
    BY <1>1 DEF Numbers!Equal
  <2> QED
    BY <1>1, <2>1 DEF Numbers!ValueOf
<1>2. CASE Numbers!ValueOf(x) = Numbers!ValueOf(y)
  <2>1. PICK M \in Nat : /\ M = Numbers!Magnitude(x.words)
                         /\ Numbers!ValueOf(x) = IF x.sign = 1 THEN - M ELSE M
                         /\ x.words # <<>> => M > 0
    BY ValueOfIs
  <2>2. PICK P \in Nat : /\ P = Numbers!Magnitude(y.words)
                         /\ Numbers!ValueOf(y) = IF y.sign = 1 THEN - P ELSE P
                         /\ y.words # <<>> => P > 0
    BY ValueOfIs
  <2>3. /\ x.sign \in {0, 1} /\ y.sign \in {0, 1}
        /\ x.words = <<>> => x.sign = 0
        /\ y.words = <<>> => y.sign = 0
    BY GoodIs
  <2>4. x.sign = y.sign /\ M = P
    <3>1. \/ x.sign = 1 /\ M > 0 /\ Numbers!ValueOf(x) = - M
          \/ x.sign = 0 /\ Numbers!ValueOf(x) = M
      BY <2>1, <2>3
    <3>2. \/ y.sign = 1 /\ P > 0 /\ Numbers!ValueOf(y) = - P
          \/ y.sign = 0 /\ Numbers!ValueOf(y) = P
      BY <2>2, <2>3
    <3> QED
      BY <1>2, <3>1, <3>2
  <2>5. x.words = y.words
    BY <2>1, <2>2, <2>4, WordsUnique
  <2> QED
    BY <1>2, <2>4, <2>5 DEF Numbers!Equal
<1> QED
  BY <1>1, <1>2

\* <= is their order.
LEMMA LessEqualRight ==
    ASSUME DigitAssumption, NEW x, NEW y, Good(x), Good(y)
    PROVE  Numbers!LessEqual(x, y) <=> Numbers!ValueOf(x) <= Numbers!ValueOf(y)
<1>1. PICK M \in Nat : /\ M = Numbers!Magnitude(x.words)
                       /\ Numbers!ValueOf(x) = IF x.sign = 1 THEN - M ELSE M
                       /\ x.words # <<>> => M > 0
  BY ValueOfIs
<1>2. PICK P \in Nat : /\ P = Numbers!Magnitude(y.words)
                       /\ Numbers!ValueOf(y) = IF y.sign = 1 THEN - P ELSE P
                       /\ y.words # <<>> => P > 0
  BY ValueOfIs
<1>3. /\ x.sign \in {0, 1} /\ y.sign \in {0, 1}
      /\ x.words = <<>> => x.sign = 0
      /\ y.words = <<>> => y.sign = 0
      /\ x.words \in Seq(Numbers!Word) /\ y.words \in Seq(Numbers!Word)
  BY GoodIs
<1>4. PICK m \in Nat, n \in Nat :
         /\ m = Len(x.words) /\ n = Len(y.words)
         /\ m = Numbers!Size(x) /\ n = Numbers!Size(y)
         /\ m > 0 => x.words[m] # 0
         /\ n > 0 => y.words[n] # 0
  BY GoodIs DEF Numbers!Size
<1>9. PICK v \in Int : /\ v = Numbers!ValueOf(x)
                       /\ \/ x.sign = 1 /\ M > 0 /\ v = - M
                          \/ x.sign = 0 /\ v = M
  BY <1>1, <1>3
<1>10. PICK w \in Int : /\ w = Numbers!ValueOf(y)
                        /\ \/ y.sign = 1 /\ P > 0 /\ w = - P
                           \/ y.sign = 0 /\ w = P
  BY <1>2, <1>3
<1> DEFINE differ == {i \in 1 .. Len(x.words) : x.words[i] # y.words[i]}
           d == Numbers!Max(differ)
<1>5. CASE x.sign # y.sign
  <2>1. ~ (x.sign = y.sign)
    BY <1>5
  <2>2. Numbers!LessEqual(x, y) <=> x.sign = 1
    BY <1>5, <2>1, Zenon DEF Numbers!LessEqual
  <2> QED
    BY <1>5, <1>9, <1>10, <2>2
<1>6. CASE x.sign = y.sign /\ m < n
  <2>1. Numbers!LessEqual(x, y) <=> x.sign # 1
    <3>1. ~ (x.sign # y.sign) /\ Numbers!Size(x) < Numbers!Size(y)
          /\ ~ (Numbers!Size(x) > Numbers!Size(y))
      BY <1>4, <1>6
    <3> QED
      BY <1>6, <3>1, Zenon DEF Numbers!LessEqual
  <2>2. M < P
    <3>1. Len(x.words) < Len(y.words) /\ y.words[Len(y.words)] # 0
      BY <1>4, <1>6
    <3> QED
      BY <1>1, <1>2, <1>3, <3>1, MagnitudesByLength
  <2> QED
    BY <1>6, <1>9, <1>10, <2>1, <2>2
<1>7. CASE x.sign = y.sign /\ n < m
  <2>1. Numbers!LessEqual(x, y) <=> x.sign = 1
    <3>1. ~ (x.sign # y.sign) /\ Numbers!Size(x) > Numbers!Size(y)
          /\ ~ (Numbers!Size(x) < Numbers!Size(y))
      BY <1>4, <1>7
    <3> QED
      BY <1>7, <3>1, Zenon DEF Numbers!LessEqual
  <2>2. P < M
    <3>1. Len(y.words) < Len(x.words) /\ x.words[Len(x.words)] # 0
      BY <1>4, <1>7
    <3> QED
      BY <1>1, <1>2, <1>3, <3>1, MagnitudesByLength
  <2> QED
    BY <1>7, <1>9, <1>10, <2>1, <2>2
<1>8. CASE x.sign = y.sign /\ m = n
  <2>1. Numbers!LessEqual(x, y)
           <=> IF differ = {} THEN TRUE ELSE (x.words[d] < y.words[d]) = ~ (x.sign = 1)
    <3>1. ~ (x.sign # y.sign) /\ ~ (Numbers!Size(x) < Numbers!Size(y))
          /\ ~ (Numbers!Size(x) > Numbers!Size(y)) /\ Numbers!Size(x) = Len(x.words)
      BY <1>4, <1>8
    <3> QED
      BY <1>8, <3>1, Zenon DEF Numbers!LessEqual
  <2>2. CASE differ = {}
    <3>1. x.words = y.words
      BY <1>3, <1>4, <1>8, <2>2, SameWords
    <3>2. v = w
      BY <1>8, <1>9, <1>10, <3>1 DEF Numbers!ValueOf
    <3> QED
      BY <1>9, <1>10, <2>1, <2>2, <3>2
  <2>3. CASE differ # {}
    <3>1. IF x.words[d] < y.words[d] THEN M < P ELSE P < M
      <4>1. Len(x.words) = Len(y.words)
        BY <1>4, <1>8
      <4> QED
        BY <1>1, <1>2, <1>3, <2>3, <4>1, DifferAt
    <3> HIDE DEF differ, d
    <3> QED
      <4>1. CASE x.words[d] < y.words[d]
        <5>1. Numbers!LessEqual(x, y) <=> x.sign # 1
          BY <2>1, <2>3, <4>1, Zenon
        <5> QED
          BY <1>8, <1>9, <1>10, <3>1, <4>1, <5>1
      <4>2. CASE ~ (x.words[d] < y.words[d])
        <5>1. Numbers!LessEqual(x, y) <=> x.sign = 1
          BY <2>1, <2>3, <4>2, SMT
        <5> QED
          BY <1>8, <1>9, <1>10, <3>1, <4>2, <5>1
      <4> QED
        BY <4>1, <4>2
  <2> QED
    BY <2>2, <2>3
<1> QED
  BY <1>4, <1>5, <1>6, <1>7, <1>8

\* What digits are worth, as they are read.
Reads(f, d, n) == f[0] = 0 /\ \A i \in 1 .. n : f[i] = f[i - 1] * Digit + d[i]

\* A numeral is read from its first digit: the numbers on the way exist.
LEMMA ReadsExist ==
    ASSUME DigitAssumption, NEW d \in Seq(Int)
    PROVE  \E f \in [0 .. Len(d) -> Int] :
              Reads(f, d, Len(d)) /\ Numbers!DigitsValue(d) = f[Len(d)]
<1>1. PICK n \in Nat : n = Len(d)
  OBVIOUS
<1>2. Digit \in Int /\ \A i \in 1 .. n : d[i] \in Int
  BY <1>1, BaseIs
<1> DEFINE step == [p \in (1 .. n) \X Int |-> p[2] * Digit + d[p[1]]]
           U(k, x) == x * Digit + d[k]
<1>3. \A k \in 1 .. n, x \in Int : U(k, x) \in Int
  BY <1>2
<1>4. \A k \in 1 .. n, x \in Int : step[<<k, x>>] = U(k, x)
  OBVIOUS
<1>5. step \in [(1 .. n) \X Int -> Int]
  <2>1. \A p \in (1 .. n) \X Int : p[1] \in 1 .. n /\ p[2] \in Int /\ U(p[1], p[2]) \in Int
    BY <1>3
  <2> QED
    BY <2>1
<1> HIDE DEF step
<1>6. PICK f \in [0 .. n -> Int] : Follows(f, n, 0, step)
  <2>1. 0 \in Int
    OBVIOUS
  <2> QED
    BY <1>5, <2>1, Recursion, Zenon
<1>7. f[0] = 0 /\ \A k \in 1 .. n : f[k] = U(k, f[k - 1])
  <2>1. ASSUME NEW k \in 1 .. n PROVE f[k] = U(k, f[k - 1])
    <3>1. k - 1 \in 0 .. n
      OBVIOUS
    <3> QED
      BY <1>4, <1>6, <3>1 DEF Follows
  <2> QED
    BY <1>6, <2>1 DEF Follows
<1>8. Reads(f, d, n)
  BY <1>7 DEF Reads
<1> DEFINE g == [i \in 0 .. n |-> IF i = 0 THEN 0 ELSE f[i - 1] * Digit + d[i]]
           G == CHOOSE u : u = [i \in 0 .. n |->
                                  IF i = 0 THEN 0 ELSE u[i - 1] * Digit + d[i]]
<1>9. f = g
  <2>1. \A k \in 0 .. n : k # 0 => k \in 1 .. n
    OBVIOUS
  <2>2. \A k \in 0 .. n : f[k] = g[k]
    BY <1>7, <2>1
  <2> QED
    BY <2>2
<1>10. G = [i \in 0 .. n |-> IF i = 0 THEN 0 ELSE G[i - 1] * Digit + d[i]]
  <2> HIDE DEF G
  <2> QED
    BY <1>9, Zenon DEF G
<1>11. Numbers!DigitsValue(d) = G[n]
  BY <1>1, Zenon DEF Numbers!DigitsValue
<1> HIDE DEF G
<1>12. \A k \in 0 .. n : G[k] = IF k = 0 THEN 0 ELSE G[k - 1] * Digit + d[k]
  BY <1>10
<1>13. \A k \in 0 .. n : G[k] = f[k]
  <2> DEFINE S == {k \in 0 .. n : G[k] = f[k]}
  <2>1. 0 \in S
    BY <1>7, <1>12
  <2>2. ASSUME NEW k \in 0 .. n, k \in S, k < n PROVE k + 1 \in S
    <3>1. k + 1 \in 0 .. n /\ k + 1 \in 1 .. n /\ (k + 1) - 1 = k /\ k + 1 # 0
      BY <2>2
    <3>2. G[k + 1] = G[k] * Digit + d[k + 1]
      BY <1>12, <3>1
    <3>3. f[k + 1] = f[k] * Digit + d[k + 1]
      BY <1>7, <3>1
    <3> QED
      BY <2>2, <3>1, <3>2, <3>3
  <2> HIDE DEF S
  <2>3. \A k \in 0 .. n : k \in S
    BY <2>1, <2>2, Upwards
  <2> QED
    BY <2>3 DEF S
<1>14. n \in 0 .. n
  OBVIOUS
<1> QED
  BY <1>1, <1>6, <1>8, <1>11, <1>13, <1>14

\* One digit more.
LEMMA ReadMore ==
    ASSUME DigitAssumption, NEW d \in Seq(Int), NEW a \in Int
    PROVE  /\ Numbers!DigitsValue(Append(d, a)) = Numbers!DigitsValue(d) * Digit + a
           /\ Numbers!DigitsValue(d) \in Int /\ Numbers!DigitsValue(<<>>) = 0
<1>1. PICK n \in Nat : n = Len(d)
  OBVIOUS
<1>2. PICK e \in Seq(Int) : /\ e = Append(d, a) /\ Len(e) = n + 1 /\ e[n + 1] = a
                            /\ \A i \in 1 .. n : e[i] = d[i]
  <2>1. /\ Append(d, a) \in Seq(Int) /\ Len(Append(d, a)) = n + 1
        /\ Append(d, a)[n + 1] = a
        /\ \A i \in 1 .. n : Append(d, a)[i] = d[i]
    BY <1>1
  <2> QED
    BY <2>1, Zenon
<1>3. PICK f \in [0 .. n -> Int] : Reads(f, d, n) /\ Numbers!DigitsValue(d) = f[n]
  BY <1>1, ReadsExist
<1>4. PICK N \in Nat : N = n + 1
  OBVIOUS
<1>5. PICK g \in [0 .. N -> Int] : Reads(g, e, N) /\ Numbers!DigitsValue(e) = g[N]
  <2>1. Len(e) = N
    BY <1>2, <1>4
  <2> QED
    BY <2>1, ReadsExist
<1>6. \A k \in 0 .. n : g[k] = f[k]
  <2> DEFINE S == {k \in 0 .. n : g[k] = f[k]}
  <2>1. 0 \in S
    BY <1>3, <1>5 DEF Reads
  <2>2. ASSUME NEW k \in 0 .. n, k \in S, k < n PROVE k + 1 \in S
    <3>1. k + 1 \in 0 .. n /\ k + 1 \in 1 .. n /\ k + 1 \in 1 .. N /\ (k + 1) - 1 = k
      BY <1>4, <2>2
    <3>2. g[k + 1] = g[k] * Digit + e[k + 1]
      BY <1>5, <3>1 DEF Reads
    <3>3. f[k + 1] = f[k] * Digit + d[k + 1]
      BY <1>3, <3>1 DEF Reads
    <3> QED
      BY <1>2, <2>2, <3>1, <3>2, <3>3
  <2> HIDE DEF S
  <2>3. \A k \in 0 .. n : k \in S
    BY <2>1, <2>2, Upwards
  <2> QED
    BY <2>3 DEF S
<1>7. g[N] = g[n] * Digit + a
  <2>1. N \in 1 .. N /\ N - 1 = n
    BY <1>4
  <2>2. g[N] = g[N - 1] * Digit + e[N]
    BY <1>5, <2>1 DEF Reads
  <2> QED
    BY <1>2, <1>4, <2>1, <2>2
<1>8. Numbers!DigitsValue(<<>>) = 0
  <2>1. <<>> \in Seq(Int) /\ Len(<<>>) = 0
    OBVIOUS
  <2>2. PICK z \in [0 .. 0 -> Int] : Reads(z, <<>>, 0) /\ Numbers!DigitsValue(<<>>) = z[0]
    BY <2>1, ReadsExist
  <2> QED
    BY <2>2 DEF Reads
<1>9. g[n] = f[n] /\ f[n] \in Int
  <2>1. n \in 0 .. n
    OBVIOUS
  <2> QED
    BY <1>6, <2>1
<1> QED
  BY <1>2, <1>3, <1>5, <1>7, <1>8, <1>9

\* One word more.
LEMMA ReadWord ==
    ASSUME DigitAssumption, NEW d \in Seq(Int), NEW w \in Numbers!Word
    PROVE  /\ d \o Numbers!Digits(w) \in Seq(Int)
           /\ Len(d \o Numbers!Digits(w)) = Len(d) + 2
           /\ Numbers!DigitsValue(d \o Numbers!Digits(w)) = Numbers!DigitsValue(d) * B + w
<1>1. PICK D \in Nat : D = Digit /\ D >= 2 /\ B = D * D
  BY BaseIs
<1>2. PICK q \in Int, r \in Int : /\ q = w \div Digit /\ r = w % Digit
                                  /\ w = q * D + r
  <2>1. w \in Int
    BY BaseIs
  <2>2. w \div D \in Int /\ w % D \in Int /\ w = (w \div D) * D + (w % D)
    BY <1>1, <2>1, SMTT(30)
  <2> QED
    BY <1>1, <2>2
<1>3. Numbers!Digits(w) = <<q, r>>
  BY <1>2 DEF Numbers!Digits
<1>4. PICK e \in Seq(Int) : e = Append(d, q)
  <2>1. Append(d, q) \in Seq(Int)
    OBVIOUS
  <2> QED
    BY <2>1, Zenon
<1>5. d \o Numbers!Digits(w) = Append(e, r)
  BY <1>3, <1>4
<1>6. PICK v \in Int : v = Numbers!DigitsValue(d)
  BY ReadMore
<1>7. Numbers!DigitsValue(e) = v * D + q
  BY <1>1, <1>4, <1>6, ReadMore
<1>8. Numbers!DigitsValue(Append(e, r)) = (v * D + q) * D + r
  BY <1>1, <1>7, ReadMore
<1>9. (v * D + q) * D + r = v * (D * D) + (q * D + r)
  OBVIOUS
<1>10. Numbers!DigitsValue(d \o Numbers!Digits(w)) = v * B + w
  BY <1>1, <1>2, <1>5, <1>8, <1>9
<1>11. Append(e, r) \in Seq(Int) /\ Len(Append(e, r)) = Len(d) + 2
  BY <1>4
<1> QED
  BY <1>5, <1>6, <1>10, <1>11

\* A word is printed as a sequence of digits.
LEMMA DigitsType ==
    ASSUME DigitAssumption, NEW v \in Numbers!Word
    PROVE  Numbers!Digits(v) \in Seq(Int)
<1>1. PICK q \in Int, r \in Int : q = v \div Digit /\ r = v % Digit
  <2>1. PICK D \in Nat : D = Digit /\ D >= 2
    BY BaseIs
  <2>2. v \in Int
    BY BaseIs
  <2>3. v \div D \in Int /\ v % D \in Int
    BY <2>1, <2>2, SMTT(30)
  <2> QED
    BY <2>1, <2>3, Zenon
<1>2. Numbers!Digits(v) = <<q, r>>
  BY <1>1 DEF Numbers!Digits
<1> QED
  BY <1>2

\* The digits of the words below the last one, from the upper ones on.
Text(first, w, j) ==
    LET text[k \in 0 .. Len(w) - 1] ==
           IF k = 0 THEN first ELSE text[k - 1] \o Numbers!Digits(w[Len(w) - k])
    IN  text[j]

\* So the text grows by a word at a time.
LEMMA TextGrows ==
    ASSUME DigitAssumption, NEW first \in Seq(Int), NEW w \in Seq(Numbers!Word),
           NEW n \in Nat, n + 1 = Len(w)
    PROVE  /\ Text(first, w, 0) = first
           /\ \A k \in 1 .. n : Text(first, w, k)
                                 = Text(first, w, k - 1) \o Numbers!Digits(w[Len(w) - k])
<1> DEFINE step == [p \in (1 .. n) \X Seq(Int) |-> p[2] \o Numbers!Digits(w[Len(w) - p[1]])]
           U(k, x) == x \o Numbers!Digits(w[Len(w) - k])
<1>1. \A k \in 1 .. n : Numbers!Digits(w[Len(w) - k]) \in Seq(Int)
  <2> SUFFICES ASSUME NEW k \in 1 .. n PROVE Numbers!Digits(w[Len(w) - k]) \in Seq(Int)
    OBVIOUS
  <2>1. PICK v \in Numbers!Word : v = w[Len(w) - k]
    <3>1. Len(w) - k \in 1 .. Len(w)
      OBVIOUS
    <3> QED
      BY <3>1
  <2> QED
    BY <2>1, DigitsType
<1>2. \A k \in 1 .. n, x \in Seq(Int) : U(k, x) \in Seq(Int)
  <2> SUFFICES ASSUME NEW k \in 1 .. n, NEW x \in Seq(Int) PROVE U(k, x) \in Seq(Int)
    OBVIOUS
  <2>1. PICK d \in Seq(Int) : d = Numbers!Digits(w[Len(w) - k])
    BY <1>1
  <2> QED
    BY <2>1
<1>3. \A k \in 1 .. n, x \in Seq(Int) : step[<<k, x>>] = U(k, x)
  OBVIOUS
<1>4. step \in [(1 .. n) \X Seq(Int) -> Seq(Int)]
  <2>1. \A p \in (1 .. n) \X Seq(Int) :
           p[1] \in 1 .. n /\ p[2] \in Seq(Int) /\ U(p[1], p[2]) \in Seq(Int)
    BY <1>2
  <2> QED
    BY <2>1
<1> HIDE DEF step
<1>5. PICK f \in [0 .. n -> Seq(Int)] : Follows(f, n, first, step)
  BY <1>4, Recursion, Zenon
<1>6. f[0] = first /\ \A k \in 1 .. n : f[k] = U(k, f[k - 1])
  <2>1. ASSUME NEW k \in 1 .. n PROVE f[k] = U(k, f[k - 1])
    <3>1. k - 1 \in 0 .. n
      OBVIOUS
    <3> QED
      BY <1>3, <1>5, <3>1 DEF Follows
  <2> QED
    BY <1>5, <2>1 DEF Follows
<1> DEFINE g == [k \in 0 .. n |-> IF k = 0 THEN first
                                  ELSE f[k - 1] \o Numbers!Digits(w[Len(w) - k])]
           G == CHOOSE u : u = [k \in 0 .. Len(w) - 1 |->
                                  IF k = 0 THEN first
                                  ELSE u[k - 1] \o Numbers!Digits(w[Len(w) - k])]
<1>7. f = g
  <2>1. \A k \in 0 .. n : k # 0 => k \in 1 .. n
    OBVIOUS
  <2>2. \A k \in 0 .. n : f[k] = g[k]
    BY <1>6, <2>1
  <2> QED
    BY <2>2
<1>8. Len(w) - 1 = n
  OBVIOUS
<1>9. G = [k \in 0 .. n |-> IF k = 0 THEN first ELSE G[k - 1] \o Numbers!Digits(w[Len(w) - k])]
  <2> HIDE DEF G
  <2> QED
    BY <1>7, <1>8, Zenon DEF G
<1>10. \A k : Text(first, w, k) = G[k]
  BY DEF Text
<1> HIDE DEF G
<1>11. \A k \in 0 .. n :
          G[k] = IF k = 0 THEN first ELSE G[k - 1] \o Numbers!Digits(w[Len(w) - k])
  BY <1>9
<1>12. \A k \in 1 .. n : k \in 0 .. n /\ k # 0
  OBVIOUS
<1>13. 0 \in 0 .. n
  OBVIOUS
<1> QED
  BY <1>10, <1>11, <1>12, <1>13, Zenon

\* What is printed are the digits of the number.
LEMMA TextRight ==
    ASSUME DigitAssumption, NEW first \in Seq(Int), NEW w \in Seq(Numbers!Word),
           w # <<>>, Numbers!DigitsValue(first) = w[Len(w)]
    PROVE  /\ Numbers!DigitsValue(Text(first, w, Len(w) - 1)) = Numbers!Magnitude(w)
           /\ Text(first, w, Len(w) - 1) \in Seq(Int)
           /\ Len(Text(first, w, Len(w) - 1)) = Len(first) + 2 * (Len(w) - 1)
           /\ first # <<>> => Text(first, w, Len(w) - 1)[1] = first[1]
<1>1. PICK n \in Nat : n = Len(w) /\ n >= 1
  BY WordsAre
<1>2. PICK m \in Nat : n = m + 1 /\ m = Len(w) - 1 /\ m < n
  <2>1. n - 1 \in Nat /\ n = (n - 1) + 1 /\ n - 1 = Len(w) - 1 /\ n - 1 < n
    BY <1>1
  <2> QED
    BY <2>1, Zenon
<1>3. Numbers!Magnitude(w) = Value(w, n) /\ \A i \in 1 .. n : w[i] \in Int
  BY <1>1, WordsAre, MagnitudeIs
<1>4. PICK f \in [0 .. n -> Int] : Uppers(f, w, n) /\ Value(w, n) = f[n]
  BY <1>3, UppersExist
<1>5. Digit \in Nat /\ B \in Nat /\ Len(first) \in Nat
  BY BaseIs
<1>11. /\ Text(first, w, 0) = first
       /\ \A k \in 1 .. m : Text(first, w, k)
                             = Text(first, w, k - 1) \o Numbers!Digits(w[Len(w) - k])
  <2>1. m + 1 = Len(w)
    BY <1>1, <1>2
  <2> QED
    BY <2>1, TextGrows
<1> DEFINE t(j) == Text(first, w, j)
           Right(j) == /\ t(j) \in Seq(Int)
                       /\ Len(t(j)) = Len(first) + 2 * j
                       /\ first # <<>> => t(j)[1] = first[1]
                       /\ Numbers!DigitsValue(t(j)) = f[j + 1]
           S == {j \in 0 .. m : Right(j)}
<1>6. f[1] = w[n]
  <2>1. 1 \in 1 .. n /\ 1 - 1 = 0 /\ (n + 1) - 1 = n
    BY <1>1
  <2>2. f[1] = f[0] * B + w[n] /\ f[0] = 0
    BY <1>4, <2>1 DEF Uppers
  <2>3. w[n] \in Int
    BY <1>1, <1>3
  <2> QED
    BY <1>5, <2>2, <2>3
<1>7. 0 \in S
  <2>1. t(0) = first
    BY <1>11
  <2>2. Numbers!DigitsValue(first) = f[1] /\ 0 + 1 = 1
    BY <1>1, <1>6
  <2>3. Right(0)
    BY <1>5, <2>1, <2>2
  <2> QED
    BY <2>3
<1>8. ASSUME NEW j \in 0 .. m, j \in S, j < m PROVE j + 1 \in S
  <2>1. PICK J \in Nat : J = j + 1 /\ J < n /\ J \in 0 .. m /\ j \in Nat
    BY <1>2, <1>8
  <2>2. PICK v \in Numbers!Word : v = w[n - J]
    <3>1. n - J \in 1 .. n
      BY <2>1
    <3> QED
      BY <1>1, <3>1, WordsAre
  <2>3. t(J) = t(j) \o Numbers!Digits(v)
    <3>1. J \in 1 .. m /\ J - 1 = j
      BY <1>2, <2>1
    <3>2. t(J) = t(J - 1) \o Numbers!Digits(w[Len(w) - J])
      BY <1>11, <3>1
    <3> QED
      BY <1>1, <2>2, <3>1, <3>2
  <2>4. Right(j)
    BY <1>8
  <2>5. /\ t(J) \in Seq(Int) /\ Len(t(J)) = Len(t(j)) + 2
        /\ Numbers!DigitsValue(t(J)) = Numbers!DigitsValue(t(j)) * B + v
    BY <2>3, <2>4, ReadWord
  <2>6. f[J + 1] = f[J] * B + v
    <3>1. J + 1 \in 1 .. n /\ (J + 1) - 1 = J /\ (n + 1) - (J + 1) = n - J
      BY <2>1
    <3> QED
      BY <1>4, <2>2, <3>1 DEF Uppers
  <2>7. first # <<>> => t(J)[1] = first[1]
    <3> SUFFICES ASSUME first # <<>> PROVE t(J)[1] = first[1]
      OBVIOUS
    <3>1. 1 \in 1 .. Len(t(j)) /\ t(j)[1] = first[1]
      BY <1>5, <2>1, <2>4
    <3>2. PICK x \in Seq(Int) : x = t(j)
      BY <2>4
    <3>3. PICK y \in Seq(Int) : y = Numbers!Digits(v)
      BY DigitsType
    <3>4. 1 \in 1 .. Len(x)
      BY <3>1, <3>2
    <3>5. (x \o y)[1] = x[1]
      BY <3>4
    <3> QED
      BY <2>3, <3>1, <3>2, <3>3, <3>5
  <2>8. Right(J)
    <3>1. Len(t(J)) = Len(first) + 2 * J
      BY <1>5, <2>1, <2>4, <2>5
    <3>2. Numbers!DigitsValue(t(J)) = f[J + 1]
      BY <2>1, <2>4, <2>5, <2>6
    <3> QED
      BY <2>5, <2>7, <3>1, <3>2
  <2> QED
    BY <2>1, <2>8
<1> HIDE DEF S
<1>9. \A j \in 0 .. m : j \in S
  BY <1>7, <1>8, Upwards
<1>10. Right(m)
  <2>1. m \in 0 .. m
    OBVIOUS
  <2> QED
    BY <1>9, <2>1 DEF S
<1> QED
  BY <1>2, <1>3, <1>4, <1>10

\* So a number is printed: by its own digits, no more than its words have, the
\* first of which is 0 for 0 only.
LEMMA PrintedRight ==
    ASSUME DigitAssumption, NEW n, Good(n)
    PROVE  /\ Numbers!DigitsValue(Numbers!Printed(n)) = Numbers!Magnitude(n.words)
           /\ Len(Numbers!Printed(n))
                 <= IF Numbers!Size(n) = 0 THEN 1 ELSE 2 * Numbers!Size(n)
           /\ Numbers!Printed(n)[1] = 0 => n = Numbers!Zero
<1>1. PICK w \in Seq(Numbers!Word), N \in Nat :
         /\ w = n.words /\ N = Len(w) /\ N = Numbers!Size(n)
         /\ w # <<>> => N >= 1 /\ w[N] # 0
         /\ w = <<>> <=> N = 0
         /\ w = <<>> => n.sign = 0 /\ n.room = 2
  BY GoodIs DEF Numbers!Size
<1>2. CASE w = <<>>
  <2>1. Numbers!Printed(n) = <<0>>
    BY <1>1, <1>2 DEF Numbers!Printed
  <2>2. Numbers!DigitsValue(<<0>>) = 0
    <3>1. <<>> \in Seq(Int) /\ 0 \in Int /\ Append(<<>>, 0) = <<0>> /\ Digit \in Nat
      BY BaseIs
    <3>2. /\ Numbers!DigitsValue(Append(<<>>, 0)) = Numbers!DigitsValue(<<>>) * Digit + 0
          /\ Numbers!DigitsValue(<<>>) = 0
      BY <3>1, ReadMore
    <3> QED
      BY <3>1, <3>2
  <2>3. Numbers!Magnitude(w) = 0
    BY <1>2, MagnitudeNat
  <2>4. n = Numbers!Zero
    <3>1. n = Numbers!Number(n.sign, n.words, n.room)
      BY GoodIs
    <3> QED
      BY <1>1, <1>2, <3>1 DEF Numbers!Zero
  <2>5. Len(<<0>>) <= 1 /\ Numbers!Size(n) = 0
    BY <1>1, <1>2
  <2> QED
    BY <1>1, <2>1, <2>2, <2>3, <2>4, <2>5
<1>3. CASE w # <<>>
  <2> DEFINE top == Numbers!Digits(w[Len(w)])
             first == IF top[1] # 0 THEN top ELSE IF top[2] # 0 THEN <<top[2]>> ELSE <<>>
  <2>1. Numbers!Printed(n) = Text(first, w, Len(w) - 1)
    <3>1. w = n.words /\ Numbers!Size(n) = Len(w) /\ Len(w) # 0
      BY <1>1, <1>3
    <3> QED
      BY <3>1 DEF Numbers!Printed, Text
  <2>2. PICK v \in Numbers!Word : v = w[N] /\ v = w[Len(w)] /\ v # 0
    <3>1. N \in 1 .. Len(w)
      BY <1>1, <1>3
    <3>2. w[N] \in Numbers!Word
      BY <3>1, WordsAre
    <3>3. w[Len(w)] = w[N]
      BY <1>1
    <3> QED
      BY <1>1, <1>3, <3>2, <3>3
  <2>3. PICK D \in Nat : D = Digit /\ D >= 2
    BY BaseIs
  <2>4. PICK q \in Int, r \in Int : /\ q = v \div Digit /\ r = v % Digit
                                    /\ v = q * D + r
    <3>1. v \in Int
      BY BaseIs
    <3>2. v \div D \in Int /\ v % D \in Int /\ v = (v \div D) * D + (v % D)
      BY <2>3, <3>1, SMTT(30)
    <3> QED
      BY <2>3, <3>2
  <2>5. top = <<q, r>>
    BY <2>2, <2>4 DEF Numbers!Digits
  <2>6. first = IF q # 0 THEN <<q, r>> ELSE IF r # 0 THEN <<r>> ELSE <<>>
    BY <2>5
  <2>7. q # 0 \/ r # 0
    BY <2>2, <2>3, <2>4
  <2>8. PICK d : d = first
    OBVIOUS
  <2>9. /\ d \in Seq(Int) /\ d # <<>> /\ (Len(d) = 1 \/ Len(d) = 2) /\ d[1] # 0
        /\ Numbers!DigitsValue(d) = v
    <3>1. PICK e \in Seq(Int) : e = <<>> /\ Numbers!DigitsValue(e) = 0
      <4>1. <<>> \in Seq(Int) /\ 0 \in Int
        OBVIOUS
      <4>2. Numbers!DigitsValue(<<>>) = 0
        BY <4>1, ReadMore
      <4> QED
        BY <4>1, <4>2
    <3>2. CASE q # 0
      <4>1. d = <<q, r>>
        BY <2>6, <2>8, <3>2
      <4>2. e \o Numbers!Digits(v) = <<q, r>>
        BY <2>2, <2>5, <3>1
      <4>3. Numbers!DigitsValue(d) = 0 * B + v
        BY <3>1, <4>1, <4>2, ReadWord
      <4>4. v \in Int /\ B \in Int
        BY BaseIs
      <4>5. 0 * B + v = v
        BY <4>4
      <4> QED
        BY <3>2, <4>1, <4>3, <4>5
    <3>3. CASE q = 0
      <4>1. d = <<r>> /\ r # 0 /\ v = r
        <5>1. r # 0 /\ v = r
          BY <2>3, <2>4, <2>7, <3>3
        <5> QED
          BY <2>6, <2>8, <3>3, <5>1
      <4>2. Append(e, r) = <<r>>
        BY <3>1
      <4>3. Numbers!DigitsValue(d) = 0 * Digit + r
        BY <3>1, <4>1, <4>2, ReadMore
      <4>4. 0 * Digit + r = r
        BY <2>3
      <4> QED
        BY <4>1, <4>3, <4>4
    <3> QED
      BY <3>2, <3>3
  <2> HIDE DEF first, top
  <2>10. Numbers!Printed(n) = Text(d, w, Len(w) - 1)
    BY <2>1, <2>8, Zenon
  <2>11. /\ Numbers!DigitsValue(Text(d, w, Len(w) - 1)) = Numbers!Magnitude(w)
         /\ Len(Text(d, w, Len(w) - 1)) = Len(d) + 2 * (Len(w) - 1)
         /\ Text(d, w, Len(w) - 1)[1] = d[1]
    <3>1. Numbers!DigitsValue(d) = w[Len(w)]
      BY <1>1, <2>2, <2>9
    <3> QED
      BY <1>3, <2>9, <3>1, TextRight
  <2>12. Len(d) + 2 * (Len(w) - 1) <= 2 * N
    <3>1. Len(d) = 1 \/ Len(d) = 2
      BY <2>9
    <3>2. 1 + 2 * (N - 1) <= 2 * N /\ 2 + 2 * (N - 1) <= 2 * N
      OBVIOUS
    <3>3. Len(w) = N
      BY <1>1
    <3> QED
      BY <3>1, <3>2, <3>3, Zenon
  <2>13. Numbers!Size(n) = N /\ N # 0
    BY <1>1, <1>3
  <2> QED
    BY <1>1, <2>9, <2>10, <2>11, <2>12, <2>13
<1> QED
  BY <1>2, <1>3

\* All answers are the numbers'.
LEMMA NumbersRight ==
    ASSUME DigitAssumption, NumbersInv
    PROVE  Numbers!AnswersExact
<1>1. Numbers!TypeOK
  BY DEF NumbersInv, Numbers!TypeOK, Good
<1>2. ASSUME NEW x \in sure
      PROVE  LET n == rep[x]
             IN  /\ Numbers!Canonical(n)
                 /\ Numbers!DigitsValue(Numbers!Printed(n)) = Numbers!Magnitude(n.words)
                 /\ Len(Numbers!Printed(n))
                       <= IF Numbers!Size(n) = 0 THEN 1 ELSE 2 * Numbers!Size(n)
                 /\ Numbers!Printed(n)[1] = 0 => n = Numbers!Zero
                 /\ ( /\ Numbers!ValueOf(n) \in Numbers!Signed
                      /\ Numbers!ValueOf(n) # - (Numbers!Base \div 2) )
                       => Numbers!ToSigned(n) = {Numbers!ValueOf(n)}
                 /\ Numbers!sign(n) = "negative" <=> Numbers!ValueOf(n) < 0
                 /\ Numbers!sign(n) = "zero" <=> Numbers!ValueOf(n) = 0
  <2>1. PICK n : n = rep[x] /\ Good(n)
    BY DEF NumbersInv
  <2>2. Numbers!Canonical(n)
    BY <2>1 DEF Good
  <2> QED
    BY <2>1, <2>2, PrintedRight, CastRight, SignRight
<1>3. ASSUME NEW x \in sure, NEW y \in sure
      PROVE  /\ Numbers!Equal(rep[x], rep[y])
                   <=> Numbers!ValueOf(rep[x]) = Numbers!ValueOf(rep[y])
             /\ Numbers!LessEqual(rep[x], rep[y])
                   <=> Numbers!ValueOf(rep[x]) <= Numbers!ValueOf(rep[y])
  <2>1. Good(rep[x]) /\ Good(rep[y])
    BY DEF NumbersInv
  <2> QED
    BY <2>1, EqualRight, LessEqualRight
<1> QED
  BY <1>1, <1>2, <1>3 DEF Numbers!AnswersExact

\* Every call of an integer is one that IntegerSpec allows, or aborts
\* (src/nth/numeric/integer.h, integer.cc): it leaves the number that arithmetic
\* says, with a carry or a borrow through any number of words, on its way to a
\* buffer and back; or, where IntegerSpec says it may, an object that is not sure.
THEOREM NumbersFollow ==
    Numbers!Init /\ [][Numbers!Next]_numberVars => Numbers!ImplementsSpec
<1>1. Numbers!Init => NumbersInv /\ Numbers!Arithmetic!Init
  BY NumbersInit, DigitAssumption
<1>2. NumbersInv /\ [Numbers!Next]_numberVars
         => NumbersInv' /\ [Numbers!Arithmetic!Next]_(Numbers!Arithmetic!vars)
  BY NumbersStep, DigitAssumption
<1> QED
  BY <1>1, <1>2, PTL DEF Numbers!ImplementsSpec, Numbers!Arithmetic!Spec

-----------------------------------------------------------------------------
(* Both of them.  In a behaviour one component steps, as component says, and *)
(* the variables of the others stay.                                       *)

\* What a step of AnyNext is to a map and to integers.
LEMMA OneSteps ==
    ASSUME [AnyNext]_allVars
    PROVE  [MapNext]_mapVars /\ [Numbers!Next]_numberVars
<1>1. CASE UNCHANGED allVars
  BY <1>1 DEF allVars
<1>2. CASE AnyNext
  <2>1. PICK c \in Components : Only(c)
    BY <1>2 DEF AnyNext, Components
  <2>2. [MapNext]_mapVars
    <3>1. CASE c = "flyweight_map"
      BY <1>2, <2>1, <3>1 DEF AnyNext, Only
    <3>2. CASE c # "flyweight_map"
      <4>1. Same("flyweight_map")
        BY <2>1, <3>2 DEF Only, Components
      <4> QED
        BY <4>1 DEF Same
    <3> QED
      BY <3>1, <3>2
  <2>3. [Numbers!Next]_numberVars
    <3>1. CASE c = "integer"
      BY <1>2, <2>1, <3>1 DEF AnyNext, Only
    <3>2. CASE c # "integer"
      <4>1. Same("integer")
        BY <2>1, <3>2 DEF Only, Components
      <4> QED
        BY <4>1 DEF Same
    <3> QED
      BY <3>1, <3>2
  <2> QED
    BY <2>2, <2>3
<1> QED
  BY <1>1, <1>2

\* find and index of a set answer for just the values there are; a map holds
\* just the keys that were inserted, each with the value it had first or was
\* given since, through copies, moves and writes (src/nth/container/flyweight_set.h,
\* flyweight_map.h); and what an integer prints, compares and converts to is the
\* number its words stand for, if no call has set it which the code gets wrong
\* (src/nth/numeric/integer.cc): then nothing is said until it is set again.
THEOREM AnswersSoundHolds == AnySpec => []AnswersSound
<1> DEFINE AnswersInv == MapInv /\ NumbersInv
<1>1. AnyInit => AnswersInv
  BY FlyweightAssumption, DigitAssumption, MapBegins, NumbersInit DEF AnyInit
<1>2. AnswersInv /\ [AnyNext]_allVars => AnswersInv'
  BY FlyweightAssumption, DigitAssumption, OneSteps, MapStep, NumbersStep
<1>3. AnswersInv => AnswersSound
  BY FlyweightAssumption, DigitAssumption, AnswersRight, MapRight, NumbersRight
     DEF AnswersSound, MapInv
<1> HIDE DEF AnswersInv
<1> QED
  BY <1>1, <1>2, <1>3, PTL DEF AnySpec

\* Every call of an integer, whatever it is given, is one that IntegerSpec allows,
\* or aborts: it leaves the number that arithmetic says, however many words there
\* are, or an object that is not sure.  Construction from a number, a move, a
\* negation, an increment, a sum of numbers of like sign, a product with a factor
\* from -1 on and the copy of a number of two words are always sure of what they make.
THEOREM ImplementsSpecHolds == AnySpec => ImplementsSpec
<1>1. AnyInit => Numbers!Init
  BY DEF AnyInit
<1>2. [AnyNext]_allVars => [Numbers!Next]_numberVars
  BY OneSteps
<1> QED
  BY <1>1, <1>2, NumbersFollow, PTL DEF AnySpec, ImplementsSpec
=============================================================================
