-------------------------- MODULE RegistrarProofs --------------------------
(* Proofs about Registrar, for any number of threads, values and nodes.    *)
EXTENDS Registrar, TLAPS

\* Slot i of a node comes i places after the last slot of the node before.
LEMMA IndexNext ==
    ASSUME NEW n \in Nat \ {0}, NEW m \in Nat \ {0}, m = n + 1, NEW i \in Nat
    PROVE  /\ Index(n, Capacity) \in Nat
           /\ Index(m, i) \in Nat
           /\ Index(m, i) = Index(n, Capacity) + i
  BY CapacityAssumption, SMT DEF Index

\* Within a node the places go up by one with the slots.
LEMMA IndexSlot ==
    ASSUME NEW n \in Nat \ {0}, NEW i \in Nat, NEW j \in Nat
    PROVE  /\ Index(n, i) \in Nat
           /\ Index(n, j) \in Nat
           /\ Index(n, i) - Index(n, j) = i - j
  BY CapacityAssumption, SMT DEF Index

\* Every slot of a node has a place before those of every later node.
LEMMA IndexBelow ==
    ASSUME NEW n \in Nat \ {0}, NEW m \in Nat \ {0}, n < m,
           NEW i \in 0 .. Capacity, NEW j \in Nat
    PROVE  Index(n, i) \in Nat /\ Index(m, j) \in Nat /\ Index(n, i) <= Index(m, j) - j
  <1>1. PICK d \in Nat : m = n + 1 + d
    BY m - n - 1 \in Nat
  <1>2. (m - 1) * Capacity = (n - 1) * Capacity + Capacity + d * Capacity
    BY <1>1, CapacityAssumption, SMT
  <1>3. d * Capacity >= 0
    BY CapacityAssumption, SMT
  <1>4. (n - 1) * Capacity \in Nat /\ (m - 1) * Capacity \in Nat
    BY CapacityAssumption, SMT
  <1> QED
    BY <1>2, <1>3, <1>4, CapacityAssumption, SMT DEF Index

\* The first slot of the first node has place 1; no slot has a place below.
LEMMA IndexAtLeastOne ==
    ASSUME NEW n \in 1 .. allocated, NEW i \in Slot, allocated \in Node
    PROVE  Index(n, i) \in Nat /\ Index(n, i) >= 1
  <1>1. (n - 1) * Capacity \in Nat
    BY CapacityAssumption, SMT DEF Node
  <1> QED
    BY <1>1, CapacityAssumption DEF Index, Slot

\* A visit reads a slot that holds the next item of the snapshot.
LEMMA VisitedValue ==
    ASSUME IInv, NEW t \in Threads, Visit(t)
    PROVE  LET k == Len(snapshot[t]) - Len(seen[t])
           IN  /\ k \in 1 .. Len(snapshot[t])
               /\ data[ptr[t].node][ptr[t].slot] = snapshot[t][k]
               /\ snapshot[t][k] \in Values
  <1> DEFINE r == target[t]
             k == Len(snapshot[t]) - Len(seen[t])
  <1>1. At(ptr[t], k)
    BY DEF Visit, Goto, IInv, WalkInv, WalkOf
  <1>2. snapshot[t] \in Seq(Values) /\ seen[t] \in Seq(Values)
    BY DEF IInv, TypeOK
  <1>3. allocated \in Node
    BY DEF IInv, TypeOK
  <1>4. k >= 1
    BY <1>1, <1>3, IndexAtLeastOne DEF At
  <1>5. k \in 1 .. Len(snapshot[t])
    BY <1>4 DEF IInv, TypeOK
  <1>6. r \in Registrars
    BY DEF IInv, TypeOK
  <1>7. k <= Len(registered[r]) /\ snapshot[t][k] = registered[r][k]
    <2>1. /\ Len(snapshot[t]) <= Len(registered[r])
          /\ \A j \in 1 .. Len(snapshot[t]) : snapshot[t][j] = registered[r][j]
      BY <1>6 DEF IInv, WalkInv, WalkOf
    <2>2. snapshot[t] \in Seq(Values) /\ registered[r] \in Seq(Values)
      BY <1>6 DEF IInv, TypeOK
    <2> HIDE DEF k
    <2> QED
      BY <1>5, <1>6, <2>1, <2>2
  <1>8. data[ptr[t].node][ptr[t].slot] = registered[r][k]
    BY <1>1, <1>6, <1>7 DEF At, IInv, ContentsInv
  <1>9. snapshot[t][k] \in Values
    BY <1>5 DEF IInv, TypeOK
  <1> QED
    BY <1>5, <1>7, <1>8, <1>9

\* Steps keep the types; the other parts of the invariant keep slots in range.
LEMMA TypeStep ==
    ASSUME OneRegistrar, IInv, [Next]_vars
    PROVE  TypeOK'
  <1> USE CapacityAssumption, BoundsAssumption DEF Node, Slot, Null, tail
  <1> USE DEF IInv, TypeOK
  <1>1. ASSUME NEW t \in Threads, NEW r \in Registrars, NEW v \in Values,
               InsertLock(t, r, v)
        PROVE  TypeOK'
    BY <1>1 DEF InsertLock, Goto, nodes, history
  <1>2. ASSUME NEW t \in Threads, HasRoom(t)
        PROVE  TypeOK'
    BY <1>2 DEF HasRoom, Goto, nodes, calls, history
  <1>3. ASSUME NEW t \in Threads, Increment(t)
        PROVE  TypeOK'
    <2>1. head[target[t]] = allocated /\ count[allocated] < Capacity
      BY <1>3 DEF Increment, Goto, ListInv
    <2>2. count' \in [Node -> 0 .. Capacity]
      BY <1>3, <2>1 DEF Increment
    <2> QED
      BY <1>3, <2>2 DEF Increment, Goto, calls, history
  <1>4. ASSUME NEW t \in Threads, NewNode(t)
        PROVE  TypeOK'
    <2>1. allocated + 1 \in Node /\ head[target[t]] \in Node
      BY <1>4 DEF NewNode
    <2>2. next' \in [Node -> Node \union {Null}] /\ count' \in [Node -> 0 .. Capacity]
      BY <1>4, <2>1 DEF NewNode
    <2>3. allocated' \in Node /\ head' \in [Registrars -> Node]
      BY <1>4, <2>1 DEF NewNode
    <2> QED
      BY <1>4, <2>2, <2>3 DEF NewNode, Goto, calls, history
  <1>5. ASSUME NEW t \in Threads, WriteSlot(t)
        PROVE  TypeOK'
    <2>1. argument[t] \in Values
      BY <1>5 DEF WriteSlot, Goto, ListInv
    <2>2. registered' \in [Registrars -> Seq(Values)]
      BY <1>5, <2>1 DEF WriteSlot
    <2>3. data' \in [Node -> [Slot -> Values \union {NoValue}]]
      BY <1>5, <2>1 DEF WriteSlot
    <2> QED
      BY <1>5, <2>2, <2>3 DEF WriteSlot, Goto, calls
  <1>6. ASSUME NEW t \in Threads, Unlock(t)
        PROVE  TypeOK'
    BY <1>6 DEF Unlock, Goto, nodes, calls, history
  <1>7. ASSUME NEW t \in Threads, NEW r \in Registrars, Registry(t, r)
        PROVE  TypeOK'
    <2>1. ptr' \in [Threads -> Position \union {End}]
      BY <1>7 DEF Registry, Position
    <2>2. snapshot' \in [Threads -> Seq(Values)] /\ seen' \in [Threads -> Seq(Values)]
      BY <1>7 DEF Registry
    <2> QED
      BY <1>7, <2>1, <2>2 DEF Registry, Goto, nodes, calls
  <1>8. ASSUME NEW t \in Threads, Visit(t)
        PROVE  TypeOK'
    <2>1. data[ptr[t].node][ptr[t].slot] \in Values
      BY <1>8, VisitedValue
    <2>2. seen' \in [Threads -> Seq(Values)]
      BY <1>8, <2>1 DEF Visit
    <2> QED
      BY <1>8, <2>2 DEF Visit, Goto, nodes, calls
  <1>9. ASSUME NEW t \in Threads, Advance(t)
        PROVE  TypeOK'
    <2>1. ptr[t] \in Position
      BY <1>9 DEF Advance, Goto, WalkInv, WalkOf, At, Position
    <2>2. Before(ptr[t]) \in Position \union {End}
      BY <2>1 DEF Before, Position
    <2> QED
      BY <1>9, <2>2 DEF Advance, Goto, nodes, calls, history
  <1>10. ASSUME NEW t \in Threads, Finish(t)
         PROVE  TypeOK'
    BY <1>10 DEF Finish, Goto, nodes, calls, history
  <1>11. CASE UNCHANGED vars
    BY <1>11 DEF vars, nodes, calls, history
  <1> QED
    BY <1>1, <1>2, <1>3, <1>4, <1>5, <1>6, <1>7, <1>8, <1>9, <1>10, <1>11
    DEF Next, Insert, Walk

\* Only the holder of the mutex is inside insert.
LEMMA MutexStep ==
    ASSUME OneRegistrar, IInv, [Next]_vars
    PROVE  MutexInv'
  <1> USE NoThreadAssumption DEF IInv, TypeOK, MutexInv, Inserting, Goto
  <1>1. ASSUME NEW t \in Threads, NEW r \in Registrars, NEW v \in Values,
               InsertLock(t, r, v)
        PROVE  MutexInv'
    <2> SUFFICES ASSUME NEW u \in Threads, Inserting(u)'
                 PROVE  (mutex[target[u]] = u)'
      OBVIOUS
    <2>1. CASE u = t
      BY <1>1, <2>1 DEF InsertLock
    <2>2. CASE u # t
      <3>1. Inserting(u) /\ mutex[target[u]] = u
        BY <1>1, <2>2 DEF InsertLock
      <3>2. target[u] = r
        BY OneRegistrar DEF OneRegistrar
      <3> QED
        BY <1>1, <3>1, <3>2 DEF InsertLock
    <2> QED
      BY <2>1, <2>2
  <1>2. ASSUME NEW t \in Threads, HasRoom(t) \/ Increment(t) \/ NewNode(t) \/ WriteSlot(t)
        PROVE  MutexInv'
    BY <1>2 DEF HasRoom, Increment, NewNode, WriteSlot, calls
  <1>3. ASSUME NEW t \in Threads, Unlock(t)
        PROVE  MutexInv'
    <2> SUFFICES ASSUME NEW u \in Threads, Inserting(u)'
                 PROVE  (mutex[target[u]] = u)'
      OBVIOUS
    <2>1. u # t /\ Inserting(u)
      BY <1>3 DEF Unlock
    <2>2. mutex[target[u]] = u /\ mutex[target[t]] = t
      BY <1>3, <2>1 DEF Unlock
    <2> QED
      BY <1>3, <2>1, <2>2 DEF Unlock, calls
  <1>4. ASSUME NEW t \in Threads, Walk(t)
        PROVE  MutexInv'
    BY <1>4 DEF Walk, Registry, Visit, Advance, Finish, calls
  <1>5. CASE UNCHANGED vars
    BY <1>5 DEF vars, calls
  <1> QED
    BY <1>1, <1>2, <1>3, <1>4, <1>5 DEF Next, Insert

\* Two threads are never inside insert together.
LEMMA Exclusion ==
    ASSUME OneRegistrar, IInv,
           NEW t \in Threads, Inserting(t), NEW u \in Threads, Inserting(u)
    PROVE  t = u
  BY DEF OneRegistrar, IInv, MutexInv, TypeOK

\* Nodes stay linked in the order of allocation, and only the newest one can
\* have room.
LEMMA ListStep ==
    ASSUME OneRegistrar, IInv, [Next]_vars
    PROVE  ListInv'
  <1> USE CapacityAssumption, BoundsAssumption DEF Node, Null, tail, Goto
  <1> USE DEF IInv, TypeOK, ListInv
  <1>1. ASSUME NEW t \in Threads, NEW r \in Registrars, NEW v \in Values,
               InsertLock(t, r, v)
        PROVE  ListInv'
    BY <1>1 DEF InsertLock, nodes
  <1>2. ASSUME NEW t \in Threads, HasRoom(t)
        PROVE  ListInv'
    <2>1. count[allocated] < Capacity
      BY <1>2 DEF HasRoom
    <2> QED
      BY <1>2, <2>1 DEF HasRoom, nodes, calls
  <1>3. ASSUME NEW t \in Threads, Increment(t)
        PROVE  ListInv'
    <2>1. count' = [count EXCEPT ![allocated] = @ + 1]
      BY <1>3 DEF Increment
    <2>2. \A u \in Threads : u # t => pc[u] \notin {"increment", "write"}
      BY <1>3, Exclusion DEF Increment, Inserting
    <2> QED
      BY <1>3, <2>1, <2>2 DEF Increment, calls
  <1>4. ASSUME NEW t \in Threads, NewNode(t)
        PROVE  ListInv'
    <2>1. head[target[t]] = allocated /\ count[allocated] = Capacity
      BY <1>4 DEF NewNode
    <2>2. \A u \in Threads : u # t => pc[u] \notin {"increment", "write"}
      BY <1>4, Exclusion DEF NewNode, Inserting
    <2>3. \A r \in Registrars : head'[r] = allocated'
      BY <1>4, OneRegistrar DEF NewNode, OneRegistrar
    <2>4. allocated' = allocated + 1 /\ allocated' \in Node
      BY <1>4 DEF NewNode
    <2>5. \A n \in 1 .. allocated' : next'[n] = n - 1
      BY <1>4, <2>1, <2>4 DEF NewNode
    <2>6. /\ \A n \in 1 .. (allocated' - 1) : count'[n] = Capacity
          /\ count'[allocated'] = 1
      BY <1>4, <2>1, <2>4 DEF NewNode
    <2> QED
      BY <1>4, <2>2, <2>3, <2>5, <2>6 DEF NewNode, calls
  <1>5. ASSUME NEW t \in Threads, WriteSlot(t)
        PROVE  ListInv'
    BY <1>5 DEF WriteSlot, calls
  <1>6. ASSUME NEW t \in Threads, Unlock(t)
        PROVE  ListInv'
    BY <1>6 DEF Unlock, nodes, calls
  <1>7. ASSUME NEW t \in Threads, Walk(t)
        PROVE  ListInv'
    BY <1>7 DEF Walk, Registry, Visit, Advance, Finish, nodes, calls
  <1>8. CASE UNCHANGED vars
    BY <1>8 DEF vars, nodes, calls
  <1> QED
    BY <1>1, <1>2, <1>3, <1>4, <1>5, <1>6, <1>7, <1>8 DEF Next, Insert

\* What the slots hold and what was registered stay in step.
LEMMA ContentsStep ==
    ASSUME OneRegistrar, IInv, [Next]_vars
    PROVE  ContentsInv'
  <1> USE CapacityAssumption, BoundsAssumption DEF Node, Slot, Null, tail, Goto
  <1> USE DEF IInv, TypeOK
  <1>1. ASSUME UNCHANGED <<data, count, allocated, registered>>, Writing' <=> Writing
        PROVE  ContentsInv'
    BY <1>1 DEF ContentsInv, Index
  <1>2. ASSUME NEW t \in Threads, NEW r \in Registrars, NEW v \in Values,
               InsertLock(t, r, v)
        PROVE  ContentsInv'
    BY <1>1, <1>2 DEF InsertLock, nodes, history, Writing
  <1>3. ASSUME NEW t \in Threads, HasRoom(t)
        PROVE  ContentsInv'
    BY <1>1, <1>3 DEF HasRoom, nodes, history, Writing
  <1>4. ASSUME NEW t \in Threads, Increment(t)
        PROVE  ContentsInv'
    <2>1. count' = [count EXCEPT ![allocated] = @ + 1]
      BY <1>4 DEF Increment, ListInv
    <2>2. ~ Writing /\ Writing'
      BY <1>4, Exclusion DEF Increment, Writing, Inserting
    <2>3. allocated \in Nat \ {0} /\ count[allocated] \in Nat
      OBVIOUS
    <2>4. count'[allocated] = count[allocated] + 1
      BY <2>1
    <2>5. Index(allocated, count'[allocated]) - 1 = Index(allocated, count[allocated])
      <3> HIDE DEF IInv, TypeOK
      <3> QED
        BY <2>3, <2>4, CapacityAssumption, SMT DEF Index
    <2> QED
      BY <1>4, <2>2, <2>5 DEF Increment, history, ContentsInv, Index
  <1>5. ASSUME NEW t \in Threads, NewNode(t)
        PROVE  ContentsInv'
    <2>1. allocated' = allocated + 1 /\ count'[allocated'] = 1
      BY <1>5 DEF NewNode
    <2>2. ~ Writing /\ Writing'
      BY <1>5, Exclusion DEF NewNode, Writing, Inserting
    <2>3. count[allocated] = Capacity
      BY <1>5 DEF NewNode, ListInv
    <2>4. allocated \in Nat \ {0} /\ allocated' \in Nat \ {0}
      BY <2>1
    <2>5. ASSUME NEW i \in Slot
          PROVE  /\ Index(allocated', i) \in Nat /\ Index(allocated, Capacity) \in Nat
                 /\ Index(allocated', i) > Index(allocated, Capacity)
      <3>1. i \in Nat /\ i > 0
        OBVIOUS
      <3> HIDE DEF IInv, TypeOK
      <3>2. /\ Index(allocated, Capacity) \in Nat
            /\ Index(allocated', i) \in Nat
            /\ Index(allocated', i) = Index(allocated, Capacity) + i
        BY <2>1, <2>4, <3>1, IndexNext
      <3> QED
        BY <3>1, <3>2
    <2>8. Index(allocated', 1) - 1 = Index(allocated, Capacity)
      <3> HIDE DEF IInv, TypeOK
      <3> QED
        BY <2>1, <2>4, CapacityAssumption, SMT DEF Index
    <2>6. \A r \in Registrars : Len(registered'[r]) = Index(allocated, Capacity)
      BY <1>5, <2>2, <2>3 DEF NewNode, history, ContentsInv
    <2>7. ASSUME NEW r \in Registrars, NEW n \in 1 .. allocated', NEW i \in Slot,
                 Index(n, i) <= Len(registered'[r])
          PROVE  data'[n][i] = registered'[r][Index(n, i)]
      <3>1. n \in 1 .. allocated
        BY <2>1, <2>5, <2>6, <2>7
      <3> QED
        BY <1>5, <2>7, <3>1 DEF NewNode, history, ContentsInv
    <2> QED
      BY <2>1, <2>2, <2>8, <2>6, <2>7 DEF ContentsInv, Index
  <1>6. ASSUME NEW t \in Threads, WriteSlot(t)
        PROVE  ContentsInv'
    <2> DEFINE top == Index(allocated, count[allocated])
    <2>1. head[target[t]] = allocated /\ count[allocated] \in Slot
      BY <1>6 DEF WriteSlot, ListInv
    <2>2. Writing /\ ~ Writing'
      BY <1>6, Exclusion DEF WriteSlot, Writing, Inserting
    <2>3. \A r \in Registrars : /\ Len(registered[r]) = top - 1
                                /\ registered'[r] = Append(registered[r], argument[t])
      BY <1>6, <2>2, OneRegistrar DEF WriteSlot, ContentsInv, OneRegistrar
    <2>4. top \in Nat /\ top >= 1
      BY <2>1, IndexAtLeastOne
    <2>5. data' = [data EXCEPT ![allocated][count[allocated]] = argument[t]]
      BY <1>6, <2>1 DEF WriteSlot
    <2>6. ASSUME NEW r \in Registrars, NEW n \in 1 .. allocated, NEW i \in Slot,
                 Index(n, i) <= top
          PROVE  data'[n][i] = registered'[r][Index(n, i)]
      <3>1. CASE n = allocated /\ i = count[allocated]
        BY <2>1, <2>3, <2>4, <2>5, <3>1
      <3>2. CASE ~ (n = allocated /\ i = count[allocated])
        <4>1. Index(n, i) # top
          <5>1. CASE n = allocated
            BY <2>1, <3>2, <5>1, IndexSlot DEF Index
          <5>2. CASE n < allocated
            <6>1. allocated \in Nat \ {0} /\ count[allocated] \in Nat
              OBVIOUS
            <6>2. n \in Nat \ {0} /\ i \in 0 .. Capacity
              OBVIOUS
            <6> HIDE DEF IInv, TypeOK
            <6>3. Index(n, i) \in Nat /\ Index(n, i) <= top - count[allocated]
              BY <5>2, <6>1, <6>2, IndexBelow
            <6> QED
              BY <2>1, <2>4, <6>3
          <5> QED
            BY <5>1, <5>2
        <4>2. Index(n, i) \in Nat /\ Index(n, i) >= 1
          BY IndexAtLeastOne
        <4>3. Index(n, i) \in 1 .. Len(registered[r])
          BY <2>3, <2>4, <2>6, <4>1, <4>2
        <4>4. data[n][i] = registered[r][Index(n, i)]
          BY <4>3 DEF ContentsInv
        <4>5. data'[n][i] = data[n][i]
          BY <2>1, <2>5, <3>2
        <4> QED
          BY <2>3, <4>3, <4>4, <4>5
      <3> QED
        BY <3>1, <3>2
    <2>7. \A r \in Registrars : Len(registered'[r]) = top
      BY <2>3, <2>4
    <2>8. UNCHANGED <<count, allocated>>
      BY <1>6 DEF WriteSlot
    <2> QED
      BY <2>2, <2>6, <2>7, <2>8 DEF ContentsInv, Index
  <1>7. ASSUME NEW t \in Threads, Unlock(t)
        PROVE  ContentsInv'
    BY <1>1, <1>7 DEF Unlock, nodes, history, Writing
  <1>8. ASSUME NEW t \in Threads, Walk(t)
        PROVE  ContentsInv'
    BY <1>1, <1>8 DEF Walk, Registry, Visit, Advance, Finish, nodes, history, Writing
  <1>9. CASE UNCHANGED vars
    BY <1>1, <1>9 DEF vars, nodes, history, Writing
  <1> QED
    BY <1>2, <1>3, <1>4, <1>5, <1>6, <1>7, <1>8, <1>9 DEF Next, Insert

\* One step of the iterator goes down by exactly one place, across nodes too,
\* and reaches the end exactly from the first place.
LEMMA BeforePlace ==
    ASSUME IInv, NEW p \in Position, NEW k \in Int, At(p, k + 1)
    PROVE  IF Before(p) = End THEN k = 0 ELSE At(Before(p), k)
  <1> DEFINE n == p.node
  <1>1. /\ n \in 1 .. allocated /\ n \in Node /\ p.slot \in Slot
        /\ Index(n, p.slot) = k + 1 /\ next[n] = n - 1
    BY DEF At, IInv, ListInv, Position
  <1>2. n \in Nat \ {0} /\ p.slot \in Nat \ {0}
    BY <1>1 DEF Slot
  <1>3. CASE p.slot > 1
    <2>1. /\ Before(p).node = n /\ Before(p).slot = p.slot - 1
          /\ Before(p) # End
      BY <1>1, <1>3 DEF Before, Position, End, Null, Node
    <2>2. p.slot - 1 \in Nat
      BY <1>2, <1>3
    <2>4. Index(n, p.slot) - Index(n, p.slot - 1) = p.slot - (p.slot - 1)
      BY <1>2, <2>2, IndexSlot
    <2>5. Index(n, p.slot - 1) \in Nat
      BY <1>2, <2>2, IndexSlot
    <2>6. Index(n, p.slot - 1) = k
      BY <1>1, <1>2, <2>4, <2>5
    <2>3. p.slot - 1 \in Slot
      BY <1>1, <1>3, CapacityAssumption DEF Slot
    <2> QED
      BY <1>1, <2>1, <2>3, <2>6 DEF At
  <1>4. CASE p.slot = 1 /\ n = 1
    <2>1. Before(p) = End
      BY <1>1, <1>4 DEF Before, Null
    <2>2. Index(1, 1) = 1
      BY CapacityAssumption DEF Index
    <2> QED
      BY <1>1, <1>4, <2>1, <2>2
  <1>5. CASE p.slot = 1 /\ n # 1
    <2>1. /\ Before(p) = [node |-> n - 1, slot |-> Capacity]
          /\ Before(p) # End
      BY <1>1, <1>2, <1>5 DEF Before, Null, End
    <2>2. n - 1 \in Nat \ {0}
      BY <1>2, <1>5
    <2>4. n = (n - 1) + 1
      BY <1>2
    <2>5. /\ Index(n - 1, Capacity) \in Nat
          /\ Index(n, 1) = Index(n - 1, Capacity) + 1
      BY <1>2, <2>2, <2>4, IndexNext
    <2>3. Index(n - 1, Capacity) = k
      BY <1>1, <1>5, <2>5
    <2> QED
      BY <1>1, <1>2, <1>5, <2>1, <2>3, CapacityAssumption DEF At, Slot, IInv, TypeOK, Node
  <1> QED
    BY <1>2, <1>3, <1>4, <1>5

\* A step that leaves a thread's walk alone may add nodes and append items.
LEMMA WalkUndisturbed ==
    ASSUME IInv, NEW u \in Threads,
           ptr'[u] = ptr[u], snapshot'[u] = snapshot[u], seen'[u] = seen[u],
           Walking(u)' <=> Walking(u), Walking(u) => pc'[u] = pc[u],
           allocated' \in Nat, allocated' >= allocated,
           \A r \in Registrars :
              \/ registered'[r] = registered[r]
              \/ \E v \in Values : registered'[r] = Append(registered[r], v)
    PROVE  WalkOf(u)'
  <1> USE DEF IInv, TypeOK, WalkInv
  <1>1. ASSUME NEW r \in Registrars
        PROVE  /\ Len(snapshot[u]) <= Len(registered'[r])
               /\ \A k \in 1 .. Len(snapshot[u]) : snapshot[u][k] = registered'[r][k]
    <2>1. /\ Len(snapshot[u]) <= Len(registered[r])
          /\ \A k \in 1 .. Len(snapshot[u]) : snapshot[u][k] = registered[r][k]
      BY DEF WalkOf
    <2>2. CASE \E v \in Values : registered'[r] = Append(registered[r], v)
      BY <2>1, <2>2
    <2> QED
      BY <2>1, <2>2
  <1>2. ASSUME NEW p, NEW k, At(p, k)
        PROVE  At(p, k)'
    BY <1>2 DEF At, Index, Node
  <1>3. WalkOf(u)
    OBVIOUS
  <1> QED
    BY <1>1, <1>2, <1>3 DEF WalkOf, Walking

\* What a thread's walk has seen, where its iterator stands and its snapshot
\* fit together after every step.
LEMMA WalkStep ==
    ASSUME OneRegistrar, IInv, [Next]_vars, NEW u \in Threads
    PROVE  WalkOf(u)'
  <1> USE DEF IInv, TypeOK, Goto, Walking
  <1>1. ASSUME NEW t \in Threads, Insert(t)
        PROVE  WalkOf(u)'
    <2>1. /\ Walking(u)' <=> Walking(u)
          /\ Walking(u) => pc'[u] = pc[u]
      BY <1>1 DEF Insert, InsertLock, HasRoom, Increment, NewNode, WriteSlot, Unlock
    <2>2. UNCHANGED <<ptr, snapshot, seen>>
      BY <1>1 DEF Insert, InsertLock, HasRoom, Increment, NewNode, WriteSlot, Unlock,
                  calls, history
    <2>3. allocated' \in Nat /\ allocated' >= allocated
      BY <1>1 DEF Insert, InsertLock, HasRoom, Increment, NewNode, WriteSlot, Unlock,
                  nodes, Node
    <2>4. \A r \in Registrars :
             \/ registered'[r] = registered[r]
             \/ \E v \in Values : registered'[r] = Append(registered[r], v)
      <3>1. CASE WriteSlot(t)
        BY <3>1 DEF WriteSlot, ListInv
      <3>2. CASE ~ WriteSlot(t)
        BY <1>1, <3>2 DEF Insert, InsertLock, HasRoom, Increment, NewNode, Unlock, history
      <3> QED
        BY <3>1, <3>2
    <2> QED
      BY <2>1, <2>2, <2>3, <2>4, WalkUndisturbed
  <1>2. ASSUME NEW t \in Threads, Walk(t), t # u
        PROVE  WalkOf(u)'
    <2>1. /\ ptr'[u] = ptr[u] /\ snapshot'[u] = snapshot[u] /\ seen'[u] = seen[u]
          /\ pc'[u] = pc[u] /\ allocated' = allocated /\ registered' = registered
      BY <1>2 DEF Walk, Registry, Visit, Advance, Finish, nodes, history
    <2>2. allocated' \in Nat /\ allocated' >= allocated
      BY <2>1 DEF Node
    <2> HIDE DEF IInv, TypeOK
    <2> QED
      BY <2>1, <2>2, WalkUndisturbed
  <1>3. ASSUME NEW r \in Registrars, Registry(u, r)
        PROVE  WalkOf(u)'
    <2>1. /\ snapshot'[u] = registered[r] /\ seen'[u] = <<>> /\ registered' = registered
          /\ pc'[u] = "visit" /\ allocated' = allocated
      BY <1>3 DEF Registry, nodes
    <2>2. ~ Writing
      BY <1>3, NoThreadAssumption DEF Registry, Writing, MutexInv, Inserting, OneRegistrar
    <2>3. Len(registered[r]) = Index(allocated, count[allocated])
      BY <2>2 DEF ContentsInv
    <2>4. head[r] = allocated
      BY DEF ListInv
    <2>5. CASE count[allocated] = 0
      <3>1. allocated = 1 /\ ptr'[u] = End
        BY <1>3, <2>4, <2>5 DEF Registry, ListInv, Node
      <3>2. Len(registered[r]) = 0
        BY <2>3, <2>5, <3>1, CapacityAssumption DEF Index
      <3> QED
        BY <2>1, <3>1, <3>2, OneRegistrar DEF WalkOf, OneRegistrar
    <2>6. CASE count[allocated] # 0
      <3>1. /\ ptr'[u] = [node |-> allocated, slot |-> count[allocated]]
            /\ ptr'[u] # End
        BY <1>3, <2>4, <2>6 DEF Registry, End, Null, Node
      <3>2. /\ allocated \in 1 .. allocated /\ count[allocated] \in Slot
        BY <2>6, CapacityAssumption, BoundsAssumption DEF Node, Slot
      <3>3. registered[r] \in Seq(Values)
        OBVIOUS
      <3> QED
        BY <2>1, <2>3, <3>1, <3>2, <3>3, OneRegistrar DEF WalkOf, At, Index, OneRegistrar
    <2> QED
      BY <2>5, <2>6
  <1>4. ASSUME Visit(u)
        PROVE  WalkOf(u)'
    <2> DEFINE s == snapshot[u]
               d == seen[u]
    <2>1. /\ Len(s) - Len(d) \in 1 .. Len(s)
          /\ seen'[u] = Append(d, s[Len(s) - Len(d)])
      BY <1>4, VisitedValue DEF Visit
    <2>2. /\ snapshot'[u] = s /\ ptr'[u] = ptr[u] /\ pc'[u] = "advance"
          /\ registered' = registered /\ allocated' = allocated
      BY <1>4 DEF Visit, nodes
    <2>3. ptr[u] # End /\ At(ptr[u], Len(s) - Len(d)) /\ WalkOf(u)
      BY <1>4 DEF Visit, WalkInv, WalkOf
    <2>4. /\ Len(seen'[u]) = Len(d) + 1
          /\ \A j \in 1 .. Len(d) : seen'[u][j] = d[j]
          /\ seen'[u][Len(d) + 1] = s[Len(s) - Len(d)]
      BY <2>1
    <2>5. /\ Len(d) + 1 <= Len(s)
          /\ Len(s) - Len(d) = Len(s) - (Len(d) + 1) + 1
          /\ Len(s) - Len(d) = Len(s) + 1 - (Len(d) + 1)
      BY <2>1
    <2>6. \A j \in 1 .. Len(d) + 1 : seen'[u][j] = s[Len(s) + 1 - j]
      <3>1. s \in Seq(Values) /\ d \in Seq(Values)
        OBVIOUS
      <3>2. \A j \in 1 .. Len(d) : d[j] = s[Len(s) + 1 - j]
        BY <2>3 DEF WalkOf
      <3>3. ASSUME NEW j \in 1 .. Len(d) + 1
            PROVE  seen'[u][j] = s[Len(s) + 1 - j]
        <4>1. CASE j = Len(d) + 1
          BY <2>4, <2>5, <4>1
        <4>2. CASE j \in 1 .. Len(d)
          BY <2>4, <3>2, <4>2
        <4> QED
          BY <3>1, <4>1, <4>2
      <3> QED
        BY <3>3
    <2>7. ASSUME NEW q, NEW k, At(q, k)
          PROVE  At(q, k)'
      BY <2>2, <2>7 DEF At, Index
    <2> QED
      BY <2>2, <2>3, <2>4, <2>5, <2>6, <2>7 DEF WalkOf
  <1>5. ASSUME Advance(u)
        PROVE  WalkOf(u)'
    <2> DEFINE k == Len(snapshot[u]) - Len(seen[u])
               p == ptr[u]
    <2>1. /\ UNCHANGED <<snapshot, seen, registered, allocated>>
          /\ pc'[u] = "visit" /\ ptr'[u] = Before(p)
      BY <1>5 DEF Advance, nodes, history
    <2>2. p # End /\ At(p, k + 1) /\ WalkOf(u) /\ p \in Position
      BY <1>5 DEF Advance, WalkInv, WalkOf
    <2>3. IF Before(p) = End THEN k = 0 ELSE At(Before(p), k)
      <3>1. k \in Int
        OBVIOUS
      <3> QED
        BY <2>2, <3>1, BeforePlace
    <2> QED
      BY <2>1, <2>2, <2>3 DEF WalkOf, At, Index
  <1>6. ASSUME Finish(u)
        PROVE  WalkOf(u)'
    BY <1>6 DEF Finish, nodes, history, WalkInv, WalkOf
  <1>7. CASE UNCHANGED vars
    <2>1. UNCHANGED <<ptr, snapshot, seen, pc, allocated, registered>>
      BY <1>7 DEF vars, nodes, history
    <2> QED
      BY <2>1, WalkUndisturbed DEF Node
  <1> QED
    BY <1>1, <1>2, <1>3, <1>4, <1>5, <1>6, <1>7 DEF Next, Walk

-----------------------------------------------------------------------------
\* The invariant holds from the start ...
LEMMA InitInv == Init => IInv
  <1> SUFFICES ASSUME Init
               PROVE  IInv
    OBVIOUS
  <1> USE CapacityAssumption, BoundsAssumption DEF Init, Node, Slot, Null, tail
  <1>1. TypeOK
    BY DEF TypeOK, End
  <1>2. MutexInv
    BY DEF MutexInv, Inserting
  <1>3. ListInv
    BY DEF ListInv
  <1>4. ContentsInv
    <2>1. ~ Writing
      BY DEF Writing
    <2>2. Index(1, 0) = 0
      BY DEF Index
    <2>3. \A i \in Slot : Index(1, i) > 0
      BY DEF Index
    <2>4. allocated = 1 /\ count[1] = 0
      OBVIOUS
    <2>5. \A r \in Registrars : Len(registered[r]) = 0
      OBVIOUS
    <2>6. ASSUME NEW n \in 1 .. allocated, NEW i \in Slot
          PROVE  ~ Index(n, i) <= 0
      BY <2>3, <2>4 DEF Index
    <2> HIDE DEF Init
    <2> QED
      BY <2>1, <2>2, <2>4, <2>5, <2>6 DEF ContentsInv
  <1>5. WalkInv
    BY DEF WalkInv, WalkOf, Walking
  <1> QED
    BY <1>1, <1>2, <1>3, <1>4, <1>5 DEF IInv

\* ... and every step keeps it.
LEMMA StepInv ==
    ASSUME OneRegistrar, IInv, [Next]_vars
    PROVE  IInv'
  BY TypeStep, MutexStep, ListStep, ContentsStep, WalkStep DEF IInv, WalkInv

\* IInv is an invariant of every registrar that is the only one of its type.
THEOREM Invariance == OneRegistrar => (Spec => []IInv)
  <1> SUFFICES ASSUME OneRegistrar
               PROVE  Spec => []IInv
    OBVIOUS
  <1>1. IInv /\ [Next]_vars => IInv'
    BY StepInv
  <1> QED
    BY <1>1, InitInv, PTL DEF Spec

\* Every reachable state is well typed: in particular no count exceeds the
\* node and no iterator leaves the slots of a node.
THEOREM TypeCorrect == OneRegistrar => (Spec => []TypeOK)
  <1>1. IInv => TypeOK
    BY DEF IInv
  <1> QED
    BY <1>1, Invariance, PTL

\* A walk that has ended visited exactly what was registered when registry()
\* was invoked, newest first (registration/registrar.h:13-15).
THEOREM WalksAreExact == OneRegistrar => (Spec => []SnapshotExact)
  <1>1. ASSUME IInv
        PROVE  SnapshotExact
    <2> SUFFICES ASSUME NEW t \in Threads, ~ Walking(t)
                 PROVE  seen[t] = Reverse(snapshot[t])
      BY DEF SnapshotExact
    <2> DEFINE s == snapshot[t]
               d == seen[t]
    <2>1. s \in Seq(Values) /\ d \in Seq(Values)
      BY <1>1 DEF IInv, TypeOK
    <2>2. Len(d) = Len(s) /\ \A k \in 1 .. Len(d) : d[k] = s[Len(s) + 1 - k]
      BY <1>1 DEF IInv, WalkInv, WalkOf
    <2>3. Reverse(s) = [k \in 1 .. Len(s) |-> s[(Len(s) - k) + 1]]
      BY DEF Reverse
    <2> QED
      BY <2>1, <2>2, <2>3
  <1> QED
    BY <1>1, Invariance, PTL

\* The unlocked iterator never reads the slot that is being written.
THEOREM WalksDoNotRace == OneRegistrar => (Spec => []NoSlotRace)
  <1> SUFFICES ASSUME OneRegistrar
               PROVE  Spec => []NoSlotRace
    OBVIOUS
  <1>1. ASSUME IInv
        PROVE  NoSlotRace
    <2> USE <1>1 DEF IInv
    <2> SUFFICES ASSUME NEW t \in Threads, NEW w \in Threads,
                        Walking(t), ptr[t] # End, pc[w] \in {"increment", "write"}
                 PROVE  ptr[t] # [node |-> head[target[w]],
                                  slot |-> IF pc[w] = "increment"
                                           THEN count[head[target[w]]] + 1
                                           ELSE count[head[target[w]]]]
      BY DEF NoSlotRace
    <2> DEFINE r == target[w]
               n == ptr[t].node
               i == ptr[t].slot
    <2>1. r \in Registrars /\ head[r] = allocated
      BY DEF TypeOK, ListInv
    <2>2. /\ n \in 1 .. allocated /\ i \in Slot
          /\ Index(n, i) <= Len(registered[r])
      BY <2>1 DEF WalkInv, WalkOf, At, Walking, TypeOK
    <2>3. allocated \in Nat \ {0} /\ count[allocated] \in Nat
      BY BoundsAssumption, CapacityAssumption DEF TypeOK, Node
    <2>4. CASE pc[w] = "increment"
      <3>1. ~ Writing
        BY <2>4, Exclusion DEF Writing, Inserting
      <3>2. Index(n, i) <= Index(allocated, count[allocated])
        BY <2>1, <2>2, <3>1 DEF ContentsInv
      <3>3. /\ Index(allocated, count[allocated]) \in Nat
            /\ Index(allocated, count[allocated] + 1) \in Nat
            /\ Index(allocated, count[allocated] + 1)
                  - Index(allocated, count[allocated]) = 1
        BY <2>3, CapacityAssumption, SMT DEF Index
      <3>4. ~ (n = allocated /\ i = count[allocated] + 1)
        BY <3>2, <3>3
      <3> QED
        BY <2>1, <2>4, <3>4
    <2>5. CASE pc[w] = "write"
      <3>1. Writing
        BY <2>5 DEF Writing
      <3>2. Index(n, i) <= Index(allocated, count[allocated]) - 1
        BY <2>1, <2>2, <3>1 DEF ContentsInv
      <3>3. Index(allocated, count[allocated]) \in Nat
        BY <2>3, CapacityAssumption, SMT DEF Index
      <3>4. ~ (n = allocated /\ i = count[allocated])
        BY <3>2, <3>3
      <3> QED
        BY <2>1, <2>5, <3>4
    <2> QED
      BY <2>4, <2>5
  <1> QED
    BY <1>1, Invariance, PTL

-----------------------------------------------------------------------------
\* The nodes implement the abstract list: walking the nodes down from the
\* newest slot delivers the items of the snapshot, one by one, and an
\* insertion becomes visible at one instant.
THEOREM Implementation == OneRegistrar => (Spec => ImplementsSpec)
  <1> SUFFICES ASSUME OneRegistrar
               PROVE  Spec => ImplementsSpec
    OBVIOUS
  <1> DEFINE W == {t \in Threads : Walking(t)}
  <1>1. Init => Abstract!Init
    BY DEF Init, Abstract!Init, Walking
  <1>2. ASSUME IInv, [Next]_vars
        PROVE  [Abstract!Next]_(Abstract!vars)
    <2> USE <1>2 DEF IInv, TypeOK, Goto
    <2>1. ASSUME NEW t \in Threads, NEW r \in Registrars, NEW v \in Values,
                 InsertLock(t, r, v)
          PROVE  UNCHANGED Abstract!vars
      BY <2>1 DEF InsertLock, history, Walking, Abstract!vars
    <2>2. ASSUME NEW t \in Threads, HasRoom(t) \/ Increment(t) \/ NewNode(t) \/ Unlock(t)
          PROVE  UNCHANGED Abstract!vars
      BY <2>2 DEF HasRoom, Increment, NewNode, Unlock, history, Walking, Abstract!vars
    <2>3. ASSUME NEW t \in Threads, WriteSlot(t)
          PROVE  Abstract!Next
      <3>1. argument[t] \in Values /\ target[t] \in Registrars
        BY <2>3 DEF WriteSlot, ListInv
      <3>2. Abstract!Insert(target[t], argument[t])
        BY <2>3 DEF WriteSlot, Walking, Abstract!Insert
      <3> QED
        BY <3>1, <3>2 DEF Abstract!Next
    <2>4. ASSUME NEW t \in Threads, NEW r \in Registrars, Registry(t, r)
          PROVE  Abstract!Next
      <3>1. t \notin W /\ W' = W \union {t}
        BY <2>4 DEF Registry, Walking
      <3>2. Abstract!Registry(t, r)
        BY <2>4, <3>1 DEF Registry, Abstract!Registry
      <3> QED
        BY <3>2 DEF Abstract!Next
    <2>5. ASSUME NEW t \in Threads, Visit(t)
          PROVE  Abstract!Next
      <3>1. t \in W /\ W' = W
        BY <2>5 DEF Visit, Walking
      <3>2. /\ Len(snapshot[t]) - Len(seen[t]) \in 1 .. Len(snapshot[t])
            /\ data[ptr[t].node][ptr[t].slot] = snapshot[t][Len(snapshot[t]) - Len(seen[t])]
        BY <2>5, VisitedValue
      <3>3. Len(seen[t]) < Len(snapshot[t])
        BY <3>2
      <3>4. Abstract!Visit(t)
        BY <2>5, <3>1, <3>2, <3>3 DEF Visit, Abstract!Visit
      <3> QED
        BY <3>4 DEF Abstract!Next
    <2>6. ASSUME NEW t \in Threads, Advance(t)
          PROVE  UNCHANGED Abstract!vars
      BY <2>6 DEF Advance, history, Walking, Abstract!vars
    <2>7. ASSUME NEW t \in Threads, Finish(t)
          PROVE  Abstract!Next
      <3>1. t \in W /\ W' = W \ {t}
        BY <2>7 DEF Finish, Walking
      <3>2. Len(seen[t]) = Len(snapshot[t])
        BY <2>7 DEF Finish, WalkInv, WalkOf
      <3>3. Abstract!Finish(t)
        BY <2>7, <3>1, <3>2 DEF Finish, history, Abstract!Finish
      <3> QED
        BY <3>3 DEF Abstract!Next
    <2>8. CASE UNCHANGED vars
      BY <2>8 DEF vars, history, Walking, Abstract!vars
    <2> QED
      BY <2>1, <2>2, <2>3, <2>4, <2>5, <2>6, <2>7, <2>8 DEF Next, Insert, Walk
  <1> QED
    BY <1>1, <1>2, Invariance, PTL DEF Spec, ImplementsSpec, Abstract!Spec
=============================================================================
