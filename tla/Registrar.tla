----------------------------- MODULE Registrar -----------------------------
(***************************************************************************)
(* nth::registrar<T> (registration/registrar.h) and the list of nodes it   *)
(* is made of (registration/internal/registry_node.h).                     *)
(*                                                                         *)
(* A registrar is a linked list of nodes of Capacity values each (6 in the *)
(* code).  `insert` and `registry` run under the registrar's mutex; the    *)
(* iterator that `registry` returns is then advanced with no lock at all,  *)
(* while other threads go on inserting.  The first node, `tail_`, is a     *)
(* STATIC member: every registrar of the same T starts from the same node, *)
(* each with a mutex of its own.                                           *)
(***************************************************************************)
EXTENDS Naturals, Sequences, SequencesExt

CONSTANTS
    Registrars,   \* the registrar<T> objects of one type T
    Threads,      \* the threads that use them
    Values,       \* the objects of type T that can be registered
    Capacity,     \* values in a node: 6 in the code
    MaxNodes,     \* bound: nodes the allocator can hand out
    MaxInserts,   \* bound: insertions of a behaviour
    NoThread,     \* a mutex that nobody holds
    NoValue       \* a slot that was never written

ASSUME CapacityAssumption == Capacity \in Nat \ {0}
ASSUME BoundsAssumption == MaxNodes \in Nat \ {0} /\ MaxInserts \in Nat
ASSUME NoThreadAssumption == NoThread \notin Threads
ASSUME NoValueAssumption == NoValue \notin Values

Node == 1 .. MaxNodes
Slot == 1 .. Capacity     \* data_[1..6]; data_[0] is the link, see `next`
Null == 0                 \* nullptr: as a link, and as the node of end()
tail == 1                 \* the static node registrar<T>::tail_

VARIABLES
    next,         \* data_[0] of every node
    data,         \* data_[1..Capacity] of every node
    count,        \* count_ of every node
    allocated,    \* nodes 1..allocated exist
    head,         \* head_ of every registrar
    mutex,        \* the thread that holds mutex_ of every registrar
    pc,           \* where every thread is
    target,       \* the registrar a thread's call of insert is on
    argument,     \* the value a thread's call of insert registers
    ptr,          \* the iterator of a thread: a node and a slot of it
    inserts,      \* insertions begun (bounds the behaviours)
    registered,   \* history: what was registered, oldest first
    snapshot,     \* history: what was registered at the thread's registry()
    seen          \* history: what the thread's latest walk has visited

nodes == <<next, data, count, allocated, head>>
calls == <<target, argument>>
history == <<registered, snapshot, seen>>
vars == <<nodes, mutex, pc, calls, ptr, inserts, history>>

End == [node |-> Null, slot |-> 0]     \* const_iterator(): a null pointer
Position == [node : Node, slot : Slot]

Init ==
    /\ next = [n \in Node |-> Null]
    /\ data = [n \in Node |-> [i \in Slot |-> NoValue]]
    /\ count = [n \in Node |-> 0]
    /\ allocated = tail
    /\ head = [r \in Registrars |-> tail]
    /\ mutex = [r \in Registrars |-> NoThread]
    /\ pc = [t \in Threads |-> "idle"]
    /\ target \in [Threads -> Registrars]
    /\ argument = [t \in Threads |-> NoValue]
    /\ ptr = [t \in Threads |-> End]
    /\ inserts = 0
    /\ registered = [r \in Registrars |-> <<>>]
    /\ snapshot = [t \in Threads |-> <<>>]
    /\ seen = [t \in Threads |-> <<>>]

Goto(t, from, to) ==
    /\ pc[t] = from
    /\ pc' = [pc EXCEPT ![t] = to]

-----------------------------------------------------------------------------
(* insert(v), one action per access to the shared nodes.                   *)

\* Mutant of InsertLock: insert takes no lock.
InsertLockMissing(t, r, v) ==
    /\ Goto(t, "idle", "check")
    /\ inserts < MaxInserts
    /\ mutex' = [mutex EXCEPT ![r] = t]
    /\ target' = [target EXCEPT ![t] = r]
    /\ argument' = [argument EXCEPT ![t] = v]
    /\ inserts' = inserts + 1
    /\ UNCHANGED <<nodes, ptr, history>>

\* absl::MutexLock lock(&mutex_).  A thread waiting for the mutex is "idle".
InsertLock(t, r, v) ==
    /\ Goto(t, "idle", "check")
    /\ mutex[r] = NoThread
    /\ inserts < MaxInserts
    /\ mutex' = [mutex EXCEPT ![r] = t]
    /\ target' = [target EXCEPT ![t] = r]
    /\ argument' = [argument EXCEPT ![t] = v]
    /\ inserts' = inserts + 1
    /\ UNCHANGED <<nodes, ptr, history>>

\* Mutant of HasRoom: a full node takes one more.
HasRoomOffByOne(t) ==
    /\ count[head[target[t]]] <= Capacity
    /\ Goto(t, "check", "increment")
    /\ UNCHANGED <<nodes, mutex, calls, ptr, inserts, history>>

\* head_->count() < 6 ...
HasRoom(t) ==
    /\ count[head[target[t]]] < Capacity
    /\ Goto(t, "check", "increment")
    /\ UNCHANGED <<nodes, mutex, calls, ptr, inserts, history>>

\* ... head_->increment_count(): the slot is counted before it is written.
Increment(t) ==
    /\ Goto(t, "increment", "write")
    /\ count' = [count EXCEPT ![head[target[t]]] = @ + 1]
    /\ UNCHANGED <<next, data, allocated, head>>
    /\ UNCHANGED <<mutex, calls, ptr, inserts, history>>

\* Mutant of NewNode: the new node starts empty, as tail_ does.
NewNodeEmpty(t) ==
    /\ ~ count[head[target[t]]] < Capacity
    /\ allocated < MaxNodes
    /\ Goto(t, "check", "write")
    /\ allocated' = allocated + 1
    /\ next' = [next EXCEPT ![allocated + 1] = head[target[t]]]
    /\ head' = [head EXCEPT ![target[t]] = allocated + 1]
    /\ UNCHANGED <<data, count, mutex, calls, ptr, inserts, history>>

\* ... or head_ = new registry_node(head_, 1).
NewNode(t) ==
    /\ ~ count[head[target[t]]] < Capacity
    /\ allocated < MaxNodes
    /\ Goto(t, "check", "write")
    /\ allocated' = allocated + 1
    /\ next' = [next EXCEPT ![allocated + 1] = head[target[t]]]
    /\ count' = [count EXCEPT ![allocated + 1] = 1]
    /\ head' = [head EXCEPT ![target[t]] = allocated + 1]
    /\ UNCHANGED <<data, mutex, calls, ptr, inserts, history>>

\* *(reinterpret_cast<value_type*>(head_->data_) + head_->count()) = v
WriteSlot(t) ==
    LET n == head[target[t]]
    IN  /\ Goto(t, "write", "unlock")
        /\ data' = [data EXCEPT ![n][count[n]] = argument[t]]
        /\ registered' =
              [registered EXCEPT ![target[t]] = Append(@, argument[t])]
        /\ UNCHANGED <<next, count, allocated, head>>
        /\ UNCHANGED <<mutex, calls, ptr, inserts, snapshot, seen>>

\* ~MutexLock
Unlock(t) ==
    /\ Goto(t, "unlock", "idle")
    /\ mutex' = [mutex EXCEPT ![target[t]] = NoThread]
    /\ UNCHANGED <<nodes, calls, ptr, inserts, history>>

Insert(t) ==
    \/ \E r \in Registrars, v \in Values : InsertLock(t, r, v)
    \/ HasRoom(t)
    \/ Increment(t)
    \/ NewNode(t)
    \/ WriteSlot(t)
    \/ Unlock(t)

-----------------------------------------------------------------------------
(* registry() and the loop over the range it returns.                      *)

\* Mutant of Registry: the newest slot is looked up without the mutex.
RegistryUnlocked(t, r) ==
    LET n == head[r]
    IN  /\ Goto(t, "idle", "visit")
        /\ ptr' = [ptr EXCEPT ![t] =
                      IF count[n] = 0 THEN End
                      ELSE [node |-> n, slot |-> count[n]]]
        /\ snapshot' = [snapshot EXCEPT ![t] = registered[r]]
        /\ seen' = [seen EXCEPT ![t] = <<>>]
        /\ UNCHANGED <<nodes, mutex, calls, inserts, registered>>

\* The address of the newest slot, taken under the mutex.  Nothing observes
\* the registrar between its lock and its unlock, so they are one step.
Registry(t, r) ==
    LET n == head[r]
    IN  /\ Goto(t, "idle", "visit")
        /\ mutex[r] = NoThread
        /\ ptr' = [ptr EXCEPT ![t] =
                      IF count[n] = 0 THEN End
                      ELSE [node |-> n, slot |-> count[n]]]
        /\ snapshot' = [snapshot EXCEPT ![t] = registered[r]]
        /\ seen' = [seen EXCEPT ![t] = <<>>]
        /\ UNCHANGED <<nodes, mutex, calls, inserts, registered>>

\* *it, with no lock held.
Visit(t) ==
    /\ Goto(t, "visit", "advance")
    /\ ptr[t] # End
    /\ seen' = [seen EXCEPT ![t] = Append(@, data[ptr[t].node][ptr[t].slot])]
    /\ UNCHANGED <<nodes, mutex, calls, ptr, inserts, registered, snapshot>>

\* Mutant of Before: the next node is entered one slot too low.
BeforeTooLow(p) ==
    IF p.slot > 1 THEN [p EXCEPT !.slot = @ - 1]
    ELSE IF next[p.node] = Null THEN End
    ELSE [node |-> next[p.node], slot |-> Capacity - 1]

\* operator++ steps down to data_[0], which is the link to the next node;
\* that node is entered at its last slot, whatever its count is.
Before(p) ==
    IF p.slot > 1 THEN [p EXCEPT !.slot = @ - 1]
    ELSE IF next[p.node] = Null THEN End
    ELSE [node |-> next[p.node], slot |-> Capacity]

\* Mutant of Advance: at the last slot of the list it waits for a next node.
AdvanceWaits(t) ==
    /\ pc[t] = "advance"
    /\ IF Before(ptr[t]) = End
       THEN UNCHANGED vars
       ELSE /\ Goto(t, "advance", "visit")
            /\ ptr' = [ptr EXCEPT ![t] = Before(@)]
            /\ UNCHANGED <<nodes, mutex, calls, inserts, history>>

Advance(t) ==
    /\ Goto(t, "advance", "visit")
    /\ ptr' = [ptr EXCEPT ![t] = Before(@)]
    /\ UNCHANGED <<nodes, mutex, calls, inserts, history>>

\* it == end()
Finish(t) ==
    /\ Goto(t, "visit", "idle")
    /\ ptr[t] = End
    /\ UNCHANGED <<nodes, mutex, calls, ptr, inserts, history>>

Walk(t) ==
    \/ \E r \in Registrars : Registry(t, r)
    \/ Visit(t)
    \/ Advance(t)
    \/ Finish(t)

Next == \E t \in Threads : Insert(t) \/ Walk(t)

Spec == Init /\ [][Next]_vars

\* A thread that has begun a call goes on with it; nobody has to begin one.
Continue(t) ==
    \/ HasRoom(t) \/ Increment(t) \/ NewNode(t) \/ WriteSlot(t) \/ Unlock(t)
    \/ Visit(t) \/ Advance(t) \/ Finish(t)

FairSpec == Spec /\ \A t \in Threads : WF_vars(Continue(t))

-----------------------------------------------------------------------------
\* Type correctness of the nodes, of the threads and of the history.
TypeOK ==
    /\ next \in [Node -> Node \union {Null}]
    /\ data \in [Node -> [Slot -> Values \union {NoValue}]]
    /\ count \in [Node -> 0 .. Capacity]
    /\ allocated \in Node
    /\ head \in [Registrars -> Node]
    /\ mutex \in [Registrars -> Threads \union {NoThread}]
    /\ pc \in [Threads -> {"idle", "check", "increment", "write", "unlock",
                           "visit", "advance"}]
    /\ target \in [Threads -> Registrars]
    /\ argument \in [Threads -> Values \union {NoValue}]
    /\ ptr \in [Threads -> Position \union {End}]
    /\ inserts \in Nat
    /\ registered \in [Registrars -> Seq(Values)]
    /\ snapshot \in [Threads -> Seq(Values)]
    /\ seen \in [Threads -> Seq(Values)]

Walking(t) == pc[t] \in {"visit", "advance"}

\* A walk that has ended visited exactly what was registered when registry()
\* was invoked, newest first: nothing registered later, nothing twice,
\* nothing lost where one node ends and the next begins
\* (registration/registrar.h:13-15).
SnapshotExact ==
    \A t \in Threads : ~ Walking(t) => seen[t] = Reverse(snapshot[t])

\* No thread walks over the slot another thread is writing: the iterator
\* takes no lock, so this is what makes the unlocked read no data race.
NoSlotRace ==
    \A t, w \in Threads :
        Walking(t) /\ ptr[t] # End /\ pc[w] \in {"increment", "write"}
        => ptr[t] # [node |-> head[target[w]],
                     slot |-> IF pc[w] = "increment"
                              THEN count[head[target[w]]] + 1
                              ELSE count[head[target[w]]]]

\* Every walk comes to an end, however many items are inserted meanwhile: a
\* new node is linked in front of the nodes a walk still has to visit.
WalkEnds == \A t \in Threads : Walking(t) ~> ~ Walking(t)

\* The nodes implement the list of RegistrarSpec: an insertion takes effect
\* when its slot is written, a call of registry when it takes the mutex.
Abstract == INSTANCE RegistrarSpec
              WITH walking <- {t \in Threads : Walking(t)}
ImplementsSpec == Abstract!Spec

-----------------------------------------------------------------------------
(* The inductive invariant behind these properties.  It holds when the     *)
(* type T has a single registrar, which is how the repository uses them.   *)

OneRegistrar == \A r, s \in Registrars : r = s

Inserting(t) == pc[t] \in {"check", "increment", "write", "unlock"}

\* The place in `registered` of what slot i of node n holds.
Index(n, i) == (n - 1) * Capacity + i

MutexInv == \A t \in Threads : Inserting(t) => mutex[target[t]] = t

\* Nodes are linked in the order they were allocated, and all but the newest
\* are full: this is why operator++ may enter a node at its last slot.
ListInv ==
    /\ \A r \in Registrars : head[r] = allocated
    /\ \A n \in 1 .. allocated : next[n] = n - 1
    /\ \A n \in 1 .. (allocated - 1) : count[n] = Capacity
    /\ allocated > 1 => count[allocated] >= 1
    /\ \A t \in Threads :
          /\ pc[t] \in {"check", "increment", "write"} => argument[t] \in Values
          /\ pc[t] = "increment" => count[allocated] < Capacity
          /\ pc[t] = "write" => count[allocated] >= 1

Writing == \E t \in Threads : pc[t] = "write"

\* The slots hold what was registered, except for the slot being written.
ContentsInv ==
    \A r \in Registrars :
       /\ Len(registered[r]) = IF Writing
                               THEN Index(allocated, count[allocated]) - 1
                               ELSE Index(allocated, count[allocated])
       /\ \A n \in 1 .. allocated, i \in Slot :
             Index(n, i) <= Len(registered[r])
             => data[n][i] = registered[r][Index(n, i)]

At(p, k) ==
    /\ p.node \in 1 .. allocated
    /\ p.slot \in Slot
    /\ Index(p.node, p.slot) = k

\* What a walk has seen and where its iterator stands add up to the snapshot.
WalkOf(t) ==
    LET s == snapshot[t]
        d == seen[t]
    IN  /\ Len(d) <= Len(s)
        /\ \A k \in 1 .. Len(d) : d[k] = s[Len(s) + 1 - k]
        /\ \A r \in Registrars : /\ Len(s) <= Len(registered[r])
                                 /\ \A k \in 1 .. Len(s) : s[k] = registered[r][k]
        /\ ~ Walking(t) => Len(d) = Len(s)
        /\ pc[t] = "visit" /\ ptr[t] = End => Len(d) = Len(s)
        /\ pc[t] = "visit" /\ ptr[t] # End => At(ptr[t], Len(s) - Len(d))
        /\ pc[t] = "advance" => /\ ptr[t] # End
                                /\ Len(d) >= 1
                                /\ At(ptr[t], Len(s) - Len(d) + 1)

WalkInv == \A t \in Threads : WalkOf(t)

\* Everything above together: the walks read the list the insertions built.
IInv == TypeOK /\ MutexInv /\ ListInv /\ ContentsInv /\ WalkInv
=============================================================================
