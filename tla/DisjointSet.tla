---------------------------- MODULE DisjointSet ----------------------------
(***************************************************************************)
(* nth::disjoint_set (container/disjoint_set.h) on the flyweight_map       *)
(* (container/flyweight_map.h) that holds its entries.                     *)
(*                                                                         *)
(* Every element is a node with a parent and a size; a handle is the       *)
(* address of a node, and so is a parent.  `representative` follows the    *)
(* parents to a root by recursion and, on its way back, hangs every node   *)
(* it came through directly below that root; `join` hangs the root of the  *)
(* smaller subset below the root of the larger one.                        *)
(*                                                                         *)
(* The nodes of a flyweight_map stay where they are when the map is moved  *)
(* (its deque hands over its buffers), and are made anew when it is        *)
(* copied, by copying every entry, its parent included.                    *)
(***************************************************************************)
EXTENDS Naturals, Sequences, SequencesExt, FiniteSets

CONSTANTS
    Sets,       \* the disjoint_set objects
    MaxNodes,   \* bound: entries ever made
    None        \* no root

Node == 1 .. MaxNodes

VARIABLES
    entries,    \* entries_ of every set: its nodes, oldest first
    movedFrom,  \* the sets that were moved from and not assigned since
    allocated,  \* nodes 1..allocated have been made
    parent,     \* parent() of a node
    size,       \* size() of a node
    pc,
    path,       \* the frames of representative_impl, oldest first
    root,       \* the value it returns, once a root is reached
    todo,       \* the argument of join that is still to be resolved
    found,      \* the representatives found for the current call
    subset,     \* history: the nodes a node has been joined with
    asked       \* the handles the current call was given

containers == <<entries, movedFrom>>
frames == <<path, root>>
arguments == <<todo, found>>
history == <<subset, asked>>
vars == <<allocated, parent, size, containers, pc, frames, arguments, history>>

NodesOf(s) == Range(entries[s])
Live == UNION {NodesOf(s) : s \in Sets}

Init ==
    /\ entries = [s \in Sets |-> <<>>]
    /\ movedFrom = {}
    /\ allocated = 0
    /\ parent = [n \in Node |-> n]
    /\ size = [n \in Node |-> 1]
    /\ pc = "idle"
    /\ path = <<>>
    /\ root = None
    /\ todo = <<>>
    /\ found = <<>>
    /\ subset = [n \in Node |-> {n}]
    /\ asked = <<>>

Goto(from, to) == pc = from /\ pc' = to

\* A set that was moved from still has the indices of its old elements in its
\* hash table, so that no use of it but assigning to it is defined.
Usable(s) == pc = "idle" /\ s \notin movedFrom

-----------------------------------------------------------------------------
(* insert, representative and join.                                        *)

\* A value that is not there yet; the others change nothing.
Insert(s) ==
    /\ Usable(s)
    /\ allocated < MaxNodes
    /\ LET n == allocated + 1
       IN  /\ entries' = [entries EXCEPT ![s] = Append(@, n)]
           /\ allocated' = n
           /\ parent' = [parent EXCEPT ![n] = n]
           /\ size' = [size EXCEPT ![n] = 1]
           /\ subset' = [subset EXCEPT ![n] = {n}]
    /\ UNCHANGED <<movedFrom, pc, frames, arguments, asked>>

Call(h, rest) ==
    /\ Goto("idle", "descend")
    /\ path' = <<h>>
    /\ todo' = rest
    /\ asked' = <<h>> \o rest
    /\ UNCHANGED <<allocated, parent, size, containers, root, found, subset>>

\* With a handle that insert or find returned, at any time; nothing but the
\* node is looked at, which may be in another set by now.
\* find_representative is find and this.
Representative(s) == \E h \in NodesOf(s) : Call(h, <<>>)
Join(s) == \E a, b \in NodesOf(s) : Call(a, <<b>>)

\* return parent = representative_impl(parent): one frame deeper.
Descend ==
    /\ pc = "descend" /\ parent[Last(path)] # Last(path)
    /\ path' = Append(path, parent[Last(path)])
    /\ UNCHANGED <<allocated, parent, size, containers, pc, root, arguments, history>>

\* if (parent == h) { return h; }
Reach ==
    /\ Goto("descend", "compress")
    /\ parent[Last(path)] = Last(path)
    /\ root' = Last(path)
    /\ path' = Front(path)
    /\ UNCHANGED <<allocated, parent, size, containers, arguments, history>>

\* Mutant of Compress: the two sides of the assignment are swapped.
CompressSwapped ==
    /\ pc = "compress" /\ path # <<>>
    /\ parent' = [parent EXCEPT ![root] = Last(path)]
    /\ path' = Front(path)
    /\ UNCHANGED <<allocated, size, containers, pc, root, arguments, history>>

\* Mutant of Compress: the frame that was returned to is not left.
CompressAgain ==
    /\ pc = "compress" /\ path # <<>>
    /\ parent' = [parent EXCEPT ![Last(path)] = root]
    /\ UNCHANGED <<allocated, size, containers, pc, frames, arguments, history>>

\* The assignment of a frame that is returned to.
Compress ==
    /\ pc = "compress" /\ path # <<>>
    /\ parent' = [parent EXCEPT ![Last(path)] = root]
    /\ path' = Front(path)
    /\ UNCHANGED <<allocated, size, containers, pc, root, arguments, history>>

\* The call returns: its local variables are gone.
Return ==
    /\ pc' = "idle"
    /\ path' = <<>> /\ root' = None
    /\ todo' = <<>> /\ found' = <<>> /\ asked' = <<>>
    /\ UNCHANGED <<allocated, containers>>

\* representative returns to its caller.
Resolved ==
    /\ pc = "compress" /\ path = <<>> /\ Len(asked) = 1
    /\ Return
    /\ UNCHANGED <<parent, size, subset>>

\* Mutant of JoinNext: b = representative(a).
JoinNextSame ==
    /\ pc = "compress" /\ path = <<>> /\ Len(asked) = 2
    /\ found' = Append(found, root)
    /\ root' = None
    /\ IF todo = <<>>
       THEN pc' = "link" /\ UNCHANGED <<path, todo>>
       ELSE pc' = "descend" /\ path' = <<asked[1]>> /\ todo' = <<>>
    /\ UNCHANGED <<allocated, parent, size, containers, history>>

\* representative returns to join, which resolves its second argument.
JoinNext ==
    /\ pc = "compress" /\ path = <<>> /\ Len(asked) = 2
    /\ found' = Append(found, root)
    /\ root' = None
    /\ IF todo = <<>>
       THEN pc' = "link" /\ UNCHANGED <<path, todo>>
       ELSE pc' = "descend" /\ path' = todo /\ todo' = <<>>
    /\ UNCHANGED <<allocated, parent, size, containers, history>>

\* if (a.size() < b.size()) { std::swap(a, b); }
Larger == IF size[found[1]] < size[found[2]] THEN found[2] ELSE found[1]
Smaller == IF size[found[1]] < size[found[2]] THEN found[1] ELSE found[2]

\* b.parent() = a; a.size() += b.size();
Hang(b, a) ==
    LET joined == subset[a] \union subset[b]
    IN  /\ parent' = [parent EXCEPT ![b] = a]
        /\ size' = [size EXCEPT ![a] = @ + size[b]]
        /\ subset' = [n \in Node |-> IF n \in joined THEN joined ELSE subset[n]]

\* Mutant of Link: no swap, the second root always goes below the first.
LinkInOrder ==
    /\ pc = "link" /\ Return
    /\ IF found[1] = found[2] THEN UNCHANGED <<parent, size, subset>>
       ELSE Hang(found[2], found[1])

\* Mutant of Link: the subsets are joined and b keeps its parent.
LinkForgotten ==
    /\ pc = "link" /\ Return
    /\ subset' = [n \in Node |->
                    IF n \in subset[found[1]] \union subset[found[2]]
                    THEN subset[found[1]] \union subset[found[2]] ELSE subset[n]]
    /\ UNCHANGED <<parent, size>>

\* Mutant of Link: no return when the arguments were joined already.
LinkSame ==
    /\ pc = "link" /\ Return
    /\ Hang(Smaller, Larger)

\* The rest of join: the roots are compared, and the smaller one is hung.
Link ==
    /\ pc = "link" /\ Return
    /\ IF found[1] = found[2] THEN UNCHANGED <<parent, size, subset>>
       ELSE Hang(Smaller, Larger)

-----------------------------------------------------------------------------
(* Moving and copying one set to another.                                  *)

Move(s, t) ==
    /\ Usable(s) /\ s # t
    /\ entries' = [entries EXCEPT ![s] = <<>>, ![t] = entries[s]]
    /\ movedFrom' = (movedFrom \ {t}) \union {s}
    /\ UNCHANGED <<allocated, parent, size, pc, frames, arguments, history>>

\* A new node for every entry, with the size and the parent of the old one.
Copy(s, t) ==
    LET old == entries[s]
        made == (allocated + 1) .. (allocated + Len(old))
        origin(n) == old[n - allocated]
        \* The copy of a subset is the subset of the copies.
        copies(m) == {n \in made : origin(n) \in subset[m]}
    IN  /\ Usable(s) /\ s # t
        /\ allocated + Len(old) <= MaxNodes
        /\ entries' = [entries EXCEPT ![t] = [i \in 1 .. Len(old) |-> allocated + i]]
        /\ movedFrom' = movedFrom \ {t}
        /\ allocated' = allocated + Len(old)
        /\ parent' = [n \in Node |-> IF n \in made THEN parent[origin(n)] ELSE parent[n]]
        /\ size' = [n \in Node |-> IF n \in made THEN size[origin(n)] ELSE size[n]]
        /\ subset' = [n \in Node |-> IF n \in made THEN copies(origin(n)) ELSE subset[n]]
        /\ UNCHANGED <<pc, frames, arguments, asked>>

Continue == Descend \/ Reach \/ Compress \/ Resolved \/ JoinNext \/ Link

Next ==
    \/ \E s \in Sets : Insert(s) \/ Representative(s) \/ Join(s)
    \/ Continue
    \/ \E s, t \in Sets : Move(s, t)

Spec == Init /\ [][Next]_vars

\* One thread runs a call to its end.
FairSpec == Spec /\ WF_vars(Continue)

\* The same with sets that are copied.
CopySpec == Init /\ [][Next \/ \E s, t \in Sets : Copy(s, t)]_vars

-----------------------------------------------------------------------------
\* Types of the nodes, the sets and the call.
TypeOK ==
    /\ entries \in [Sets -> Seq(1 .. allocated)]
    /\ movedFrom \subseteq Sets
    /\ allocated \in 0 .. MaxNodes
    /\ parent \in [Node -> Node]
    /\ size \in [Node -> 1 .. MaxNodes]
    /\ pc \in {"idle", "descend", "compress", "link"}
    /\ root \in Live \union {None}
    /\ \A handles \in {path, todo, found, asked} : handles \in Seq(Live)
    /\ subset \in [Node -> SUBSET Node]

IsRoot(n) == parent[n] = n

\* Whatever has been joined, resolved and moved so far, in whatever order, and
\* also halfway through hanging up nodes anew: every subset has exactly one
\* root, and the parents of its nodes lead nowhere else, so that two elements
\* have one representative just if they were joined (disjoint_set.h:36-38).
OneRoot ==
    \A n \in Live :
       /\ parent[n] \in subset[n]
       /\ Cardinality({r \in subset[n] : IsRoot(r)}) = 1

\* A call answers with an element of the subset it was asked about
\* (disjoint_set.h:98-103).
RepresentativeInSubset ==
    pc = "compress" => root \in subset[asked[Len(found) + 1]]

\* A node below another one heads at most half as large a subset, so that the
\* recursion of representative_impl is at most log2 of the elements deep; and
\* the size of a root is that of its subset.
Balanced ==
    \A n \in Live :
       /\ ~ IsRoot(n) => 2 * size[n] <= size[parent[n]]
       /\ IsRoot(n) => size[n] = Cardinality(subset[n])

\* representative changes no subset: roots are only lost to join, one at a
\* time ("This function is idempotent", disjoint_set.h:103).
RootsKept ==
    [][\A n \in Live \intersect Live' :
          IsRoot(n) => IsRoot(n)' \/ pc = "link"]_vars

\* Every call returns: the parents form no cycle.
CallsReturn == pc # "idle" ~> pc = "idle"
=============================================================================
