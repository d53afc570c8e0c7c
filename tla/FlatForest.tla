----------------------------- MODULE FlatForest -----------------------------
(***************************************************************************)
(* The flat forest (container/flat_forest.h).                              *)
(*                                                                         *)
(* The nodes of a forest lie in one vector in post order, each with the    *)
(* number of nodes in its subtree; that number is all there is of the      *)
(* structure.  A node at position p (from 1) has the positions             *)
(* p - nodes[p] + 1 .. p as its subtree.  append_ancestor puts a new root  *)
(* above all roots behind a cutpoint; that the cutpoint does not lie       *)
(* within a tree is checked by a walk over the roots from the last to the  *)
(* first, here one step at a time.                                         *)
(***************************************************************************)
EXTENDS Integers, Sequences

CONSTANT MaxTrees   \* bound: nodes of the forest

VARIABLES
    nodes,      \* nodes_: the subtree sizes
    step,       \* where append_ancestor is
    index,      \* its argument
    loc,        \* loc of IsValidCutpoint
    parents     \* history: the parent of every node, 0 for none

vars == <<nodes, step, index, loc, parents>>

Init ==
    /\ nodes = <<>>
    /\ step = "idle"
    /\ index = 0
    /\ loc = 0
    /\ parents = <<>>

AppendLeaf ==
    /\ step = "idle" /\ Len(nodes) < MaxTrees
    /\ nodes' = Append(nodes, 1)
    /\ parents' = Append(parents, 0)
    /\ UNCHANGED <<step, index, loc>>

\* append_ancestor(index), with the index of any node; IsValidCutpoint begins.
AppendAncestor(i) ==
    /\ step = "idle" /\ Len(nodes) < MaxTrees
    /\ step' = "check"
    /\ index' = i
    /\ loc' = Len(nodes)
    /\ UNCHANGED <<nodes, parents>>

\* Mutant of SkipTree: the walk visits every node.
SkipNode ==
    /\ step = "check" /\ loc > index
    /\ loc' = loc - 1
    /\ UNCHANGED <<nodes, step, index, parents>>

\* Mutant of SkipTree: the walk goes on from the cutpoint.
SkipOneMore ==
    /\ step = "check" /\ loc >= index /\ loc > 0
    /\ loc' = loc - nodes[loc]
    /\ UNCHANGED <<nodes, step, index, parents>>

\* Mutant of SkipTree: the walk stays where it is.
SkipNothing ==
    /\ step = "check" /\ loc > index
    /\ UNCHANGED vars

\* One turn of the loop: from the end of a tree to its beginning.
SkipTree ==
    /\ step = "check" /\ loc > index
    /\ loc' = loc - nodes[loc]
    /\ UNCHANGED <<nodes, step, index, parents>>

\* Mutant of Adopt: the new node is not counted.
AdoptOthers ==
    LET new == Len(nodes) + 1
    IN  /\ step = "check" /\ loc = index
        /\ nodes' = Append(nodes, Len(nodes) - index)
        /\ parents' = Append([k \in DOMAIN parents |->
                                IF k > index /\ parents[k] = 0 THEN new ELSE parents[k]], 0)
        /\ step' = "idle" /\ index' = 0 /\ loc' = 0

\* loc == index: the new node is appended, and is the parent of the roots
\* from the cutpoint on.
Adopt ==
    LET new == Len(nodes) + 1
    IN  /\ step = "check" /\ loc = index
        /\ nodes' = Append(nodes, Len(nodes) - index + 1)
        /\ parents' = Append([k \in DOMAIN parents |->
                                IF k > index /\ parents[k] = 0 THEN new ELSE parents[k]], 0)
        /\ step' = "idle" /\ index' = 0 /\ loc' = 0

\* loc < index: NTH_REQUIRE fails, and the process is aborted.
Refuse ==
    /\ step = "check" /\ loc < index
    /\ step' = "aborted"
    /\ UNCHANGED <<nodes, index, loc, parents>>

Continue == SkipTree \/ Adopt \/ Refuse

Next == AppendLeaf \/ (\E i \in 0 .. Len(nodes) - 1 : AppendAncestor(i)) \/ Continue

Spec == Init /\ [][Next]_vars

\* One thread runs every call to its end.
FairSpec == Spec /\ WF_vars(Continue)

-----------------------------------------------------------------------------
Positions == 1 .. Len(nodes)

\* Where the subtree of the node at p begins, less one.
Before(p) == p - nodes[p]

\* descendants(post_order), from the size of the subtree.
Descendants(p) == (Before(p) + 1) .. (p - 1)

\* A sibling_iterator at position p with n_ = n, up to its sentinel.
Siblings(p, n) ==
    LET visited[k \in 0 .. n] ==
          IF k = 0 THEN {} ELSE {p - n + k} \union visited[k - nodes[p - n + k]]
    IN  visited[n]
Children(p) == Siblings(p - 1, nodes[p] - 1)
Roots == Siblings(Len(nodes), Len(nodes))

-----------------------------------------------------------------------------
\* Types; loc never leaves the vector, where it would index before the first
\* node.
TypeOK ==
    /\ nodes \in Seq(Nat \ {0})
    /\ step \in {"idle", "check", "aborted"}
    /\ index \in 0 .. Len(nodes)
    /\ loc \in 0 .. Len(nodes)

\* Subtrees are nested or disjoint, and inside the vector: no sequence of
\* appends cuts a tree in two.
Laminar ==
    \A p \in Positions :
       /\ Before(p) \in 0 .. p - 1
       /\ \A q \in p + 1 .. Len(nodes) : Before(q) >= p \/ Before(q) <= Before(p)

\* The trees that are read back from the sizes are those that were built: the
\* children and the roots the sibling iterators visit, and the descendants.
TreesExact ==
    /\ Roots = {k \in Positions : parents[k] = 0}
    /\ \A p \in Positions :
          /\ Children(p) = {k \in Positions : parents[k] = p}
          /\ \A k \in Positions :
                parents[k] # 0 =>
                   (k \in Descendants(p) <=> parents[k] = p \/ parents[k] \in Descendants(p))

\* IsValidCutpoint refuses an index only if a tree would be cut in two there.
Across(n) == \E p \in Positions : Before(p) < n /\ n < p
RefusedRightly == step = "aborted" => Across(index)

\* The walk of IsValidCutpoint is always at the end of a tree or before the
\* first: no subtree reaches across; and it runs past the index it looks for
\* only over a tree.
WalkOnRoots ==
    /\ step = "check" => /\ \A p \in loc + 1 .. Len(nodes) : Before(p) >= loc
                         /\ loc < index => Across(index)
    /\ step = "aborted" => Across(index)

IInv == TypeOK /\ Laminar /\ WalkOnRoots

\* append_ancestor returns, or aborts.
AppendReturns == step = "check" ~> step # "check"
=============================================================================
