--------------------------- MODULE TreeTraversal ---------------------------
(***************************************************************************)
(* traverse_tree (algorithm/tree.h): a preorder traversal with a stack of  *)
(* its own, on which lie the nodes to visit and, between them, tags for    *)
(* the calls to make when a subtree is entered, when its last child is     *)
(* next and when it is left.  Which of those a traverser has is up to it.  *)
(***************************************************************************)
EXTENDS Naturals, Sequences, SequencesExt

CONSTANTS
    Trees,      \* the trees: functions from nodes to the nodes each pushes
    Roots       \* bound: the stacks of nodes to begin with

Hooks == {"enter", "last", "exit"}

VARIABLES
    tree,       \* the children a traverser pushes, in the order it does
    roots,      \* history: what the stack was at first
    hooks,      \* which of the three functions the traverser has
    stack,      \* stack_
    events      \* history: the calls made

vars == <<tree, roots, hooks, stack, events>>

Tag(name) == [tag |-> name, node |-> 0]
Node(n) == [tag |-> "node", node |-> n]
Nodes(s) == [i \in DOMAIN s |-> Node(s[i])]

\* What the node that is visited leaves behind, below what it pushes.
LeftBehind(h) ==
    (IF "exit" \in h THEN <<Tag("exit")>> ELSE <<>>)
    \o (IF "last" \in h THEN <<Tag("last")>> ELSE <<>>)

\* Mutant of Arranged: the tag stays below the first child that was pushed.
ArrangedBelow(below, pushed, h) ==
    IF pushed = <<>> THEN below
    ELSE below \o LeftBehind(h) \o Nodes(pushed)
         \o (IF "enter" \in h THEN <<Tag("enter")>> ELSE <<>>)

\* The stack after a visit: a leaf takes its tags away again; otherwise the
\* tag for the last child changes places with that child, which was pushed
\* first, and the tag for the subtree is pushed.
Arranged(below, pushed, h) ==
    LET tagged == below \o LeftBehind(h)
        swapped == IF "last" \in h
                     THEN Front(tagged) \o <<Node(pushed[1]), Last(tagged)>>
                     ELSE tagged \o <<Node(pushed[1])>>
    IN  IF pushed = <<>> THEN below
        ELSE swapped \o Nodes(Tail(pushed))
             \o (IF "enter" \in h THEN <<Tag("enter")>> ELSE <<>>)

Init ==
    /\ tree \in Trees /\ roots \in Roots /\ hooks \in SUBSET Hooks
    /\ stack = Nodes(roots)
    /\ events = <<>>

\* Mutant of Call: one tag has no case, and the loop goes round for ever.
CallOfTwo(hook) ==
    /\ hook # "last"
    /\ stack # <<>> /\ Last(stack).tag = hook
    /\ stack' = Front(stack)

\* A tag: it is popped and the function called.
Call(hook) ==
    /\ stack # <<>> /\ Last(stack).tag = hook
    /\ stack' = Front(stack)

\* A node: NthTraverseTreeNode pushes what it wants to visit.
Visit(pushed, h) ==
    /\ stack # <<>> /\ Last(stack).tag = "node"
    /\ stack' = Arranged(Front(stack), pushed, h)

Step ==
    /\ \/ \E hook \in Hooks : Call(hook)
       \/ stack # <<>> /\ Visit(tree[Last(stack).node], hooks)
    /\ events' = Append(events, Last(stack))
    /\ UNCHANGED <<tree, roots, hooks>>

Next == Step
Spec == Init /\ [][Next]_vars /\ WF_vars(Step)

-----------------------------------------------------------------------------
\* What the documentation says (algorithm/tree.h:20-38), over the tree: a node,
\* and, if it has children, the last pushed first, what is called around them.
IfHas(hook) == IF hook \in hooks THEN <<Tag(hook)>> ELSE <<>>
Below[n \in DOMAIN tree] ==
    IF tree[n] = <<>> THEN <<Node(n)>>
    ELSE LET kids == Reverse(tree[n])
             parts == [i \in DOMAIN kids |->
                         (IF i = Len(kids) THEN IfHas("last") ELSE <<>>) \o Below[kids[i]]]
         IN  <<Node(n)>> \o IfHas("enter") \o FlattenSeq(parts) \o IfHas("exit")
Expected ==
    LET inOrder == Reverse(roots)
    IN  FlattenSeq([i \in DOMAIN inOrder |-> Below[inOrder[i]]])

\* The calls made are those the documentation promises, in that order, at
\* every moment; and when the stack is empty all of them.
TraversalExact ==
    /\ IsPrefix(events, Expected)
    /\ stack = <<>> => events = Expected

\* Every traversal of a finite tree ends.
TraversalEnds == <>(stack = <<>>)
=============================================================================
