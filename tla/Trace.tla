------------------------------- MODULE Trace -------------------------------
(***************************************************************************)
(* Traced expressions (debug/trace/internal/trace.h): operators and member *)
(* functions of a traced value give another, which refers to its operands; *)
(* formatting one draws the tree of them, a line for each, with the        *)
(* traversal of algorithm/tree.h.                                          *)
(*                                                                         *)
(* A reference (writable_ref) is positive for a traced expression, and     *)
(* negative for a plain value: minus its address.                          *)
(***************************************************************************)
EXTENDS Integers, Sequences, SequencesExt

CONSTANTS
    TracedAt,        \* addresses of the values that are traced
    PlainAt,         \* addresses of the other operands
    ReturnedAt,      \* addresses of what operators and functions refer to
    MaxExpressions,  \* bound
    MaxArguments     \* bound: of a member function

VARIABLES
    nodes,           \* the expressions: name, address of value_, whether
                     \* value_ is a reference, dependents_; history: the
                     \* expression that a member function was called on, and
                     \* whether the call took it for what it is
    drawn,           \* the one that is formatted, 0 at first
    stack,           \* of the traversal
    prefix,          \* prefix_, byte by byte
    last_node,       \* last_node_in_subtree_
    lines,           \* what was written
    thrown           \* resize was asked for more than a string can be

vars == <<nodes, drawn, stack, prefix, last_node, lines, thrown>>
format == <<drawn, stack, prefix, last_node, lines, thrown>>

Traversal == INSTANCE TreeTraversal
    WITH Trees <- {}, Roots <- {}, tree <- nodes, roots <- <<drawn>>,
         hooks <- {"enter", "last", "exit"}, events <- lines

-----------------------------------------------------------------------------
Refs == (1 .. Len(nodes)) \cup {-a : a \in PlainAt}

\* The value of an expression that is computed lies in it, at an address that
\* its alignment makes even.
Fresh == 100 + 2 * Len(nodes)

Construct(name, at, reference, dependents, of, taken) ==
    /\ drawn = 0 /\ Len(nodes) < MaxExpressions
    /\ nodes' = Append(nodes, [name |-> name, at |-> at, reference |-> reference,
                                kids |-> dependents, of |-> of, taken |-> taken])
    /\ UNCHANGED format

\* trace<S>(v), and the injector, which traces without a name; both refer to v.
TraceValue(a) == Construct("traced", a, TRUE, <<-a>>, 0, TRUE)
Inject(a) == Construct("", a, TRUE, <<-a>>, 0, TRUE)

\* What an operator or a member function returns: a value, which the expression
\* holds, or a reference.
Computed(name, dependents, of, taken) ==
    \/ Construct(name, Fresh, FALSE, dependents, of, taken)
    \/ \E a \in ReturnedAt : Construct(name, a, TRUE, dependents, of, taken)

\* lhs op rhs, where one of them is traced.
Binary(lhs, rhs) ==
    /\ lhs > 0 \/ rhs > 0
    /\ Computed("operator", <<lhs, rhs>>, 0, TRUE)

Unary(e) == e > 0 /\ Computed("operator", <<e>>, 0, TRUE)

\* The call of a member function takes an lvalue for a holder of a reference,
\* and an rvalue for a holder of a value.
Taken(e, category) == nodes[e].reference = (category = "lvalue")

\* Where value_ is found: a holder that is taken for the other kind is read as
\* what it is not, and what is found may lie anywhere.
ValueAt(e, category) ==
    IF Taken(e, category) THEN {nodes[e].at} ELSE ReturnedAt \cup {Fresh}

\* e.memfn(ts...): the first dependent is the plain value_ of e.
Member(e, category, arguments) ==
    /\ e > 0
    /\ \E at \in ValueAt(e, category) :
         Computed("memfn", <<-at>> \o arguments, e, Taken(e, category))

-----------------------------------------------------------------------------
\* The configuration utf8, each string as its bytes.
Glyph(name, bytes) == [i \in 1 .. bytes |-> <<name, i>>]
child == Glyph("child", 7)
last_child == Glyph("last_child", 7)
extender == Glyph("extender", 5)
space == Glyph("space", 3)
Indent == Glyph("indent", 2)

\* What ref.children() holds, and what of it the formatter visits: nothing of
\* an expression without a name.
children(ref) == IF ref > 0 THEN nodes[ref].kids ELSE <<>>
Visited(ref) == IF ref > 0 /\ nodes[ref].name # "" THEN children(ref) ELSE <<>>

\* The lowest bit of a plain value's address marks it as one, and is taken
\* away to read the value.
ReadAt(a) == 2 * (a \div 2)

\* The text of a line; a value is known by its address.
NodeText(ref, at(_)) ==
    IF Visited(ref) # <<>> THEN <<"name", ref>>
    ELSE <<"value", at(-(IF ref > 0 THEN children(ref)[1] ELSE ref))>>

\* prefix_.resize(prefix_.size() - cut.size()) and prefix_.append(added).
Replaced(s, cut, added) == SubSeq(s, 1, Len(s) - Len(cut)) \o added

\* Mutant of LastChildPrefix: EnterLastChild that expects a child before it.
LastChildPrefixShort(s) == Replaced(s, child, last_child)

\* After a sibling with a subtree, the prefix ends with an extender.
LastChildPrefix(s) == Replaced(s, IF IsSuffix(child, s) THEN child ELSE extender, last_child)

Draw(e) ==
    /\ drawn = 0 /\ e \in DOMAIN nodes
    /\ drawn' = e
    /\ stack' = <<Traversal!Node(e)>>
    /\ prefix' = Indent \o last_child /\ last_node' = TRUE
    /\ UNCHANGED <<nodes, lines, thrown>>

\* A string cannot shrink by more than it has.
Shrinks(cut) ==
    /\ thrown' = (Len(prefix) < Len(cut))
    /\ ~thrown

EnterSubtree ==
    /\ Traversal!Call("enter")
    /\ prefix' = (IF last_node THEN prefix ELSE Replaced(prefix, child, extender)) \o child
    /\ last_node' = FALSE
    /\ Shrinks(IF last_node THEN <<>> ELSE child)
    /\ UNCHANGED <<nodes, drawn, lines>>

EnterLastChild ==
    /\ Traversal!Call("last")
    /\ prefix' = LastChildPrefix(prefix)
    /\ last_node' = TRUE
    /\ Shrinks(IF IsSuffix(child, prefix) THEN child ELSE extender)
    /\ UNCHANGED <<nodes, drawn, lines>>

ExitSubtree ==
    /\ Traversal!Call("exit")
    /\ prefix' = Replaced(prefix, space, <<>>)
    /\ Shrinks(space)
    /\ UNCHANGED <<nodes, drawn, last_node, lines>>

WriteNode ==
    /\ stack # <<>>
    /\ LET ref == Last(stack).node
       IN  /\ Traversal!Visit(Reverse(Visited(ref)), Traversal!Hooks)
           /\ lines' = Append(lines, [prefix |-> prefix, text |-> NodeText(ref, ReadAt)])
    /\ prefix' = IF last_node THEN Replaced(prefix, last_child, space) ELSE prefix
    /\ Shrinks(IF last_node THEN last_child ELSE <<>>)
    /\ UNCHANGED <<nodes, drawn, last_node>>

Init ==
    /\ nodes = <<>> /\ drawn = 0 /\ stack = <<>>
    /\ prefix = <<>> /\ last_node = TRUE /\ lines = <<>> /\ thrown = FALSE

Build ==
    \/ \E a \in TracedAt : TraceValue(a) \/ Inject(a)
    \/ \E lhs, rhs \in Refs : Binary(lhs, rhs)
    \/ \E e \in Refs : Unary(e)
    \/ \E e \in Refs, category \in {"lvalue", "rvalue"} : \E n \in 0 .. MaxArguments :
         \E arguments \in [1 .. n -> Refs] : Member(e, category, arguments)
Format == EnterSubtree \/ EnterLastChild \/ ExitSubtree \/ WriteNode
Next == Build \/ (\E e \in DOMAIN nodes : Draw(e)) \/ Format
Spec == Init /\ [][Next]_vars

-----------------------------------------------------------------------------
\* What an expression was built from: the value that a member function was
\* called on is that of the expression it was called on.
Operands(ref) ==
    LET e == nodes[ref].of
    IN  IF Visited(ref) = <<>> \/ e = 0 THEN Visited(ref)
        ELSE <<-nodes[e].at>> \o Tail(Visited(ref))

\* The drawing: under each node, its operands in order; before each of them,
\* whether those above it, and it, are the last of theirs.
Routes ==
    LET plain == {-a : a \in PlainAt} \cup {-nodes[e].at : e \in DOMAIN nodes}
        \* The lines under a reference: their paths start with the given one.
        below[ref \in DOMAIN nodes \cup plain, path \in Seq(BOOLEAN)] ==
          LET kids == IF ref > 0 THEN Operands(ref) ELSE <<>>
          IN  <<[path |-> path, text |-> NodeText(ref, LAMBDA a : a)]>>
              \o FlattenSeq([i \in DOMAIN kids |-> below[kids[i], Append(path, i = Len(kids))]])
    IN  below[drawn, <<TRUE>>]

PrefixOf(path) ==
    Indent
    \o FlattenSeq([i \in 1 .. Len(path) - 1 |-> IF path[i] THEN space ELSE extender])
    \o (IF Last(path) THEN last_child ELSE child)

Drawing ==
    LET paths == Routes
    IN  [j \in DOMAIN paths |-> [prefix |-> PrefixOf(paths[j].path), text |-> paths[j].text]]

\* What the formatter cannot draw: a dependent with dependents of its own,
\* followed by one that is not the last.
Skewed == \E e \in DOMAIN nodes : \E i \in 1 .. Len(Visited(e)) - 2 :
            Visited(Visited(e)[i]) # <<>>

\* The values are where their references can tell them from expressions.
Aligned == \A e \in DOMAIN nodes : nodes[e].at = ReadAt(nodes[e].at)

\* Every member function was called on an lvalue that holds a reference, or on
\* an rvalue that holds a value.
AllTaken == \A e \in DOMAIN nodes : nodes[e].taken

\* The lines written are those of the drawing: no expression is left out, twice
\* there or under another parent (tree_formatter, trace.h:130-188), unless an
\* argument of a call that is not the last follows one with operands of its own.
\* Each has the name or the value of its expression, unless a value lies at an
\* odd address or a member function mistook how its operand is held.
TraceExact ==
    drawn # 0 /\ ~Skewed =>
        /\ ~thrown
        /\ stack = <<>> =>
             LET drawing == Drawing
             IN  /\ Len(lines) = Len(drawing)
                 /\ \A j \in DOMAIN lines :
                      /\ lines[j].prefix = drawing[j].prefix
                      /\ Aligned /\ AllTaken => lines[j].text = drawing[j].text
=============================================================================
