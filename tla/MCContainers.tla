---------------------------- MODULE MCContainers ----------------------------
(* The containers on small instances for TLC, one in each behaviour; the *)
(* flat forest, about which there are proofs, by extension.              *)
EXTENDS FlatForest

CONSTANTS
    None, Values,
    Sets, MaxNodes,                                            \* DisjointSet
    MaxKey,                                                    \* IntervalSet
    Stacks, Word, MaxElements, MaxReserve, MaxBuffers,         \* Stack
    Containers, MaxInserted                                    \* StableContainer

\* None is no interval, as end() of a map is no entry, and no set, as a call
\* under way has its sets; no buffer of a stack, no number in one and no block,
\* as memory that was never written to or was freed.  Word is sizeof(size_t).
ASSUME ContainersAssumption ==
    /\ MaxNodes \in Nat /\ MaxKey \in Nat
    /\ MaxReserve \in Nat /\ MaxBuffers \in Nat /\ MaxInserted \in Nat
    /\ None \notin [lower : Nat, upper : Nat]
    /\ None \notin Sets
    /\ None \notin Nat /\ None \notin Seq(Values)
    /\ None \notin [bytes : Nat, values : Seq(Values), capacity : Nat, word : Nat]
    /\ Word \in {4, 8}

MCLayouts == {<<3, 1>>, <<8, 8>>, <<16, 16>>}

VARIABLES
    component,                                                 \* the container
    entries, movedFrom, allocated, parent, size, pc, path, root, todo, found,
    subset, asked,                                             \* DisjointSet
    intervals, dest, source, iter, start, members,             \* IntervalSet
    mapEntries,                                                \* IntervalMap
    layout, buffers, object, next, left, loose, pushed,        \* Stack
    blocks, exists, chunks, handles                            \* StableContainer

Subsets == INSTANCE DisjointSet
Ranges == INSTANCE IntervalSet
RangeMap == INSTANCE IntervalMap WITH entries <- mapEntries, End <- None
Stack == INSTANCE Stack WITH Layouts <- MCLayouts
Stable == INSTANCE StableContainer WITH Elements <- Values, NoBlock <- None

subsetVars == <<entries, movedFrom, allocated, parent, size, pc, path, root, todo,
                found, subset, asked>>
rangeVars == <<intervals, dest, source, iter, start, members>>
stackVars == <<layout, buffers, object, next, left, loose, pushed>>
stableVars == <<blocks, exists, chunks, handles>>
allVars == <<component, subsetVars, rangeVars, mapEntries, stackVars, stableVars, vars>>

AnyInit ==
    /\ component \in {"disjoint_set", "interval_set", "interval_map",
                      "stack", "stable_container", "flat_forest"}
    /\ Subsets!Init /\ Ranges!Init /\ RangeMap!Init
    /\ Stable!Init /\ Init
    /\ Stack!Init
    /\ component # "stack" => layout = <<8, 8>>

Only(container) == component = container /\ component' = component

SubsetsOnly == /\ Only("disjoint_set")
               /\ UNCHANGED <<rangeVars, mapEntries, stackVars, stableVars, vars>>
RangesOnly == /\ Only("interval_set")
              /\ UNCHANGED <<subsetVars, mapEntries, stackVars, stableVars, vars>>
RangeMapOnly == /\ Only("interval_map")
                /\ UNCHANGED <<subsetVars, rangeVars, stackVars, stableVars, vars>>
StackOnly == /\ Only("stack")
             /\ UNCHANGED <<subsetVars, rangeVars, mapEntries, stableVars, vars>>
StableOnly == /\ Only("stable_container")
              /\ UNCHANGED <<subsetVars, rangeVars, mapEntries, stackVars, vars>>
ForestOnly == /\ Only("flat_forest")
              /\ UNCHANGED <<subsetVars, rangeVars, mapEntries, stackVars, stableVars>>

AnyNext ==
    \/ SubsetsOnly /\ Subsets!Next
    \/ RangesOnly /\ Ranges!Next
    \/ RangeMapOnly /\ RangeMap!Next
    \/ StackOnly /\ Stack!Next
    \/ StableOnly /\ Stable!Next
    \/ ForestOnly /\ Next

\* One thread runs every call to its end.
AnySpec ==
    /\ AnyInit /\ [][AnyNext]_allVars
    /\ WF_allVars(SubsetsOnly /\ Subsets!Continue)
    /\ WF_allVars(ForestOnly /\ Continue)

\* Disjoint sets: at every step of a recursion each subset has one root, of
\* which representative answers within the subset it was asked about, and every
\* step towards it at least doubles the size.
SubsetsSound ==
    /\ Subsets!TypeOK
    /\ Subsets!OneRoot
    /\ Subsets!RepresentativeInSubset
    /\ Subsets!Balanced

\* representative, join and append_ancestor return.
CallsReturn == Subsets!CallsReturn /\ AppendReturns

\* Interval sets stay sorted and apart, and answer as the keys that were added
\* demand, in the middle of `+=` too, which comes to the union; the bounds that
\* insert_or_assign of a map moves stay in order.
RangesExact ==
    /\ Ranges!Canonical
    /\ Ranges!MembersExact
    /\ Ranges!UnionExact
    /\ RangeMap!BoundsInOrder

\* Of disjoint sets only join takes a root away; and an insertion in a map
\* among keys that are free changes nothing else.
StepsExact == Subsets!RootsKept /\ RangeMap!FreeInsertExact

\* Stacks and stable containers keep their elements.  The words of a stack and
\* the capacity in its buffer agree, no two stacks refer to one buffer, and each
\* has the elements that were pushed and not popped; those of a stable container
\* stay where they were inserted, and iteration finds every one of them under
\* its index.
ElementsKept ==
    /\ Stack!WordsAgree
    /\ Stack!SoleOwner
    /\ Stack!ElementsKept
    /\ Stable!AddressStable
    /\ Stable!IterationExact
=============================================================================
