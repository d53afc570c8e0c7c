\* Two disjoint sets of up to four elements; two interval sets and an interval map of five bounds;
\* two stacks of two elements; two stable containers of four elements; a forest of six nodes.
CONSTANTS
    Sets = {s1, s2}
    MaxNodes = 4
    MaxKey = 4
    Values = {a, b}
    None = None
    Stacks = {s1, s2}
    Word = 8
    MaxElements = 2
    MaxReserve = 3
    MaxBuffers = 2
    Containers = {s1, s2}
    MaxInserted = 4
    MaxTrees = 6
\* The process stops when NTH_REQUIRE refuses a cutpoint.
CHECK_DEADLOCK FALSE
SPECIFICATION AnySpec
INVARIANTS SubsetsSound RangesExact ElementsKept Laminar TreesExact RefusedRightly
PROPERTIES StepsExact CallsReturn
