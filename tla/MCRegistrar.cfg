\* Two threads, nodes of two slots, insertions that fill two nodes and start a third.
CONSTANTS
    Registrars = {r1}
    Threads = {t1, t2}
    Values = {a, b}
    Capacity = 2
    MaxNodes = 3
    MaxInserts = 5
    NoThread = NoThread
    NoValue = NoValue
SPECIFICATION FairSpec
INVARIANTS IInv SnapshotExact NoSlotRace
PROPERTIES ImplementsSpec WalkEnds
