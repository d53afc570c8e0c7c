\* Two registrars of one type T, used by a single thread.
CONSTANTS
    Registrars = {r1, r2}
    Threads = {t1}
    Values = {a}
    Capacity = 2
    MaxNodes = 3
    MaxInserts = 3
    NoThread = NoThread
    NoValue = NoValue
SPECIFICATION Spec
INVARIANT SnapshotExact
