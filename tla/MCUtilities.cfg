\* Two maps of two keys; two integers of words of two binary digits, up to three words and three calls;
\* all trees of four nodes; a span of four cells; three pointers among sixteen addresses; unions of up
\* to five types; functions four deep; four tests; two threads with fakes; two timers; three files' objects.
CONSTANTS
    Sets = {s, t}
    Values = {a, b}
    Mapped = {m, d}
    Default = d
    Addresses = {1, 2, 3, 4}
    MaxRange = 2
    Nothing = Nothing
    Objects = {x, y}
    Digit = 2
    Memory = {0, 3}
    MaxWords = 3
    Cells = {1, 2, 3, 4}
    Space = 16
    Places = {3, 4, 14}
    MaxAddress = 31
    Errors = {e, f}
    MaxDepth = 4
    MaxCalls = 4
    Tests = {"t"}
    Parameterized = {"p", "q"}
    Invocations = {"i", "j"}
    MaxArguments = 1
    MaxViolations = 2
    MaxThreads = 1
    Threads = {u, v}
    Functions = {g, h}
    Closures = {c}
    MaxScopes = 2
    Timers = {p, q}
    Warmups = 1
    Iterations = 2
    MaxRuns = 2
    MaxBlocks = 2
    Ticks = 2
    Paths = {file}
    Bytes = {1, 2}
    Writers = {w1, w2}
    Readers = {r, q}
    Handles = {k, l}
    MaxStreams = 2
    MaxLength = 2
\* Calls are bounded, functions return, and the process ends when a multiplication is refused.
CHECK_DEADLOCK FALSE
SPECIFICATION AnySpec
INVARIANTS IInv AnswersSound ViewsExact ControlExact TestingExact FilesExact
PROPERTIES ImplementsSpec TraversalEnds
