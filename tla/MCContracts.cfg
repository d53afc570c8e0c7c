\* Two threads that violate contracts while handlers and a sink are registered,
\* or that switch contracts on and off, overlapping or not.
CONSTANTS
    Threads = {t1, t2}
    NumContracts = 4
    Category <- MCCategory
    Message <- MCMessage
    Globs <- MCGlobs
    Handlers = {h1, h2}
    Sinks = {s1}
    MaxHandlers = 2
    MaxSinks = 1
    MaxCalls = 3
    MaxChecks = 3
    MaxScope = 2
    None = None
\* The process stops when it is aborted, or when the bounds are exhausted.
CHECK_DEADLOCK FALSE
SPECIFICATION FocusedSpec
INVARIANTS ReportedBeforeFailure SwitchesSound
PROPERTIES ScopesUnwind ViolationAborts
