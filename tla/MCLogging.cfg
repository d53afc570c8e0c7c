\* Two overlapping switching calls, a statement and two registrations in two threads.
CONSTANTS
    Threads = {t1, t2}
    NumLines = 2
    Default <- MCDefault
    Texts <- MCTexts
    Parses <- MCParses
    Accepts <- MCAccepts
    Globs <- MCGlobs
    Sinks = {s1, s2}
    MaxCalls = 2
    MaxEntries = 1
    MaxSinks = 2
    None = None
\* The bounds on calls, statements and registrations exhaust: the program may stop.
CHECK_DEADLOCK FALSE
SPECIFICATION FairSpec
INVARIANTS SwitchesSound Delivery
PROPERTIES VerdictJustified EventuallyLogged
