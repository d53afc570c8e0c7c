\* Three threads that evaluate and switch one line; one condition is accepted, one is not.
CONSTANTS
    Threads = {t1, t2, t3}
    Configs = {yes, no}
    Accepted = {yes}
    None = None
SPECIFICATION FairSpec
INVARIANTS Exclusion NoTornConfig IInv
PROPERTIES SwitchedOnWithConfig LockReleased ImplementsSpec
