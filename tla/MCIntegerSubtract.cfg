\* Numbers of unlike signs, one of up to three words.
CONSTANTS
    Objects = {x, y}
    Digit = 2
    Memory = {0, 3}
    MaxWords = 3
    MaxCalls = 4
CHECK_DEADLOCK FALSE
SPECIFICATION Spec
INVARIANT SumExact
