\* Lookups between two entries that touch.
CONSTANTS
    Values = {a, b}
    MaxKey = 4
    End = End
SPECIFICATION Spec
INVARIANT ContainsExact
