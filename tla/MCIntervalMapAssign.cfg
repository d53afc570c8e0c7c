\* Insertions of overlapping intervals.
CONSTANTS
    Values = {a, b}
    MaxKey = 4
    End = End
SPECIFICATION Spec
PROPERTY AssignExact
