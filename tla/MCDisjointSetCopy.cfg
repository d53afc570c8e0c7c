\* A set of one element and its copy.
CONSTANTS
    Sets = {s1, s2}
    MaxNodes = 2
    None = None
SPECIFICATION CopySpec
INVARIANT RepresentativeInSubset
