\* All globs of up to three parts against all paths of up to four chunks, and a word of four bits;
\* expressions of three nodes; interpolation strings of seven characters; structures of structures;
\* strings of four characters and all numbers of eight bits; texts of eight, names of seven characters.
CONSTANTS
    Characters <- MCCharacters
    Width = 4
    Globs <- MCGlobs
    Paths <- MCPaths
    TracedAt = {3, 4}
    PlainAt = {6}
    ReturnedAt = {8}
    MaxExpressions = 3
    MaxArguments = 3
    Languages = {"json", "cc"}
    BufferSize = 6
    Bits = 8
    PointerBytes = 2
    Inputs <- MCInputs
    Texts <- MCTexts
    Widths = {0, 1, 2, 3, 4, 5}
    Names <- MCNames
\* Every function returns: the end of a behaviour is its result.
CHECK_DEADLOCK FALSE
SPECIFICATION AnySpec
INVARIANTS Correct GlobInv TraceExact FormattingExact TextExact
