------------------------------- MODULE MCText -------------------------------
(* What reads and writes text, on small instances for TLC, one component in *)
(* each behaviour; glob matching, about which there are proofs, by          *)
(* extension.                                                               *)
EXTENDS Glob, SequencesExt

CONSTANTS
    TracedAt, PlainAt, ReturnedAt, MaxExpressions, MaxArguments,    \* Trace
    Languages, BufferSize,                              \* Structured
    Bits, PointerBytes,                                 \* Formatters
    Inputs,                                             \* EditDistance
    Texts, Widths,                                      \* LineBreak
    Names                                               \* FilePath

ASSUME TextsAssumption ==
    /\ \A input \in Inputs : input \in Seq(STRING) \X Seq(STRING)
    /\ \A t \in Texts \union Names : t \in Seq(STRING)
    /\ Widths \subseteq Nat

VARIABLES
    component,
    nodes, drawn, stack, prefix, last_node, lines, thrown,      \* Trace
    string, left, ranges, workspace, start, written,            \* Interpolation
    language, value, todo, nesting, out,                        \* Structured
    formatted, spec, toFormat, characters,                      \* Formatters
    small, big, buffer, previous, row, column,                  \* EditDistance
    text, line_width, running, original, textLines,             \* LineBreak
    first_word_start, last_word_end, last_word_start,
    given, name, filePath, valid                                \* FilePath

-----------------------------------------------------------------------------
MCCharacters == {"a", "b", "?", "*", "["}
MCParts == {<<>>, <<"a">>, <<"?">>, <<"*">>, GlobStar, <<"a", "*">>, <<"a", "[">>}
MCChunks == {<<>>, <<"a">>, <<"b">>, <<"a", "b">>}
NonEmpty(S, n) == SeqOf(S, n) \ {<<>>}

MCGlobs == NonEmpty(MCParts, 3)
\* The last path has one chunk more than the word has bits.
MCPaths == NonEmpty(MCChunks, 4) \union {[k \in 1 .. 5 |-> <<"a">>]}

\* Braces that match, and another character.
Depth(s, k) ==
    Len(SelectSeq(SubSeq(s, 1, k), LAMBDA c : c = "{"))
    - Len(SelectSeq(SubSeq(s, 1, k), LAMBDA c : c = "}"))
MCStrings == {s \in SeqOf({"{", "}", "x"}, 7) :
                 (\A k \in 0 .. Len(s) : Depth(s, k) >= 0) /\ Depth(s, Len(s)) = 0}

\* Structures of structures, of two parts each, and one that is deeper.
Str(t) == [kind |-> "string", text |-> t]
Structs(V) == [kind : {"sequence"}, parts : SeqOf(V, 2)]
              \union [kind : {"object", "associative"},
                      parts : SeqOf([key : {"k"}, value : V], 2)]
OneLevel == {Str("s")} \union Structs({Str("s")})
Nested(v) == [kind |-> "sequence", parts |-> <<v>>]
MCStructured ==
    OneLevel \union Structs(OneLevel)
    \union {Nested(Nested([kind |-> "object", parts |-> <<[key |-> "k", value |-> Str("s")]>>]))}

\* All texts of four kinds of characters, all integers and bytes, pointers with
\* bytes that are 0 in every place, and containers.
Val(t, v) == [type |-> t, is |-> v]
Elements == {Val("string", s) : s \in SeqOf({"n", "quote", "bell"}, 1)}
            \union {Val("byte", 10), Val("bool", TRUE)}
MCFormatted ==
    {Val("string", s) : s \in SeqOf({"n", "quote", "newline", "tab", "backslash", "bell"}, 4)}
    \union {Val("integer", n) : n \in -128 .. 127} \union {Val("byte", n) : n \in 0 .. 255}
    \union {Val("pointer", 256 * a + b) : a, b \in {0, 1, 16, 255}}
    \union {Val("bool", b) : b \in BOOLEAN} \union {Val("nullptr", 0)}
    \union {Val("sequence", s) : s \in SeqOf(Elements, 2)}

MCInputs == (SeqOf({"a", "b"}, 3) \X SeqOf({"a", "b"}, 3))
            \union {<<<<"a">>, <<"b", "a", "b", "a", "c">>>>}
MCTexts == SeqOf({"x", " "}, 8)
MCNames == SeqOf({"/", ".", "a"}, 7)

-----------------------------------------------------------------------------
Traces == INSTANCE Trace

\* Bound: with operators and functions that return references or mistake their
\* operands, expressions have two dependents at most.  The last expression is
\* drawn, and what it holds is seen by no other.
MCExpressions ==
    LET returns == {e \in DOMAIN nodes : nodes[e].reference /\ nodes[e].name \in {"operator", "memfn"}}
        mistakes == {e \in DOMAIN nodes : ~nodes[e].taken}
    IN  /\ drawn \in {0, Len(nodes)}
        /\ MaxExpressions \notin returns
        /\ returns \cup mistakes # {} => \A e \in DOMAIN nodes : Len(nodes[e].kids) <= 2
Strings == INSTANCE Interpolation WITH Strings <- MCStrings
Structures == INSTANCE Structured WITH ValuesToFormat <- MCStructured
Values == INSTANCE Formatters WITH
    Values <- MCFormatted, value <- formatted, todo <- toFormat, out <- characters
Distances == INSTANCE EditDistance WITH i <- row, j <- column
Lines == INSTANCE LineBreak WITH lines <- textLines
FilePaths == INSTANCE FilePath WITH path <- filePath

Components == {"glob", "trace", "interpolation", "structured", "formatters",
               "edit_distance", "line_break", "file_path"}

\* The values of the variables of a component that is not the one.
Idle(c) ==
    CASE c = "glob" -> /\ glob = <<<<"a">>>> /\ path = <<<<"a">>>>
                       /\ part = 0 /\ toCheck = {0} /\ result = "running"
      [] c = "trace" -> Traces!Init
      [] c = "interpolation" -> /\ string = <<>> /\ left = 0 /\ ranges = <<>>
                                /\ workspace = <<>> /\ start = 0 /\ written = <<>>
      [] c = "structured" -> /\ language = "" /\ value = <<>> /\ todo = <<>>
                             /\ nesting = <<>> /\ out = <<>>
      [] c = "formatters" -> /\ formatted = <<>> /\ spec = "" /\ toFormat = <<>>
                             /\ characters = <<>>
      [] c = "edit_distance" -> /\ small = <<>> /\ big = <<>> /\ buffer = <<>>
                                /\ previous = 0 /\ row = 0 /\ column = 0
      [] c = "line_break" -> /\ text = <<>> /\ line_width = 0 /\ running = FALSE
                             /\ original = <<>> /\ textLines = <<>>
                             /\ first_word_start = 0 /\ last_word_end = 0
                             /\ last_word_start = 0
      [] c = "file_path" -> given = <<>> /\ name = <<>> /\ filePath = <<>> /\ valid = TRUE

traceVars == <<nodes, drawn, stack, prefix, last_node, lines, thrown>>
stringVars == <<string, left, ranges, workspace, start, written>>
structureVars == <<language, value, todo, nesting, out>>
formatVars == <<formatted, spec, toFormat, characters>>
distanceVars == <<small, big, buffer, previous, row, column>>
lineVars == <<text, line_width, running, first_word_start, last_word_end, last_word_start,
              original, textLines>>
pathVars == <<given, name, filePath, valid>>
allVars == <<component, globVars, traceVars, stringVars, structureVars, formatVars,
             distanceVars, lineVars, pathVars>>

Same(c) ==
    CASE c = "glob" -> UNCHANGED globVars
      [] c = "trace" -> UNCHANGED traceVars
      [] c = "interpolation" -> UNCHANGED stringVars
      [] c = "structured" -> UNCHANGED structureVars
      [] c = "formatters" -> UNCHANGED formatVars
      [] c = "edit_distance" -> UNCHANGED distanceVars
      [] c = "line_break" -> UNCHANGED lineVars
      [] c = "file_path" -> UNCHANGED pathVars

Begins(c) == component = c /\ \A d \in Components \ {c} : Idle(d)
Only(c) == component = c /\ component' = c /\ \A d \in Components \ {c} : Same(d)

AnyInit ==
    \/ Begins("glob") /\ GlobInit
    \/ Begins("trace") /\ Traces!Init
    \/ Begins("interpolation") /\ Strings!Init
    \/ Begins("structured") /\ Structures!Init
    \/ Begins("formatters") /\ Values!Init
    \/ Begins("edit_distance") /\ Distances!Init
    \/ Begins("line_break") /\ Lines!Init
    \/ Begins("file_path") /\ FilePaths!Init

AnyNext ==
    \/ Only("glob") /\ GlobNext
    \/ Only("trace") /\ Traces!Next /\ MCExpressions'
    \/ Only("interpolation") /\ Strings!Next
    \/ Only("structured") /\ Structures!Next
    \/ Only("formatters") /\ Values!Next
    \/ Only("edit_distance") /\ Distances!Next
    \/ Only("line_break") /\ Lines!Next
    \/ Only("file_path") /\ FilePaths!Next

AnySpec == AnyInit /\ [][AnyNext]_allVars

-----------------------------------------------------------------------------
\* The drawing of a traced expression has each of its parts once, in its place.
TraceExact == component = "trace" => Traces!TraceExact

\* What is written is what the values say: interpolate puts them in the places
\* of the topmost braces, JSON and C++ keep the structure with its brackets and
\* commas, and the text of a value can be read back.
FormattingExact ==
    /\ component = "interpolation" => Strings!InterpolationExact
    /\ component = "structured" => Structures!StructureExact
    /\ component = "formatters" => Values!FormattersExact

\* Edit distances are the least, lines are broken where they may be and as late
\* as they can be, and a file path names the place that its text goes to.
TextExact ==
    /\ component = "edit_distance" => Distances!DistanceExact
    /\ component = "line_break" => Lines!LinesExact
    /\ component = "file_path" => FilePaths!PathExact
=============================================================================
