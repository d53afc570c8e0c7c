----------------------------- MODULE Structured -----------------------------
(***************************************************************************)
(* Values with a structure, written as JSON (format/json.h) or as C++      *)
(* (format/cc.h): whoever formats one calls begin and end of the formatter *)
(* around its parts (structural_formatter of format/format.h, the builders *)
(* of format/structure.h), and the formatter keeps a stack of what is open.*)
(* A value is a string, a sequence, an object or an associative container. *)
(***************************************************************************)
EXTENDS Naturals, Sequences, SequencesExt, FiniteSetsExt

CONSTANTS
    ValuesToFormat, \* and with a value its parts
    Languages,      \* "json", "cc"
    BufferSize      \* of char_spacer: 256

VARIABLES
    language,       \* the formatter
    value,          \* what is formatted
    todo,           \* the calls still to be made, the next one first
    nesting,        \* nesting_
    out             \* history: what was written, token by token

vars == <<language, value, todo, nesting, out>>

Structures == {"sequence", "object", "associative"}

Begin(structure) == <<[do |-> "begin", what |-> structure]>>
End(structure) == <<[do |-> "end", what |-> structure]>>
FormatCall(v) == <<[do |-> "format", what |-> v]>>
Around(structure, calls) == Begin(structure) \o calls \o End(structure)

-----------------------------------------------------------------------------
\* The calls that formatting comes to.

\* An element of a sequence.
Entry(v) == Around("entry", FormatCall(v))

\* format_key_value, append_key_value, append_key_with.
KeyValue(pair) ==
    Around("key", FormatCall([kind |-> "string", text |-> pair.key]))
    \o Around("value", FormatCall(pair.value))

\* structural_formatter::format, or a builder from its constructor to its
\* destructor.
Parts(v) ==
    Around(v.kind,
           FlattenSeq([i \in DOMAIN v.parts |->
             IF v.kind = "sequence" THEN Entry(v.parts[i]) ELSE KeyValue(v.parts[i])]))

-----------------------------------------------------------------------------
\* Tokens: punctuation, a line break with what indents the line, a string
\* that is quoted or is not.
Punctuation(c) == <<[token |-> c, n |-> 0, text |-> ""]>>
Quoted(s) == <<[token |-> "quoted", n |-> 0, text |-> s]>>
Bare(s) == <<[token |-> "bare", n |-> 0, text |-> s]>>

\* A line break and char_spacer(' ', count).  From BufferSize on, a buffer that
\* no zero ends is written as if one did: any number of characters.
Overrun == 1000
LineBreak(count) ==
    <<[token |-> "line", n |-> IF count < BufferSize THEN count ELSE Overrun, text |-> ""]>>

Opening(structure) == IF language = "json" /\ structure = "sequence" THEN "[" ELSE "{"
Closing(structure) == IF language = "json" /\ structure = "sequence" THEN "]" ELSE "}"

Top == Last(nesting)
Wider(n) == [nesting EXCEPT ![Len(nesting)].width = @ + n]

Init ==
    /\ language \in Languages
    /\ value \in ValuesToFormat
    /\ todo = FormatCall(value)
    /\ nesting = <<>> /\ out = <<>>

Handle(call, name) == todo # <<>> /\ Head(todo).do = call /\ Head(todo).what = name
Write(tokens) == out' = out \o tokens
Done == todo' = Tail(todo) /\ UNCHANGED <<language, value>>

BeginStructure(structure) ==
    /\ Handle("begin", structure)
    /\ Write(Punctuation(Opening(structure)))
    /\ nesting' = Append(nesting, [kind |-> structure, width |-> 0, in_value |-> FALSE])
    /\ Done

\* end(w): the bracket stands on a line of its own if something was written.
EndStructure(structure) ==
    /\ Handle("end", structure)
    /\ Write((IF Top.width # 0 THEN LineBreak(2 * (Len(nesting) - 1)) ELSE <<>>)
             \o Punctuation(Closing(Top.kind)))
    /\ nesting' = Front(nesting)
    /\ Done

\* Mutant of Separator: width taken for what it is before a part is begun.
SeparatorLate == IF Top.width > 2 THEN Punctuation(",") ELSE <<>>

\* width counts a part twice, when it begins and when it ends.
Separator == IF Top.width # 0 THEN Punctuation(",") ELSE <<>>

BeginEntry ==
    /\ Handle("begin", "entry")
    /\ Write(Separator \o LineBreak(2 * Len(nesting)))
    /\ nesting' = Wider(1)
    /\ Done

EndEntry ==
    /\ Handle("end", "entry")
    /\ nesting' = Wider(1)
    /\ UNCHANGED out
    /\ Done

BeginKey ==
    /\ Handle("begin", "key")
    /\ Write(Separator \o LineBreak(2 * Len(nesting))
             \o (IF language = "json" THEN <<>>
                 ELSE Punctuation(IF Top.kind = "object" THEN "." ELSE "{")))
    /\ nesting' = Wider(1)
    /\ Done

EndKey ==
    /\ Handle("end", "key")
    /\ Write(Punctuation(IF language = "json" THEN ":"
                         ELSE IF Top.kind = "object" THEN "=" ELSE ","))
    /\ UNCHANGED nesting
    /\ Done

BeginValue ==
    /\ Handle("begin", "value")
    /\ nesting' = [nesting EXCEPT ![Len(nesting)].in_value = (language = "cc")]
    /\ UNCHANGED out
    /\ Done

EndValue ==
    /\ Handle("end", "value")
    /\ nesting' = [Wider(1) EXCEPT ![Len(nesting)].in_value = FALSE]
    /\ Write(IF language = "cc" /\ Top.kind # "object" THEN Punctuation("}") ELSE <<>>)
    /\ Done

\* A string: the name of a member is not quoted in C++.
FormatString ==
    /\ todo # <<>> /\ Head(todo).do = "format" /\ Head(todo).what.kind = "string"
    /\ LET bare == language = "cc" /\ nesting # <<>>
                     /\ Top.kind = "object" /\ ~Top.in_value
       IN  Write(IF bare THEN Bare(Head(todo).what.text) ELSE Quoted(Head(todo).what.text))
    /\ UNCHANGED nesting
    /\ Done

FormatStructure ==
    /\ todo # <<>> /\ Head(todo).do = "format" /\ Head(todo).what.kind \in Structures
    /\ todo' = Parts(Head(todo).what) \o Tail(todo)
    /\ UNCHANGED <<language, value, nesting, out>>

Next ==
    \/ \E structure \in Structures : BeginStructure(structure) \/ EndStructure(structure)
    \/ BeginEntry \/ EndEntry \/ BeginKey \/ EndKey \/ BeginValue \/ EndValue
    \/ FormatString \/ FormatStructure
Spec == Init /\ [][Next]_vars

-----------------------------------------------------------------------------
\* The text of a value: parts apart by commas, each on a line of its own that
\* is indented as deep as it lies; a key before its value, in the way of the
\* language; brackets that match.
Line(depth) == <<[token |-> "line", n |-> 2 * depth, text |-> ""]>>
Pair(kind, key, text) ==
    IF language = "json" THEN Quoted(key) \o Punctuation(":") \o text
    ELSE IF kind = "object" THEN Punctuation(".") \o Bare(key) \o Punctuation("=") \o text
    ELSE Punctuation("{") \o Quoted(key) \o Punctuation(",") \o text \o Punctuation("}")

TextOf[v \in ValuesToFormat] ==
    [depth \in Nat |->
       IF v.kind = "string" THEN Quoted(v.text)
       ELSE LET Part(i) ==
                  (IF i > 1 THEN Punctuation(",") ELSE <<>>) \o Line(depth + 1)
                  \o IF v.kind = "sequence" THEN TextOf[v.parts[i]][depth + 1]
                     ELSE Pair(v.kind, v.parts[i].key, TextOf[v.parts[i].value][depth + 1])
            IN  Punctuation(Opening(v.kind))
                \o FlattenSeq([i \in DOMAIN v.parts |-> Part(i)])
                \o (IF v.parts # <<>> THEN Line(depth) ELSE <<>>)
                \o Punctuation(Closing(v.kind))]

\* Whether a line starts with as many spaces as a buffer of char_spacer holds.
DepthOf[v \in ValuesToFormat] ==
    IF v.kind = "string" \/ v.parts = <<>> THEN 0
    ELSE 1 + Max({DepthOf[IF v.kind = "sequence" THEN v.parts[i] ELSE v.parts[i].value] :
                    i \in DOMAIN v.parts})
TooDeep == 2 * DepthOf[value] >= BufferSize

\* What was written is the text of the value, in JSON and in C++, as far as the
\* formatter has come and in the end all of it, and every bracket it opened is
\* closed; unless a line is indented by a whole buffer.
StructureExact ==
    ~TooDeep =>
        LET text == TextOf[value][0]
        IN  /\ IsPrefix(out, text)
            /\ todo = <<>> => out = text /\ nesting = <<>>
=============================================================================
