----------------------------- MODULE Formatters -----------------------------
(***************************************************************************)
(* The formatters of format/common_formatters.h, and which of them         *)
(* interpolate takes for a value and the text between the braces           *)
(* (NthInterpolateFormatter of format/interpolate.h, the defaults of       *)
(* format/common_defaults.h).  Characters stand for their kinds.           *)
(***************************************************************************)
EXTENDS Integers, Sequences, SequencesExt

CONSTANTS
    Values,         \* [type, is]; a string is a sequence of characters
    Bits,           \* of an integer
    PointerBytes    \* sizeof(uintptr_t)

Types == {"string", "integer", "pointer", "bool", "nullptr", "byte", "sequence"}
Specs == {"", "d", "x", "q", "b", "B", "B!", "?"}

VARIABLES
    value, spec,    \* what is formatted, and how
    todo,           \* the calls still to be made
    out             \* history: the characters written

vars == <<value, spec, todo, out>>

-----------------------------------------------------------------------------
Refused == "refused"    \* a static_assert fails

\* The formatter by type and by the text between the braces.
NthInterpolateFormatter(type, s) ==
    CASE type = "string" /\ s \in {"q", "?"} -> "quote"
      [] type = "string" /\ s = "" -> "text"
      [] type = "integer" /\ s \in {"", "d", "?"} -> "decimal"
      [] type = "integer" /\ s = "x" -> "hexadecimal"
      [] type = "pointer" -> "pointer"
      [] type = "bool" /\ s \in {"", "b", "?"} -> "lower"
      [] type = "bool" /\ s = "B" -> "title"
      [] type = "bool" /\ s = "B!" -> "upper"
      [] type = "bool" /\ s = "d" -> "decimal"
      [] type = "nullptr" /\ s \in {"", "?"} -> "lower"
      [] type = "byte" /\ s \in {"", "?"} -> "byte"
      [] type = "sequence" /\ s = "?" -> "container"
      [] OTHER -> Refused

Hex == <<"0", "1", "2", "3", "4", "5", "6", "7", "8", "9", "a", "b", "c", "d", "e", "f">>
HexByte(n) == <<Hex[n \div 16 + 1], Hex[(n % 16) + 1]>>

\* word_formatter
Word(casing, v) ==
    LET words == IF v.type = "nullptr" THEN <<"null", "Null", "NULL">>
                 ELSE IF v.is THEN <<"true", "True", "TRUE">>
                 ELSE <<"false", "False", "FALSE">>
    IN  <<words[CASE casing = "lower" -> 1 [] casing = "title" -> 2 [] casing = "upper" -> 3]>>

\* base_formatter, over std::to_chars.
Magnitude(n, base) ==
    LET Digits[m \in Nat] ==
          IF m < base THEN <<Hex[m + 1]>>
          ELSE Digits[m \div base] \o <<Hex[(m % base) + 1]>>
    IN  Digits[n]
Based(base, v) ==
    IF v.type = "bool" THEN <<IF v.is THEN "1" ELSE "0">>
    ELSE IF v.is < 0 THEN <<"-">> \o Magnitude(-v.is, base) ELSE Magnitude(v.is, base)

Write(text) == <<[do |-> "write", text |-> text]>>

\* The calls that the formatter makes; separator is exchanged for separator_ by
\* the first part of a container.
Calls(formatter, v) ==
    CASE formatter = "quote" ->
           Write(<<"quote">>) \o <<[do |-> "quote", s |-> v.is, i |-> 0, rest |-> v.is]>>
           \o Write(<<"quote">>)
      [] formatter = "text" -> Write(v.is)
      [] formatter = "decimal" -> Write(Based(10, v))
      [] formatter = "hexadecimal" -> Write(Based(16, v))
      [] formatter = "byte" -> Write(HexByte(v.is))
      [] formatter \in {"lower", "title", "upper"} -> Write(Word(formatter, v))
      [] formatter = "pointer" ->
           IF v.is = 0 THEN Write(<<"0", "x", "0">>)
           ELSE <<[do |-> "pointer", n |-> v.is, buffer |-> <<>>, nonzero |-> 2]>>
      [] formatter = "container" ->
           Write(<<"[">>)
           \o FlattenSeq([i \in DOMAIN v.is |->
                (IF i = 1 THEN <<>> ELSE Write(<<",", " ">>))
                \o <<[do |-> "format", part |-> v.is[i]]>>])
           \o Write(<<"]">>)

Init ==
    /\ value \in Values
    /\ spec \in Specs
    /\ NthInterpolateFormatter(value.type, spec) # Refused
    /\ todo = Calls(NthInterpolateFormatter(value.type, spec), value)
    /\ out = <<>>

-----------------------------------------------------------------------------
Turn(call) == todo # <<>> /\ Head(todo).do = call
Same == UNCHANGED <<value, spec>>

WriteText ==
    /\ Turn("write")
    /\ out' = out \o Head(todo).text /\ todo' = Tail(todo)
    /\ Same

\* Inside a container the formatter is the debug_formatter.
FormatPart ==
    /\ Turn("format")
    /\ LET v == Head(todo).part
       IN  todo' = Calls(NthInterpolateFormatter(v.type, "?"), v) \o Tail(todo)
    /\ UNCHANGED out
    /\ Same

\* Characters that quote_formatter does not write as they are.
Escape(c) ==
    CASE c = "newline" -> <<"backslash", "n">>
      [] c = "quote" -> <<"backslash", "quote">>
      [] c = "tab" -> <<"backslash", "t">>
      [] c = "backslash" -> <<"backslash", "backslash">>
      [] c = "bell" -> <<"backslash", "u", "0", "0">> \o HexByte(7)
isprint(c) == c = "n"

\* Mutant of QuoteCharacter: what is escaped is not removed.
QuoteCharacterStays ==
    /\ Turn("quote") /\ Head(todo).rest # <<>>
    /\ LET call == Head(todo)
           c == Head(call.rest)
       IN  IF isprint(c)
             THEN /\ todo' = <<[call EXCEPT !.i = @ + 1, !.rest = Tail(@)]>> \o Tail(todo)
                  /\ UNCHANGED out
             ELSE /\ out' = out \o SubSeq(call.s, 1, call.i) \o Escape(c)
                  /\ todo' = <<[call EXCEPT !.s = SubSeq(@, call.i + 1, Len(@)), !.i = 0,
                                            !.rest = Tail(@)]>> \o Tail(todo)
    /\ Same

\* One round of the loop of quote_formatter: the text before a character that
\* is escaped is written, and s and i start again behind it.
QuoteCharacter ==
    /\ Turn("quote") /\ Head(todo).rest # <<>>
    /\ LET call == Head(todo)
           c == Head(call.rest)
       IN  IF isprint(c)
             THEN /\ todo' = <<[call EXCEPT !.i = @ + 1, !.rest = Tail(@)]>> \o Tail(todo)
                  /\ UNCHANGED out
             ELSE /\ out' = out \o SubSeq(call.s, 1, call.i) \o Escape(c)
                  /\ todo' = <<[call EXCEPT !.s = SubSeq(@, call.i + 2, Len(@)), !.i = 0,
                                            !.rest = Tail(@)]>> \o Tail(todo)
    /\ Same

QuoteEnd ==
    /\ Turn("quote") /\ Head(todo).rest = <<>>
    /\ out' = out \o Head(todo).s /\ todo' = Tail(todo)
    /\ Same

\* One round of the loop of pointer_formatter: two digits, from the right.
PointerByte ==
    /\ Turn("pointer") /\ Len(Head(todo).buffer) < 2 * PointerBytes
    /\ LET call == Head(todo)
           digits == HexByte(call.n % 256) \o call.buffer
       IN  todo' = <<[call EXCEPT !.buffer = digits, !.n = @ \div 256,
                                  !.nonzero = IF call.n % 256 # 0 THEN Len(digits) ELSE @]>>
                   \o Tail(todo)
    /\ UNCHANGED out
    /\ Same

PointerEnd ==
    /\ Turn("pointer") /\ Len(Head(todo).buffer) = 2 * PointerBytes
    /\ LET call == Head(todo)
       IN  out' = out \o <<"0", "x">>
                  \o SubSeq(call.buffer, Len(call.buffer) - call.nonzero + 1, Len(call.buffer))
    /\ todo' = Tail(todo)
    /\ Same

Next == WriteText \/ FormatPart \/ QuoteCharacter \/ QuoteEnd \/ PointerByte \/ PointerEnd
Spec == Init /\ [][Next]_vars

-----------------------------------------------------------------------------
\* Reading it back.
DigitOf(c) == (CHOOSE d \in DOMAIN Hex : Hex[d] = c) - 1
Number(base, digits) == FoldLeft(LAMBDA n, c : base * n + DigitOf(c), 0, digits)

\* A string that is quoted, read from the left; a quote must not come unescaped.
Unquoted(text) ==
    LET Read(sum, c) ==
          CASE sum.skip > 0 -> [sum EXCEPT !.skip = @ - 1,
                                           !.s = IF sum.skip = 1 THEN Append(@, "bell") ELSE @]
            [] sum.escaped ->
                 IF c = "u" THEN [sum EXCEPT !.escaped = FALSE, !.skip = 4]
                 ELSE [sum EXCEPT !.escaped = FALSE,
                                  !.s = Append(@, CASE c = "n" -> "newline" [] c = "t" -> "tab"
                                                    [] OTHER -> c)]
            [] ~sum.escaped /\ sum.skip = 0 ->
                 IF c = "backslash" THEN [sum EXCEPT !.escaped = TRUE]
                 ELSE [sum EXCEPT !.s = Append(@, IF c = "quote" THEN "unescaped" ELSE c)]
    IN  FoldLeft(Read, [s |-> <<>>, escaped |-> FALSE, skip |-> 0], text).s

Inner(text) == SubSeq(text, 2, Len(text) - 1)

\* The elements of a container have no comma or space of their own.
Parts(text) ==
    LET Read(sum, c) ==
          IF c = "," THEN Append(sum, <<>>)
          ELSE IF c = " " THEN sum
          ELSE [sum EXCEPT ![Len(sum)] = Append(@, c)]
    IN  IF text = <<>> THEN <<>> ELSE FoldLeft(Read, <<<<>>>>, text)

\* Whether `text` says `v` in this format.
Says(text, formatter, v) ==
    CASE formatter = "quote" -> text[1] = "quote" /\ Last(text) = "quote"
                                /\ Unquoted(Inner(text)) = v.is
      [] formatter = "text" -> text = v.is
      [] formatter \in {"decimal", "hexadecimal"} /\ v.type = "integer" ->
           LET base == IF formatter = "decimal" THEN 10 ELSE 16
           IN  /\ Len(text) <= 1 + Bits
               /\ v.is = IF text[1] = "-" THEN - Number(base, Tail(text)) ELSE Number(base, text)
      [] formatter = "decimal" /\ v.type = "bool" -> v.is = (text = <<"1">>)
      [] formatter = "byte" -> Len(text) = 2 /\ Number(16, text) = v.is
      [] formatter = "pointer" ->
           LET digits == SubSeq(text, 3, Len(text))
           IN  /\ SubSeq(text, 1, 2) = <<"0", "x">>
               /\ Number(16, digits) = v.is
               /\ Len(digits) > 2 => SubSeq(digits, 1, 2) # <<"0", "0">>
      [] formatter \in {"lower", "title", "upper"} ->
           IF v.type = "nullptr" THEN text = <<"null">>
           ELSE v.is = (text \in {<<"true">>, <<"True">>, <<"TRUE">>})

\* The text of a value says which value it is, in every format: an escaped
\* string comes back when its escapes are undone, numbers fit their buffers,
\* pointers lose no digit, and the parts of a container stay apart.
FormattersExact ==
    todo = <<>> =>
        IF value.type = "sequence"
          THEN LET parts == Parts(Inner(out))
               IN  /\ Len(parts) = Len(value.is)
                   /\ \A i \in DOMAIN parts :
                        Says(parts[i], NthInterpolateFormatter(value.is[i].type, "?"), value.is[i])
          ELSE Says(out, NthInterpolateFormatter(value.type, spec), value)
=============================================================================
