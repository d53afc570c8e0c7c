------------------------------ MODULE FilePath ------------------------------
(* file_path::try_construct (io/file_path.cc), part by part.               *)
EXTENDS Naturals, Sequences

CONSTANT Names      \* texts of "/", "." and other characters

VARIABLES
    given,          \* history: the text that names the path
    name,           \* what is left of it
    path,           \* name_
    valid           \* FALSE: std::nullopt

vars == <<given, name, path, valid>>

absolute == given # <<>> /\ Head(given) = "/"

\* A '/' in front is taken at once.
Init ==
    /\ given \in Names
    /\ path = IF absolute THEN <<"/">> ELSE <<>>
    /\ name = IF absolute THEN Tail(given) ELSE given
    /\ valid = TRUE

Least(S) == CHOOSE x \in S : \A y \in S : x <= y
Greatest(S) == CHOOSE x \in S : \A y \in S : y <= x
Slashes(s) == {k \in DOMAIN s : s[k] = "/"}

\* s, up to the next '/', and the name without both.
Part == SubSeq(name, 1, IF Slashes(name) = {} THEN Len(name) ELSE Least(Slashes(name)) - 1)
Rest == SubSeq(name, Least({Len(Part) + 1, Len(name)}) + 1, Len(name))

Refuse == valid' = FALSE /\ UNCHANGED <<given, name, path>>
Named(p) == path' = p /\ name' = Rest /\ UNCHANGED <<given, valid>>

Empty == valid /\ name # <<>> /\ Part = <<>> /\ Refuse
Dot == valid /\ Part = <<".">> /\ Named(path)

\* Mutant of DotDot: a path of one name is left as it is.
DotDotStays ==
    /\ valid /\ Part = <<".", ".">>
    /\ IF Slashes(path) = {} THEN IF path = <<>> THEN Refuse ELSE Named(path)
       ELSE IF Greatest(Slashes(path)) = 1 THEN Refuse
       ELSE Named(SubSeq(path, 1, Greatest(Slashes(path)) - 1))

DotDot ==
    /\ valid /\ Part = <<".", ".">>
    /\ IF Slashes(path) = {} THEN IF path = <<>> THEN Refuse ELSE Named(<<>>)
       ELSE IF Greatest(Slashes(path)) = 1 THEN Refuse
       ELSE Named(SubSeq(path, 1, Greatest(Slashes(path)) - 1))

AppendName ==
    /\ valid /\ Part \notin {<<>>, <<".">>, <<".", ".">>}
    /\ Named(path \o (IF path # <<>> THEN <<"/">> ELSE <<>>) \o Part)

Next == Empty \/ Dot \/ DotDot \/ AppendName
Spec == Init /\ [][Next]_vars

-----------------------------------------------------------------------------
\* What a text means, character by character: the texts of the directories gone
\* through, from the one that it starts in, each the one before with a '/' and
\* a name, unless the one before is empty.
Separated(dir) == IF dir = <<>> THEN <<>> ELSE Append(dir, "/")

\* At the end of a part: ".." goes back, and there is no way back from the start.
Refused(w) == w.part = <<>> \/ (w.part = <<".", ".">> /\ Len(w.dirs) = 1)
Entered(w) ==
    IF Refused(w) THEN [w EXCEPT !.ok = FALSE]
    ELSE [ok |-> w.ok, part |-> <<>>,
          dirs |-> IF w.part = <<".">> THEN w.dirs
                   ELSE IF w.part = <<".", ".">> THEN SubSeq(w.dirs, 1, Len(w.dirs) - 1)
                   ELSE Append(w.dirs, Separated(w.dirs[Len(w.dirs)]) \o w.part)]

\* After k characters of the text.
Way[k \in 0 .. Len(given)] ==
    IF k = 0
      THEN [ok |-> TRUE, part |-> <<>>, dirs |-> <<IF absolute THEN <<"/">> ELSE <<>>>>]
    ELSE IF given[k] # "/" THEN [Way[k - 1] EXCEPT !.part = Append(@, given[k])]
    ELSE IF k = 1 THEN Way[0]
    ELSE Entered(Way[k - 1])

\* A '/' may stand at the end.
Arrived == LET w == Way[Len(given)] IN IF w.part = <<>> THEN w ELSE Entered(w)

Done == ~valid \/ name = <<>>

\* A path is refused if and only if its way leaves where it started or has an
\* empty part.  Otherwise it is the text of the directory it leads to, in which
\* two '/' are in front of the first name if the path is absolute: one way to
\* write each place, so that == compares places (file_path_test.cc).
PathExact ==
    Done => /\ valid <=> Arrived.ok
            /\ valid => path = Arrived.dirs[Len(Arrived.dirs)]
=============================================================================
