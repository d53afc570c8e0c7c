-------------------------------- MODULE Try --------------------------------
(***************************************************************************)
(* NTH_TRY, NTH_UNWRAP and NTH_UNWRAP_OR (try/internal/try.h): functions   *)
(* that call each other, and leave when a call did not succeed.  What is   *)
(* okay, and what is returned instead, the handler of the type of the call *)
(* says.  optional_any and status_or_any stand for std::optional<U> and    *)
(* absl::StatusOr<U> with a U to which false and nullptr convert.          *)
(***************************************************************************)
EXTENDS Naturals, Sequences

CONSTANTS
    Types,          \* what a function returns
    Errors,         \* what an absl::Status can say
    NoError,
    MaxDepth,       \* bound: functions that are running
    MaxCalls        \* bound: calls made

VARIABLES
    frames,         \* the functions that are running, main first
    returned,       \* <<v>>: v was just returned to the last of frames
    aborted,        \* std::abort
    calls,          \* history: how many calls were made
    raised,         \* history: <<e>>: a failure e is on its way up
    swallowed       \* history: a failure was converted into a success

vars == <<frames, returned, aborted, calls, raised, swallowed>>

Pointers == {"pointer"}
Optionals == {"optional", "optional_any"}
Statuses == {"status", "status_or", "status_or_any"}
Plain == {"bool"} \cup Pointers

Value(type, ok, error) == [type |-> type, ok |-> ok, error |-> error]
Failure(type, error) ==
    Value(type, FALSE, IF type \in Statuses THEN error ELSE NoError)

-----------------------------------------------------------------------------
\* okay of the default handlers: the bool itself, a pointer that is not null,
\* has_value(), ok().
okay(v) == v.ok

\* Types to which what transform_return gives converts: false and nullptr, to
\* whatever can be made of them; nullopt; a status.
ReturnTypes(type) ==
    CASE type = "bool" -> {"bool", "int", "optional_any", "status_or_any"}
      [] type \in Pointers -> {"pointer", "bool", "int", "optional_any", "status_or_any"}
      [] type \in Optionals -> Optionals
      [] type \in Statuses -> Statuses

\* ... and what it then is: a holder holds what converts to what it holds, and
\* an exit code of 0 is success.
Swallows(type, returns) ==
    type \in Plain /\ returns \in {"optional_any", "status_or_any", "int"}

\* Mutant of transform_return: a status that is made anew.
transform_return_anew(v, returns) ==
    Value(returns, FALSE, IF returns \in Statuses
                            THEN CHOOSE e \in Errors : e # v.error ELSE NoError)

transform_return(v, returns) ==
    IF Swallows(v.type, returns) THEN Value(returns, TRUE, NoError)
    ELSE Failure(returns, v.error)

\* The handler for main: it returns 1.
main_transform_return(v) == Value("int", FALSE, NoError)

-----------------------------------------------------------------------------
Frame(type) == [type |-> type, statement |-> "none", loop |-> type = "void"]
Top == frames[Len(frames)]
Running == frames # <<>> /\ returned = <<>> /\ ~aborted

Init ==
    /\ frames = <<Frame("int")>>
    /\ returned = <<>> /\ aborted = FALSE
    /\ calls = 0 /\ raised = <<>> /\ swallowed = FALSE

\* A call as an operand of one of the macros; the statement must compile in a
\* function that returns what the one it stands in does.
Compiles(statement, type, in) ==
    CASE statement = "try" -> in.type \in ReturnTypes(type)
      [] statement = "try_main" -> in.type = "int"
      [] statement = "unwrap" -> TRUE
      [] statement = "or_return" -> in.type = "void"
      [] statement \in {"or_break", "or_continue"} -> in.loop

Enter(statement, type) ==
    /\ calls < MaxCalls /\ Len(frames) < MaxDepth
    /\ calls' = calls + 1
    /\ frames' = Append([frames EXCEPT ![Len(frames)].statement = statement], Frame(type))
    /\ UNCHANGED <<returned, aborted, raised, swallowed>>

Call(statement, type) ==
    /\ Running
    /\ type # "void" /\ Compiles(statement, type, Top)
    /\ Enter(statement, type)

CallPlainly == Running /\ Enter("none", "void")

Leave(v) == frames' = SubSeq(frames, 1, Len(frames) - 1) /\ returned' = <<v>>

\* A function comes to its end, or fails of itself.
Return ==
    /\ Running
    /\ Leave(Value(Top.type, TRUE, NoError))
    /\ UNCHANGED <<aborted, calls, raised, swallowed>>
Fail(error) ==
    /\ Running /\ Len(frames) > 1 /\ Top.type # "void"
    /\ Leave(Failure(Top.type, error))
    /\ raised' = <<Failure(Top.type, error).error>>
    /\ UNCHANGED <<aborted, calls, swallowed>>

Got(v) == frames # <<>> /\ returned = <<v>> /\ ~aborted
Statement(name) == Top.statement = name

\* The call succeeded: the macro is its value, and the function goes on.
Succeed(v) ==
    /\ Got(v) /\ (okay(v) \/ Statement("none"))
    /\ frames' = [frames EXCEPT ![Len(frames)].statement = "none"]
    /\ returned' = <<>>
    /\ UNCHANGED <<aborted, calls, raised, swallowed>>

\* NTH_TRY, with the handler of the type or with that for main.
LeaveTry(v) ==
    /\ Got(v) /\ ~okay(v) /\ Statement("try")
    /\ Leave(transform_return(v, Top.type))
    /\ swallowed' = (swallowed \/ Swallows(v.type, Top.type))
    /\ UNCHANGED <<aborted, calls, raised>>
LeaveMain(v) ==
    /\ Got(v) /\ ~okay(v) /\ Statement("try_main")
    /\ Leave(main_transform_return(v))
    /\ UNCHANGED <<aborted, calls, raised, swallowed>>

\* NTH_UNWRAP logs and aborts.
Abort(v) ==
    /\ Got(v) /\ ~okay(v) /\ Statement("unwrap")
    /\ aborted' = TRUE
    /\ UNCHANGED <<frames, returned, calls, raised, swallowed>>

\* NTH_UNWRAP_OR: what was called for has dealt with the failure.
LeaveOr(v) ==
    /\ Got(v) /\ ~okay(v) /\ Statement("or_return")
    /\ Leave(Value("void", TRUE, NoError))
    /\ raised' = <<>>
    /\ UNCHANGED <<aborted, calls, swallowed>>
LoopOr(v, statement) ==
    /\ Got(v) /\ ~okay(v) /\ Statement(statement) /\ statement \in {"or_break", "or_continue"}
    /\ frames' = [frames EXCEPT ![Len(frames)] =
                    [Frame(Top.type) EXCEPT !.loop = (statement = "or_continue")]]
    /\ returned' = <<>>
    /\ raised' = <<>>
    /\ UNCHANGED <<aborted, calls, swallowed>>

Statements == {"try", "try_main", "unwrap", "or_return", "or_break", "or_continue"}
Next ==
    \/ \E statement \in Statements, type \in Types : Call(statement, type)
    \/ CallPlainly \/ Return \/ (\E error \in Errors : Fail(error))
    \/ \E k \in DOMAIN returned :
         LET v == returned[k]
         IN  \/ Succeed(v) \/ LeaveTry(v) \/ LeaveMain(v) \/ Abort(v) \/ LeaveOr(v)
             \/ \E statement \in Statements : LoopOr(v, statement)
Spec == Init /\ [][Next]_vars

-----------------------------------------------------------------------------
\* A failure is not lost on its way up: while it is not dealt with, what the
\* functions return one after the other is not okay, main exits with 1, no
\* function goes on, and a status still says what it said where it came from;
\* and what is not okay comes from a failure (try.h:234-258).  The exception is
\* a failure that a function returned as a success.
FailuresArrive ==
    ~swallowed =>
        /\ raised # <<>> <=> (returned # <<>> /\ ~okay(returned[1]))
        /\ raised # <<>> /\ returned[1].type \in Statuses => returned[1].error = raised[1]
        /\ aborted => raised # <<>>
=============================================================================
