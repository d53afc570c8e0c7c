---------------------------- MODULE LogLineSpec ----------------------------
(***************************************************************************)
(* What a log_line promises the statements that consult it and the calls   *)
(* that switch it (debug/log/line.h): its condition is replaced and read   *)
(* as a whole, a statement that found the line switched on asks its reader *)
(* about a condition that was in force during the statement, and enabling  *)
(* a line puts the new condition in place before it switches the line on.  *)
(***************************************************************************)
CONSTANTS
    Threads,
    Configs,      \* what parsing a condition can give
    Accepted,     \* the conditions the statement's reader says yes to
    None          \* no condition: the null shared_ptr

VARIABLES
    default,      \* the line has no reader of its own (default_config)
    enabled,      \* enabled_
    condition,    \* condition_
    pc,
    local,        \* per thread, the condition it read or is about to store
    verdict       \* per thread, what its latest call of enabled() returned

vars == <<default, enabled, condition, pc, local, verdict>>

Init ==
    /\ default \in BOOLEAN
    /\ enabled = TRUE
    /\ condition = None
    /\ pc = [t \in Threads |-> "idle"]
    /\ local = [t \in Threads |-> None]
    /\ verdict = [t \in Threads |-> "no"]

Goto(t, from, to) ==
    /\ pc[t] = from
    /\ pc' = [pc EXCEPT ![t] = to]

Return(t, b) == verdict' = [verdict EXCEPT ![t] = IF b THEN "yes" ELSE "no"]

\* A statement looks at the switch: off means no, and on means yes when the
\* line has no reader.
LoadDecides(t) ==
    /\ ~ enabled \/ default
    /\ Goto(t, "idle", "idle")
    /\ Return(t, enabled)
    /\ UNCHANGED <<default, enabled, condition, local>>

LoadEnabled(t) ==
    /\ enabled /\ ~ default
    /\ Goto(t, "idle", "get")
    /\ UNCHANGED <<default, enabled, condition, local, verdict>>

GetConfig(t) ==
    /\ Goto(t, "get", "read")
    /\ local' = [local EXCEPT ![t] = condition]
    /\ UNCHANGED <<default, enabled, condition, verdict>>

Read(t) ==
    /\ Goto(t, "read", "idle")
    /\ Return(t, local[t] \in Accepted)
    /\ UNCHANGED <<default, enabled, condition, local>>

\* enable(): a condition that does not parse leaves everything as it was.
Parse(t, c) ==
    /\ Goto(t, "idle", "set")
    /\ local' = [local EXCEPT ![t] = c]
    /\ UNCHANGED <<default, enabled, condition, verdict>>

SetConfig(t) ==
    /\ Goto(t, "set", "store")
    /\ condition' = local[t]
    /\ UNCHANGED <<default, enabled, local, verdict>>

StoreEnabled(t) ==
    /\ Goto(t, "store", "idle")
    /\ enabled' = TRUE
    /\ UNCHANGED <<default, condition, local, verdict>>

Disable(t) ==
    /\ Goto(t, "idle", "idle")
    /\ enabled' = FALSE
    /\ UNCHANGED <<default, condition, local, verdict>>

Next ==
    \E t \in Threads :
       \/ LoadDecides(t) \/ LoadEnabled(t) \/ GetConfig(t) \/ Read(t)
       \/ \E c \in Configs : Parse(t, c)
       \/ SetConfig(t) \/ StoreEnabled(t) \/ Disable(t)

Spec == Init /\ [][Next]_vars
=============================================================================
