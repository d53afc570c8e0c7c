------------------------------ MODULE LogLine ------------------------------
(***************************************************************************)
(* nth::log_line (debug/log/line.h): the switch of one log statement.  It  *)
(* is one atomic bool, `enabled_`, and a shared_ptr, `condition_`, that is *)
(* guarded by a spin lock.  A shared_ptr is two words, the object and the  *)
(* control block; copying and assigning it touch them one after the other. *)
(*                                                                         *)
(* Any thread may evaluate the statement (enabled) or switch the line      *)
(* (enable, disable) at any time.  enable() of a text that does not parse  *)
(* returns before it touches the line, and is a stuttering step here.      *)
(***************************************************************************)
CONSTANTS
    Threads,
    Configs,      \* what parsing a condition can give
    Accepted,     \* the conditions the statement's reader says yes to
    None          \* the null pointer

ASSUME ConfigsAssumption == Accepted \subseteq Configs /\ None \notin Configs

VARIABLES
    default,      \* the reader is log_line::default_reader
    enabled,      \* enabled_
    lock,         \* lock_
    object,       \* condition_: the pointer to the config
    control,      \* condition_: the control block of the same config
    pc,
    localObject,  \* the thread's own shared_ptr: the copy get_config returns,
    localControl, \*    or the parsed config enable() hands to set_config
    verdict       \* what the thread's latest call of enabled() returned

line == <<default, enabled>>
condition_ == <<object, control>>
locals == <<localObject, localControl>>
vars == <<line, lock, condition_, pc, locals, verdict>>

Init ==
    /\ default \in BOOLEAN
    /\ enabled = TRUE
    /\ lock = FALSE
    /\ object = None
    /\ control = None
    /\ pc = [t \in Threads |-> "idle"]
    /\ localObject = [t \in Threads |-> None]
    /\ localControl = [t \in Threads |-> None]
    /\ verdict = [t \in Threads |-> "no"]

Goto(t, from, to) ==
    /\ pc[t] = from
    /\ pc' = [pc EXCEPT ![t] = to]

Return(t, b) == verdict' = [verdict EXCEPT ![t] = IF b THEN "yes" ELSE "no"]

\* Mutant of Acquire: the outcome of compare_exchange_weak is ignored.
AcquireAnyway(t, from, to) ==
    /\ lock' = TRUE
    /\ Goto(t, from, to)
    /\ UNCHANGED <<line, condition_, locals, verdict>>

\* compare_exchange_weak in a loop: a failed attempt changes nothing.
Acquire(t, from, to) ==
    /\ ~ lock
    /\ lock' = TRUE
    /\ Goto(t, from, to)
    /\ UNCHANGED <<line, condition_, locals, verdict>>

\* Mutant of Release: a compare-exchange that expects the lock to be free.
ReleaseSpins(t, from, to) ==
    IF lock
    THEN pc[t] = from /\ UNCHANGED vars
    ELSE /\ Goto(t, from, to)
         /\ UNCHANGED <<line, lock, condition_, locals, verdict>>

Release(t, from, to) ==
    /\ lock' = FALSE
    /\ Goto(t, from, to)
    /\ UNCHANGED <<line, condition_, locals, verdict>>

-----------------------------------------------------------------------------
(* enabled(reader)                                                         *)

\* enabled_.load(): off answers the call, and so does on without a reader.
LoadDecides(t) ==
    /\ ~ enabled \/ default
    /\ Goto(t, "idle", "idle")
    /\ Return(t, enabled)
    /\ UNCHANGED <<line, lock, condition_, locals>>

LoadEnabled(t) ==
    /\ enabled /\ ~ default
    /\ Goto(t, "idle", "get")
    /\ UNCHANGED <<line, lock, condition_, locals, verdict>>

\* Mutant of LockGet: get_config reads without the lock.
LockGetMissing(t) ==
    /\ Goto(t, "get", "copy object")
    /\ UNCHANGED <<line, lock, condition_, locals, verdict>>

\* get_config(): the shared_ptr is copied under the spin lock.
LockGet(t) == Acquire(t, "get", "copy object")

CopyObject(t) ==
    /\ Goto(t, "copy object", "copy control")
    /\ localObject' = [localObject EXCEPT ![t] = object]
    /\ UNCHANGED <<line, lock, condition_, localControl, verdict>>

CopyControl(t) ==
    /\ Goto(t, "copy control", "unlock get")
    /\ localControl' = [localControl EXCEPT ![t] = control]
    /\ UNCHANGED <<line, lock, condition_, localObject, verdict>>

UnlockGet(t) == Release(t, "unlock get", "read")

\* A null config answers false; any other one is shown to the reader, with
\* no lock held.
Read(t) ==
    /\ Goto(t, "read", "idle")
    /\ Return(t, localObject[t] \in Accepted)
    /\ UNCHANGED <<line, lock, condition_, locals>>

-----------------------------------------------------------------------------
(* enable(condition) and disable()                                         *)

\* Mutant of Parse: enable() stores the switch without the config.
ParseForgetsConfig(t, c) ==
    /\ Goto(t, "idle", "store")
    /\ localObject' = [localObject EXCEPT ![t] = c]
    /\ localControl' = [localControl EXCEPT ![t] = c]
    /\ UNCHANGED <<line, lock, condition_, verdict>>

Parse(t, c) ==
    /\ Goto(t, "idle", "set")
    /\ localObject' = [localObject EXCEPT ![t] = c]
    /\ localControl' = [localControl EXCEPT ![t] = c]
    /\ UNCHANGED <<line, lock, condition_, verdict>>

\* Mutant of LockSet: set_config writes without the lock.
LockSetMissing(t) ==
    /\ Goto(t, "set", "set object")
    /\ UNCHANGED <<line, lock, condition_, locals, verdict>>

\* set_config()
LockSet(t) == Acquire(t, "set", "set object")

SetObject(t) ==
    /\ Goto(t, "set object", "set control")
    /\ object' = localObject[t]
    /\ UNCHANGED <<line, lock, control, locals, verdict>>

\* Mutant of SetControl: the old control block stays.
SetControlForgotten(t) ==
    /\ Goto(t, "set control", "unlock set")
    /\ UNCHANGED <<line, lock, condition_, locals, verdict>>

SetControl(t) ==
    /\ Goto(t, "set control", "unlock set")
    /\ control' = localControl[t]
    /\ UNCHANGED <<line, lock, object, locals, verdict>>

UnlockSet(t) == Release(t, "unlock set", "store")

StoreEnabled(t) ==
    /\ Goto(t, "store", "idle")
    /\ enabled' = TRUE
    /\ UNCHANGED <<default, lock, condition_, locals, verdict>>

Disable(t) ==
    /\ Goto(t, "idle", "idle")
    /\ enabled' = FALSE
    /\ UNCHANGED <<default, lock, condition_, locals, verdict>>

Evaluate(t) ==
    \/ LoadDecides(t) \/ LoadEnabled(t)
    \/ LockGet(t) \/ CopyObject(t) \/ CopyControl(t) \/ UnlockGet(t) \/ Read(t)

Switch(t) ==
    \/ \E c \in Configs : Parse(t, c)
    \/ LockSet(t) \/ SetObject(t) \/ SetControl(t) \/ UnlockSet(t) \/ StoreEnabled(t)
    \/ Disable(t)

Next == \E t \in Threads : Evaluate(t) \/ Switch(t)

Spec == Init /\ [][Next]_vars

\* A thread that is inside a call keeps running; no thread has to make a call,
\* and a thread that spins need not be the one that gets the lock.
Continue(t) ==
    \/ CopyObject(t) \/ CopyControl(t) \/ UnlockGet(t) \/ Read(t)
    \/ SetObject(t) \/ SetControl(t) \/ UnlockSet(t) \/ StoreEnabled(t)

FairSpec == Spec /\ \A t \in Threads : WF_vars(Continue(t) \/ LockGet(t) \/ LockSet(t))

-----------------------------------------------------------------------------
Reading == {"copy object", "copy control", "unlock get"}
Writing == {"set object", "set control", "unlock set"}
Locked(t) == pc[t] \in Reading \union Writing

\* Types.
TypeOK ==
    /\ default \in BOOLEAN
    /\ enabled \in BOOLEAN
    /\ lock \in BOOLEAN
    /\ {object, control} \subseteq Configs \union {None}
    /\ pc \in [Threads -> Reading \union Writing \union
                          {"idle", "get", "read", "set", "store"}]
    /\ localObject \in [Threads -> Configs \union {None}]
    /\ localControl \in [Threads -> Configs \union {None}]
    /\ verdict \in [Threads -> {"yes", "no"}]

\* Two threads are never between the lock and the unlock together, though the
\* lock does not know its owner and anybody could release it.
Exclusion == \A t, u \in Threads : Locked(t) /\ Locked(u) => t = u

\* The reader is shown a config that is kept alive by its own control block:
\* a copy is never taken from the middle of an assignment.
NoTornConfig ==
    \A t \in Threads : pc[t] = "read" => localObject[t] = localControl[t]

\* A line that was off is switched on only once a parsed condition is in
\* place (line.h:95-104).
SwitchedOnWithConfig == [][~ enabled /\ enabled' => object # None]_vars

\* A spin lock somebody holds is given back.
LockReleased == lock ~> ~ lock

\* What an outside observer sees of the line is LogLineSpec: the condition
\* changes and is read at one instant, when the second word is.
Phase(place) ==
    CASE place \in {"copy object", "copy control"} -> "get"
      [] place = "unlock get" -> "read"
      [] place \in {"set object", "set control"} -> "set"
      [] place = "unlock set" -> "store"
      [] OTHER -> place

\* Between the two reads of a copy the thread has not read the condition yet.
Observed(t) ==
    IF pc[t] = "copy control" THEN localControl[t] ELSE localObject[t]

Abstract == INSTANCE LogLineSpec
              WITH condition <- control,
                   pc <- [t \in Threads |-> Phase(pc[t])],
                   local <- [t \in Threads |-> Observed(t)]
ImplementsSpec == Abstract!Spec

-----------------------------------------------------------------------------
(* The inductive invariant behind these properties.                        *)

\* The lock is taken exactly while some thread is between lock and unlock.
LockInv == lock <=> \E t \in Threads : Locked(t)

\* The two words of the shared condition agree except in the middle of an
\* assignment, and those of a copy except in the middle of copying.
WordsInv ==
    /\ (\A t \in Threads : pc[t] # "set control") => object = control
    /\ \A t \in Threads :
          /\ pc[t] = "set control" => object = localObject[t]
          /\ IF pc[t] = "copy control" THEN localObject[t] = object
             ELSE localObject[t] = localControl[t]

\* What is about to be stored is a config, and once stored it stays one.
StoredInv ==
    \A t \in Threads :
       /\ pc[t] \in {"set", "set object", "set control"} => localObject[t] \in Configs
       /\ pc[t] \in {"set control", "unlock set", "store"} => object \in Configs

\* All together.
IInv == TypeOK /\ Exclusion /\ LockInv /\ WordsInv /\ StoredInv
=============================================================================
