----------------------------- MODULE Contracts -----------------------------
(***************************************************************************)
(* The contracts library (debug/contracts) and the macros the test library *)
(* builds on it (test/internal/test.h).                                    *)
(*                                                                         *)
(* Threads run bodies of functions.  NTH_REQUIRE, NTH_EXPECT and           *)
(* NTH_ASSERT evaluate their expression where they stand; NTH_ENSURE       *)
(* declares an on_exit object whose destructor does so when the scope is   *)
(* left, in reverse order.  A contract whose enabler is on and whose       *)
(* expression is false runs every registered violation handler, then logs  *)
(* its message to every registered sink, and then fails: NTH_REQUIRE and   *)
(* NTH_ENSURE abort the process, NTH_ASSERT returns, NTH_EXPECT goes on.   *)
(*                                                                         *)
(* Handlers and sinks are kept by registrars, used here by what they       *)
(* promise (RegistrarSpec).  The enablers lie in a linker section that     *)
(* contract_check_off, _on and _if walk with no lock.                      *)
(***************************************************************************)
EXTENDS Naturals, Sequences, SequencesExt, FiniteSetsExt

CONSTANTS
    Threads,
    NumContracts,   \* the enablers of the section nth_contract
    Category,       \* Category[c]: the macro of contract c
    Message,        \* the contracts with a message: NTH_REQUIRE(x).log<...>()
    Globs,          \* what a glob can match: sets of contracts
    Handlers,       \* the violation handlers
    Sinks,          \* the log sinks
    MaxHandlers,    \* bound: registrations of handlers
    MaxSinks,       \* bound: registrations of sinks
    MaxCalls,       \* bound: switching calls of a behaviour
    MaxChecks,      \* bound: contracts that bodies come to in a behaviour
    MaxScope,       \* bound: NTH_ENSUREs of one scope
    None            \* no contract

Contracts == 1 .. NumContracts
Aborts == {c \in Contracts : Category[c] \in {"NTH_REQUIRE", "NTH_ENSURE"}}
AtExit == {c \in Contracts : Category[c] = "NTH_ENSURE"}

ASSUME ContractsAssumption ==
    /\ NumContracts \in Nat
    /\ Category \in [Contracts -> {"NTH_REQUIRE", "NTH_ENSURE", "NTH_EXPECT", "NTH_ASSERT"}]
    /\ Message \subseteq Contracts
    /\ Globs \subseteq SUBSET Contracts
    /\ None \notin Contracts

VARIABLES
    enabled,                                \* enabled_ of every enabler
    handlers, hWalking, hSnapshot, hSeen,   \* the registry of handlers
    sinks, sWalking, sSnapshot, sSeen,      \* the registry of sinks
    pc,
    scope,          \* the NTH_ENSUREs of a thread's scope, oldest first
    checking,       \* the contract a thread is failing
    call,           \* the switching call a thread is in
    at,             \* the enabler it has come to
    aborted,        \* the process has been aborted
    calls, checks,  \* switching calls and contracts (bound the behaviours)
    due,            \* history: the handlers and sinks at a violation
    alone,          \* history: no other switching call overlapped this one
    before          \* history: the switches when a switching call began

handlerRegistry == <<handlers, hWalking, hSnapshot, hSeen>>
sinkRegistry == <<sinks, sWalking, sSnapshot, sSeen>>
registries == <<handlerRegistry, sinkRegistry>>
switching == <<call, at, calls>>
history == <<alone, before>>
vars == <<enabled, registries, pc, scope, checking, switching, aborted, checks,
          due, history>>

handlerList == "registered_contract_violation_handlers"
sinkList == "registered_log_sinks"
HandlerRegistry == INSTANCE RegistrarSpec
    WITH Registrars <- {handlerList}, Values <- Handlers, registered <- handlers,
         walking <- hWalking, snapshot <- hSnapshot, seen <- hSeen
SinkRegistry == INSTANCE RegistrarSpec
    WITH Registrars <- {sinkList}, Values <- Sinks, registered <- sinks,
         walking <- sWalking, snapshot <- sSnapshot, seen <- sSeen

NoCall == [kind |-> "none", glob |-> {}]

Init ==
    /\ enabled = [c \in Contracts |-> TRUE]
    /\ HandlerRegistry!Init
    /\ SinkRegistry!Init
    /\ pc = [t \in Threads |-> "body"]
    /\ scope = [t \in Threads |-> <<>>]
    /\ checking = [t \in Threads |-> None]
    /\ call = [t \in Threads |-> NoCall]
    /\ at = [t \in Threads |-> 1]
    /\ aborted = FALSE
    /\ calls = 0
    /\ checks = 0
    /\ due = [t \in Threads |-> [handlers |-> <<>>, sinks |-> <<>>]]
    /\ alone = [t \in Threads |-> TRUE]
    /\ before = [t \in Threads |-> enabled]

Goto(t, from, to) ==
    /\ pc[t] = from
    /\ pc' = [pc EXCEPT ![t] = to]

-----------------------------------------------------------------------------
(* The body of a function, and leaving it.                                 *)

\* enabler_var.enabled() and execute_contract_check(...): a contract that is
\* off is not evaluated; one that holds has no effect.
Passes ==
    UNCHANGED <<enabled, registries, checking, switching, aborted, due>>

Violates(t, c, from) ==
    /\ enabled[c]
    /\ Goto(t, from, "violated")
    /\ checking' = [checking EXCEPT ![t] = c]
    /\ due' = [due EXCEPT ![t] = [handlers |-> handlers[handlerList],
                                  sinks |-> sinks[sinkList]]]
    /\ UNCHANGED <<enabled, registries, switching, aborted>>

\* NTH_REQUIRE, NTH_EXPECT and NTH_ASSERT.
Check(t, c) ==
    /\ c \notin AtExit /\ checks < MaxChecks
    /\ \/ Goto(t, "body", "body") /\ Passes
       \/ Violates(t, c, "body")
    /\ checks' = checks + 1
    /\ UNCHANGED scope

\* NTH_ENSURE: only its on_exit object is constructed.
Ensure(t, c) ==
    /\ c \in AtExit /\ checks < MaxChecks /\ Len(scope[t]) < MaxScope
    /\ Goto(t, "body", "body")
    /\ scope' = [scope EXCEPT ![t] = Append(@, c)]
    /\ checks' = checks + 1
    /\ UNCHANGED <<enabled, registries, checking, switching, aborted, due>>

\* A return, early or not.
Leave(t) ==
    /\ Goto(t, "body", "exit")
    /\ scope[t] # <<>>
    /\ UNCHANGED <<enabled, registries, scope, checking, switching, aborted, checks, due>>

\* ~on_exit, the youngest one first.
CheckEnsure(t) ==
    /\ scope[t] # <<>>
    /\ \/ Goto(t, "exit", "exit") /\ Passes
       \/ Violates(t, Last(scope[t]), "exit")
    /\ scope' = [scope EXCEPT ![t] = Front(@)]
    /\ UNCHANGED checks

Left(t) ==
    /\ scope[t] = <<>>
    /\ Goto(t, "exit", "body")
    /\ UNCHANGED <<enabled, registries, scope, checking, switching, aborted, checks, due>>

-----------------------------------------------------------------------------
(* A violation: the handlers, the message, the failure action.             *)

quiet == <<enabled, scope, checking, switching, aborted, checks, due>>

\* handle_contract_violation: the loop over the registered handlers.
Handle(t) ==
    /\ Goto(t, "violated", "handle")
    /\ HandlerRegistry!Registry(t, handlerList)
    /\ UNCHANGED <<sinkRegistry, quiet>>

RunHandler(t) ==
    /\ pc[t] = "handle"
    /\ HandlerRegistry!Visit(t)
    /\ UNCHANGED <<sinkRegistry, pc, quiet>>

\* Mutant of Handled: the loop may stop before the last handler.
HandledEarly(t) ==
    /\ Goto(t, "handle", IF checking[t] \in Message THEN "log" ELSE "fail")
    /\ hWalking' = hWalking \ {t}
    /\ UNCHANGED <<handlers, hSnapshot, hSeen>>
    /\ UNCHANGED <<sinkRegistry, quiet>>

Handled(t) ==
    /\ Goto(t, "handle", IF checking[t] \in Message THEN "log" ELSE "fail")
    /\ HandlerRegistry!Finish(t)
    /\ UNCHANGED <<sinkRegistry, quiet>>

\* log_appender::log: the operand of <<= is evaluated before the failure
\* action on its left, and whatever the switch of the log line says.
Log(t) ==
    /\ Goto(t, "log", "send")
    /\ SinkRegistry!Registry(t, sinkList)
    /\ UNCHANGED <<handlerRegistry, quiet>>

Send(t) ==
    /\ pc[t] = "send"
    /\ SinkRegistry!Visit(t)
    /\ UNCHANGED <<handlerRegistry, pc, quiet>>

Sent(t) ==
    /\ Goto(t, "send", "fail")
    /\ SinkRegistry!Finish(t)
    /\ UNCHANGED <<handlerRegistry, quiet>>

\* Mutant of Abort: ensure_failed does not abort.
AbortRequireOnly(t) ==
    /\ Goto(t, "fail", "aborted")
    /\ Category[checking[t]] = "NTH_REQUIRE"
    /\ aborted' = TRUE
    /\ UNCHANGED <<enabled, registries, scope, checking, switching, checks, due>>

\* require_failed and ensure_failed abort the process.
Abort(t) ==
    /\ checking[t] \in Aborts
    /\ Goto(t, "fail", "aborted")
    /\ aborted' = TRUE
    /\ UNCHANGED <<enabled, registries, scope, checking, switching, checks, due>>

\* Mutant of Resume: NTH_ASSERT goes on as NTH_EXPECT does.
ResumeBody(t) ==
    /\ checking[t] \notin Aborts
    /\ Goto(t, "fail", "body")
    /\ checking' = [checking EXCEPT ![t] = None]
    /\ UNCHANGED <<enabled, registries, scope, switching, aborted, checks, due>>

\* NTH_ASSERT returns, which destroys the scope; NTH_EXPECT goes on.
Resume(t) ==
    /\ checking[t] \notin Aborts
    /\ Goto(t, "fail", IF Category[checking[t]] = "NTH_ASSERT" THEN "exit" ELSE "body")
    /\ checking' = [checking EXCEPT ![t] = None]
    /\ UNCHANGED <<enabled, registries, scope, switching, aborted, checks, due>>

\* register_contract_violation_handler and register_log_sink.
RegisterHandler(t, h) ==
    /\ pc[t] = "body"
    /\ Len(handlers[handlerList]) < MaxHandlers
    /\ HandlerRegistry!Insert(handlerList, h)
    /\ UNCHANGED <<sinkRegistry, pc, quiet>>

RegisterSink(t, s) ==
    /\ pc[t] = "body"
    /\ Len(sinks[sinkList]) < MaxSinks
    /\ SinkRegistry!Insert(sinkList, s)
    /\ UNCHANGED <<handlerRegistry, pc, quiet>>

-----------------------------------------------------------------------------
(* contract_check_off(glob), _on(glob) and _if(glob).                      *)

Begin(t, kind, g) ==
    /\ Goto(t, "body", "line")
    /\ calls < MaxCalls
    /\ calls' = calls + 1
    /\ call' = [call EXCEPT ![t] = [kind |-> kind, glob |-> g]]
    /\ UNCHANGED <<enabled, registries, scope, checking, at, aborted, checks, due>>

ContractCheckOff(t, g) == Begin(t, "off", g)
ContractCheckOn(t, g) == Begin(t, "on", g)
ContractCheckIf(t, g) == Begin(t, "if", g)

\* Mutant of SwitchEnabler: contract_check_if only switches on.
SwitchEnablerOnOnly(t) ==
    LET c == at[t]
        matches == c \in call[t].glob
    IN  /\ pc[t] = "line" /\ c \in Contracts
        /\ enabled' = [enabled EXCEPT ![c] =
              IF call[t].kind = "off" THEN @ /\ ~ matches ELSE @ \/ matches]
        /\ at' = [at EXCEPT ![t] = @ + 1]
        /\ UNCHANGED <<registries, pc, scope, checking, call, calls, aborted, checks, due>>

\* Mutant of SwitchEnabler: the loop has no end.
SwitchEnablerUnbounded(t) ==
    /\ pc[t] = "line"
    /\ at' = [at EXCEPT ![t] = @ + 1]
    /\ UNCHANGED <<enabled, registries, pc, scope, checking, call, calls, aborted, checks, due>>

\* One turn of the loop over the section.
SwitchEnabler(t) ==
    LET c == at[t]
        matches == c \in call[t].glob
    IN  /\ pc[t] = "line" /\ c \in Contracts
        /\ enabled' = [enabled EXCEPT ![c] =
              CASE call[t].kind = "off" -> @ /\ ~ matches
                [] call[t].kind = "on" -> @ \/ matches
                [] call[t].kind = "if" -> matches]
        /\ at' = [at EXCEPT ![t] = @ + 1]
        /\ UNCHANGED <<registries, pc, scope, checking, call, calls, aborted, checks, due>>

Return(t) ==
    /\ at[t] \notin Contracts
    /\ Goto(t, "line", "body")
    /\ call' = [call EXCEPT ![t] = NoCall]
    /\ at' = [at EXCEPT ![t] = 1]
    /\ UNCHANGED <<enabled, registries, scope, checking, calls, aborted, checks, due>>

-----------------------------------------------------------------------------
Switching(t) == pc[t] = "line"

\* What the history variables record of a step.
Watch ==
    /\ alone' = [t \in Threads |->
                   /\ alone[t] \/ ~ Switching(t)
                   /\ \A u \in Threads \ {t} : ~ Switching(u)']
    /\ before' = [t \in Threads |->
                    IF Switching(t) THEN before[t] ELSE enabled]

\* The steps of a thread that has begun something ...
Continue(t) ==
    /\ ~ aborted
    /\ \/ CheckEnsure(t) \/ Left(t)
       \/ Handle(t) \/ RunHandler(t) \/ Handled(t)
       \/ Log(t) \/ Send(t) \/ Sent(t)
       \/ Abort(t) \/ Resume(t)
       \/ SwitchEnabler(t) \/ Return(t)
    /\ Watch

\* ... and those that it takes as it pleases.
Body(t) ==
    /\ ~ aborted
    /\ \/ \E c \in Contracts : Check(t, c) \/ Ensure(t, c)
       \/ Leave(t)
       \/ \E h \in Handlers : RegisterHandler(t, h)
       \/ \E s \in Sinks : RegisterSink(t, s)
       \/ \E g \in Globs : \/ ContractCheckOff(t, g)
                           \/ ContractCheckOn(t, g)
                           \/ ContractCheckIf(t, g)
    /\ Watch

Next == \E t \in Threads : Continue(t) \/ Body(t)

Spec == Init /\ [][Next]_vars

\* Handlers and sinks return; a body need not do anything.
FairSpec == Spec /\ \A t \in Threads : WF_vars(Continue(t))

-----------------------------------------------------------------------------
Failing == {"violated", "handle", "log", "send", "fail", "aborted"}

\* Types of the enablers, the registries and the threads.
TypeOK ==
    /\ enabled \in [Contracts -> BOOLEAN]
    /\ handlers \in [{handlerList} -> Seq(Handlers)]
    /\ hWalking = {t \in Threads : pc[t] = "handle"}
    /\ hSnapshot \in [Threads -> Seq(Handlers)] /\ hSeen \in [Threads -> Seq(Handlers)]
    /\ sinks \in [{sinkList} -> Seq(Sinks)]
    /\ sWalking = {t \in Threads : pc[t] = "send"}
    /\ sSnapshot \in [Threads -> Seq(Sinks)] /\ sSeen \in [Threads -> Seq(Sinks)]
    /\ pc \in [Threads -> Failing \union {"body", "exit", "line"}]
    /\ scope \in [Threads -> Seq(AtExit)]
    /\ checking \in [Threads -> Contracts \union {None}]
    /\ \A t \in Threads : pc[t] \in Failing => checking[t] \in Contracts
    /\ call \in [Threads -> [kind : {"none", "off", "on", "if"}, glob : SUBSET Contracts]]
    /\ \A t \in Threads : Switching(t) => call[t].kind # "none"
    /\ at \in [Threads -> 1 .. NumContracts + 1]
    /\ \A t \in Threads : at[t] = 1 \/ Switching(t)
    /\ aborted \in BOOLEAN
    /\ due \in [Threads -> [handlers : Seq(Handlers), sinks : Seq(Sinks)]]
    /\ alone \in [Threads -> BOOLEAN] /\ before \in [Threads -> [Contracts -> BOOLEAN]]

\* When a thread comes to the failure action of a contract, every handler
\* that was registered when the violation was found has run for it, once for
\* each of its registrations, and the message, if there is one, has reached
\* every sink likewise; whatever other threads register, switch or violate
\* meanwhile, and also in a process that has been aborted by this thread
\* ("all registered violation handlers are invoked and execution is
\* aborted", contracts.h:73-75).
ReportedBeforeFailure ==
    \A t \in Threads : pc[t] \in {"fail", "aborted"} =>
       /\ \A h \in Handlers :
             HandlerRegistry!Occurrences(hSeen[t], h)
             \in HandlerRegistry!Occurrences(due[t].handlers, h)
                 .. HandlerRegistry!Occurrences(handlers[handlerList], h)
       /\ checking[t] \in Message => \A s \in Sinks :
             SinkRegistry!Occurrences(sSeen[t], s)
             \in SinkRegistry!Occurrences(due[t].sinks, s)
                 .. SinkRegistry!Occurrences(sinks[sinkList], s)

\* A switching call that no other one overlapped leaves the matching enablers
\* off, or on, or on with all others off.
Returning(t) == Switching(t) /\ at[t] \notin Contracts
SwitchExact ==
    \A t \in Threads : Returning(t) /\ alone[t] =>
       LET on == {c \in Contracts : enabled[c]}
           was == {c \in Contracts : before[t][c]}
           glob == call[t].glob
       IN  \/ call[t].kind = "off" /\ on = was \ glob
           \/ call[t].kind = "on" /\ on = was \union glob
           \/ call[t].kind = "if" /\ on = glob

\* The variables keep their types, and a switching call that no other one
\* overlapped leaves exactly what it is to leave
\* (contract_check_on, _off and _if of contracts.cc).
SwitchesSound == TypeOK /\ SwitchExact

\* A violated NTH_REQUIRE or NTH_ENSURE aborts the process, even if other
\* threads never stop registering handlers and sinks.
ViolationAborts ==
    \A t \in Threads :
       (pc[t] \in Failing /\ checking[t] \in Aborts) ~> aborted

\* A scope once left, by a return or by a violated NTH_ASSERT, is left in full
\* whatever is found on the way: the handlers and the message of the NTH_ASSERT
\* come first, then every NTH_ENSURE that was declared is come to, and the
\* thread goes on with none of them left over and without a step of the body
\* it left, unless a violation aborts the process (the return of NTH_ASSERT,
\* test/internal/test.h:27-29, and the on_exit of NTH_ENSURE, contracts.h:78-84).
ScopesUnwind ==
    \A t \in Threads :
       (\/ pc[t] = "exit"
        \/ pc[t] \in Failing /\ Category[checking[t]] = "NTH_ASSERT")
       ~> (aborted \/ (pc[t] = "body" /\ scope[t] = <<>>))
=============================================================================
