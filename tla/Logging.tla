------------------------------ MODULE Logging ------------------------------
(***************************************************************************)
(* The logging library as a whole (debug/log): log statements, the calls   *)
(* that switch them on and off by verbosity path, and the registered sinks.*)
(*                                                                         *)
(* The log lines of the binary lie in a linker section.  log_verbosity_off,*)
(* _on and _if walk it line by line, with no lock: two such calls, and the *)
(* log statements of other threads, interleave freely.  A statement that   *)
(* finds its line enabled hands its entry to every sink it sees in the     *)
(* registry of sinks, again one by one and with no lock.                   *)
(*                                                                         *)
(* The parts are used by what they promise.  The sinks are kept by a       *)
(* registrar, which implements RegistrarSpec (module RegistrarProofs); a   *)
(* line's condition is replaced and read as a whole, which LogLine         *)
(* implements (module LogLineSpec).                                        *)
(***************************************************************************)
EXTENDS Naturals, Sequences, SequencesExt, FiniteSetsExt

CONSTANTS
    Threads,
    NumLines,       \* the lines of the section nth_log_line
    Default,        \* the lines whose reader is log_line::default_reader
    Texts,          \* the texts a condition can be given as
    Parses,         \* Parses[l]: the texts the parser of line l accepts
    Accepts,        \* Accepts[l]: the conditions the reader of line l says yes to
    Globs,          \* what a glob can match: sets of lines
    Sinks,          \* the log_sink objects
    MaxCalls,       \* bound: switching calls of a behaviour
    MaxEntries,     \* bound: log statements of a behaviour
    MaxSinks,       \* bound: registrations of sinks
    None            \* the null condition

Lines == 1 .. NumLines
Entries == 1 .. MaxEntries

ASSUME LinesAssumption ==
    /\ NumLines \in Nat /\ Default \subseteq Lines
    /\ Parses \in [Lines -> SUBSET Texts] /\ Accepts \in [Lines -> SUBSET Texts]
    /\ \A l \in Default : Parses[l] = Texts
    /\ Globs \subseteq SUBSET Lines
    /\ None \notin Texts
    /\ MaxEntries \in Nat /\ MaxSinks \in Nat

VARIABLES
    enabled,        \* enabled_ of every line
    condition,      \* condition_ of every line
    sinks,          \* the registry of sinks: RegistrarSpec's variables
    walking,
    snapshot,
    seen,
    received,       \* received[s][e]: how often sink s was sent entry e
    pc,
    call,           \* the switching call a thread is in
    at,             \* the line a thread's call or statement is at
    entry,          \* the entry of a thread's statement
    calls, entries, \* calls and statements begun (bound the behaviours)
    present,        \* history: per entry, the sinks registered when it began
    saw,            \* history: per thread, the line's states a statement met
    alone,          \* history: no other switching call overlapped this one
    before          \* history: the switches when a switching call began

lines == <<enabled, condition>>
registry == <<sinks, walking, snapshot, seen>>
control == <<pc, call, at, entry, calls, entries>>
history == <<present, saw, alone, before>>
vars == <<lines, registry, received, control, history>>

log == "registered_log_sinks"      \* the only registrar of sinks
SinkRegistry == INSTANCE RegistrarSpec
                  WITH Registrars <- {log}, Values <- Sinks, registered <- sinks

NoCall == [kind |-> "none", glob |-> {}, text |-> None]

\* What decides a statement of line l: its switch, and what its reader says
\* (line.h:82-92).
Says(l) == <<enabled[l], l \in Default \/ condition[l] \in Accepts[l]>>

Init ==
    /\ enabled = [l \in Lines |-> TRUE]
    /\ condition = [l \in Lines |-> None]
    /\ SinkRegistry!Init
    /\ received = [s \in Sinks |-> [e \in Entries |-> 0]]
    /\ pc = [t \in Threads |-> "idle"]
    /\ call = [t \in Threads |-> NoCall]
    /\ at = [t \in Threads |-> 1]
    /\ entry = [t \in Threads |-> 0]
    /\ calls = 0
    /\ entries = 0
    /\ present = [e \in Entries |-> <<>>]
    /\ saw = [t \in Threads |-> {}]
    /\ alone = [t \in Threads |-> TRUE]
    /\ before = [t \in Threads |-> enabled]


Goto(t, from, to) ==
    /\ pc[t] = from
    /\ pc' = [pc EXCEPT ![t] = to]

-----------------------------------------------------------------------------
(* NTH_LOG: one statement, at line l.                                      *)

Load(t, l) ==
    /\ pc[t] = "idle"
    /\ entries < MaxEntries
    /\ entries' = entries + 1
    /\ entry' = [entry EXCEPT ![t] = entries + 1]
    /\ at' = [at EXCEPT ![t] = l]
    /\ present' = [present EXCEPT ![entries + 1] = sinks[log]]
    /\ pc' = [pc EXCEPT ![t] = IF ~ enabled[l] THEN "idle"
                               ELSE IF l \in Default THEN "snapshot"
                               ELSE "config"]
    /\ UNCHANGED <<lines, registry, received, call, calls>>

\* Mutant of Consult: a null condition counts as accepted.
ConsultNullAccepted(t) ==
    /\ pc[t] = "config"
    /\ pc' = [pc EXCEPT ![t] =
                 IF condition[at[t]] \in Accepts[at[t]] \union {None}
                 THEN "snapshot" ELSE "idle"]
    /\ UNCHANGED <<lines, registry, received, call, at, entry, calls, entries, present>>

\* get_config(), and the reader's answer about the copy it is given.
Consult(t) ==
    /\ pc[t] = "config"
    /\ pc' = [pc EXCEPT ![t] = IF condition[at[t]] \in Accepts[at[t]]
                               THEN "snapshot" ELSE "idle"]
    /\ UNCHANGED <<lines, registry, received, call, at, entry, calls, entries, present>>

\* The entry is built, and the loop over registered_log_sinks() begins.
Snapshot(t) ==
    /\ Goto(t, "snapshot", "send")
    /\ SinkRegistry!Registry(t, log)
    /\ UNCHANGED <<lines, received, call, at, entry, calls, entries, present>>

\* sink->send(config, Line, e)
Send(t) ==
    /\ pc[t] = "send"
    /\ SinkRegistry!Visit(t)
    /\ received' = [received EXCEPT ![Last(seen'[t])][entry[t]] = @ + 1]
    /\ UNCHANGED <<lines, control, present>>

\* Mutant of Sent: the loop may stop before the last sink.
SentEarly(t) ==
    /\ Goto(t, "send", "idle")
    /\ walking' = walking \ {t}
    /\ UNCHANGED <<sinks, snapshot, seen>>
    /\ UNCHANGED <<lines, received, call, at, entry, calls, entries, present>>

Sent(t) ==
    /\ Goto(t, "send", "idle")
    /\ SinkRegistry!Finish(t)
    /\ UNCHANGED <<lines, received, call, at, entry, calls, entries, present>>

\* register_log_sink: nothing excludes registering a sink twice.
Register(t, s) ==
    /\ pc[t] = "idle"
    /\ Len(sinks[log]) < MaxSinks
    /\ SinkRegistry!Insert(log, s)
    /\ UNCHANGED <<lines, received, control, present>>

-----------------------------------------------------------------------------
(* log_verbosity_off(glob), _on(glob, config) and _if(glob, config).       *)

Begin(t, c) ==
    /\ Goto(t, "idle", "line")
    /\ calls < MaxCalls
    /\ calls' = calls + 1
    /\ call' = [call EXCEPT ![t] = c]
    /\ at' = [at EXCEPT ![t] = 1]
    /\ UNCHANGED <<lines, registry, received, entry, entries, present>>

VerbosityOff(t, g) == Begin(t, [kind |-> "off", glob |-> g, text |-> None])
VerbosityOn(t, g, x) == Begin(t, [kind |-> "on", glob |-> g, text |-> x])
VerbosityIf(t, g, x) == Begin(t, [kind |-> "if", glob |-> g, text |-> x])

Matches(t) == at[t] \in call[t].glob
\* Mutant of Disables: log_verbosity_if leaves the other lines alone.
DisablesMatchingOnly(t) == Matches(t) /\ call[t].kind = "off"

Disables(t) ==
    IF Matches(t) THEN call[t].kind = "off" ELSE call[t].kind = "if"
Enables(t) == Matches(t) /\ call[t].kind \in {"on", "if"}

\* Mutant of AtLine: the loop has no end.
AtLineUnbounded(t) == pc[t] = "line"

AtLine(t) == pc[t] = "line" /\ at[t] \in Lines
NextLine(t) == at' = [at EXCEPT ![t] = @ + 1]

DisableLine(t) ==
    /\ AtLine(t) /\ Disables(t)
    /\ enabled' = [enabled EXCEPT ![at[t]] = FALSE]
    /\ NextLine(t)
    /\ UNCHANGED <<condition, registry, received>>
    /\ UNCHANGED <<pc, call, entry, calls, entries, present>>

\* Neither enable nor disable is called, or the line's parser says no.
SkipLine(t) ==
    /\ AtLine(t) /\ ~ Disables(t)
    /\ Enables(t) => call[t].text \notin Parses[at[t]]
    /\ NextLine(t)
    /\ UNCHANGED <<lines, registry, received, pc, call, entry, calls, entries, present>>

\* enable(): the condition first ...
SetConfig(t) ==
    /\ AtLine(t) /\ Enables(t)
    /\ call[t].text \in Parses[at[t]]
    /\ Goto(t, "line", "store")
    /\ condition' = [condition EXCEPT ![at[t]] = call[t].text]
    /\ UNCHANGED <<enabled, registry, received, call, at, entry, calls, entries, present>>

\* ... then the switch.
StoreEnabled(t) ==
    /\ Goto(t, "store", "line")
    /\ enabled' = [enabled EXCEPT ![at[t]] = TRUE]
    /\ NextLine(t)
    /\ UNCHANGED <<condition, registry, received, call, entry, calls, entries, present>>

Return(t) ==
    /\ at[t] \notin Lines
    /\ Goto(t, "line", "idle")
    /\ call' = [call EXCEPT ![t] = NoCall]
    /\ at' = [at EXCEPT ![t] = 1]
    /\ UNCHANGED <<lines, registry, received, entry, calls, entries, present>>

-----------------------------------------------------------------------------
(* What the history variables record of a step.                            *)

Switching(t) == pc[t] \in {"line", "store"}

Watch ==
    /\ saw' = [t \in Threads |->
                 IF pc'[t] = "config" THEN saw[t] \union {Says(at[t])'}
                 ELSE IF pc[t] = "config" THEN saw[t] ELSE {}]
    /\ alone' = [t \in Threads |->
                   /\ alone[t] \/ ~ Switching(t)
                   /\ \A u \in Threads \ {t} : ~ Switching(u)']
    /\ before' = [t \in Threads |->
                    IF Switching(t) THEN before[t] ELSE enabled]

Statement(t) ==
    \/ \E l \in Lines : Load(t, l)
    \/ Consult(t) \/ Snapshot(t) \/ Send(t) \/ Sent(t)

Switch(t) ==
    \/ \E g \in Globs : VerbosityOff(t, g)
    \/ \E g \in Globs, x \in Texts : VerbosityOn(t, g, x) \/ VerbosityIf(t, g, x)
    \/ DisableLine(t) \/ SkipLine(t) \/ SetConfig(t) \/ StoreEnabled(t) \/ Return(t)

Next ==
    /\ \E t \in Threads :
          \/ Statement(t)
          \/ Switch(t)
          \/ \E s \in Sinks : Register(t, s)
    /\ Watch

Spec == Init /\ [][Next]_vars

\* A statement or a call that has begun goes on; none has to begin.
Continue(t) ==
    /\ \/ Consult(t) \/ Snapshot(t) \/ Send(t) \/ Sent(t)
       \/ DisableLine(t) \/ SkipLine(t) \/ SetConfig(t) \/ StoreEnabled(t) \/ Return(t)
    /\ Watch

FairSpec == Spec /\ \A t \in Threads : WF_vars(Continue(t))

-----------------------------------------------------------------------------
\* Types of the lines, the sinks and the threads.
TypeOK ==
    /\ enabled \in [Lines -> BOOLEAN]
    /\ condition \in [Lines -> Texts \union {None}]
    /\ sinks \in [{log} -> Seq(Sinks)] /\ Len(sinks[log]) <= MaxSinks
    /\ walking = {t \in Threads : pc[t] = "send"}
    /\ snapshot \in [Threads -> Seq(Sinks)] /\ seen \in [Threads -> Seq(Sinks)]
    /\ received \in [Sinks -> [Entries -> 0 .. MaxSinks]]
    /\ pc \in [Threads -> {"idle", "config", "snapshot", "send", "line", "store"}]
    /\ call \in [Threads -> [kind : {"none", "off", "on", "if"},
                             glob : SUBSET Lines, text : Texts \union {None}]]
    /\ \A t \in Threads : Switching(t) => call[t].kind # "none"
    /\ at \in [Threads -> 1 .. NumLines + 1]
    /\ \A t \in Threads : pc[t] \in {"idle", "line"} \/ at[t] \in Lines
    /\ entry \in [Threads -> Entries \union {0}]
    /\ entries \in 0 .. MaxEntries
    /\ present \in [Entries -> Seq(Sinks)]
    /\ alone \in [Threads -> BOOLEAN] /\ before \in [Threads -> [Lines -> BOOLEAN]]

\* A statement that has ended either was silent or reached every sink: each
\* one that was registered when the statement began, once for each of its
\* registrations, and none oftener than it is registered, however the
\* registrations and the statements of other threads fell in between
\* (log.h:37-40, sink.h:11-12).
Ended(e) ==
    /\ e <= entries
    /\ \A t \in Threads :
          entry[t] = e => pc[t] \notin {"config", "snapshot", "send"}
Delivery ==
    \A e \in Entries : Ended(e) =>
       \/ \A s \in Sinks : received[s][e] = 0
       \/ \A s \in Sinks :
             received[s][e] \in SinkRegistry!Occurrences(present[e], s)
                                .. SinkRegistry!Occurrences(sinks[log], s)

\* Whatever is switched while a statement consults its condition, it logs
\* only if its line was on and its reader said yes, if perhaps not at the
\* same time, and stays silent only if at some time it was off or refused.
VerdictJustified ==
    [][\A t \in Threads : pc[t] = "config" /\ pc'[t] # "config" =>
          IF pc'[t] = "snapshot"
          THEN /\ \E p \in saw'[t] : p[1]
               /\ \E p \in saw'[t] : p[2]
          ELSE \E p \in saw'[t] : ~ p[1] \/ ~ p[2]]_vars

\* A switching call that no other one overlapped leaves exactly this behind:
\* the matching lines off; or the matching lines that can parse the text on,
\* with that condition, and for log_verbosity_if all others off; and every
\* line it has no business with as it was.
Returning(t) == pc[t] = "line" /\ at[t] \notin Lines
SwitchExact ==
    \A t \in Threads : Returning(t) /\ alone[t] =>
       \A l \in Lines :
          LET c == call[t]
              set == l \in c.glob /\ c.kind # "off" /\ c.text \in Parses[l]
              off == IF l \in c.glob THEN c.kind = "off" ELSE c.kind = "if"
          IN  /\ enabled[l] = (set \/ (before[t][l] /\ ~ off))
              /\ set => condition[l] = c.text

\* The variables keep their types, and a switching call that no other one
\* overlapped leaves exactly what it is to leave
\* (log_verbosity_on, _off and _if of log.cc).
SwitchesSound == TypeOK /\ SwitchExact

\* A statement that has decided to log reaches every sink that was there when
\* it began, even if other threads never stop registering and switching.
EventuallyLogged ==
    \A e \in Entries :
       (\E t \in Threads : entry[t] = e /\ pc[t] = "snapshot")
       ~> \A s \in Sinks : received[s][e] >= SinkRegistry!Occurrences(present[e], s)
=============================================================================
