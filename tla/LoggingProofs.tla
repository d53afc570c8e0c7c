--------------------------- MODULE LoggingProofs ---------------------------
(* Proofs about Logging, for any number of threads, lines, conditions and   *)
(* sinks.                                                                   *)
EXTENDS Logging, TLAPS

WalksInv == \A t \in Threads : SinkRegistry!WalkOf(t, log)

\* A statement that is not yet silent nor done.
Busy(t) == pc[t] \in {"config", "snapshot", "send"}

\* Every statement has an entry of its own.
EntriesInv ==
    /\ \A t \in Threads : entry[t] <= entries
    /\ \A t \in Threads : Busy(t) => entry[t] # 0
    /\ \A t, u \in Threads : t # u => entry[t] # entry[u] \/ entry[t] = 0

\* What the sinks have of an entry: nothing before its statement sends it,
\* and while it is sent what the walk over the snapshot has visited.
SentOf(t) ==
    /\ pc[t] \in {"config", "snapshot"} =>
          \A s \in Sinks : received[s][entry[t]] = 0
    /\ pc[t] = "send" =>
          /\ SinkRegistry!Begins(present[entry[t]], snapshot[t])
          /\ \A s \in Sinks :
                received[s][entry[t]] = SinkRegistry!Occurrences(seen[t], s)

SentInv ==
    /\ \A e \in Entries : SinkRegistry!Begins(present[e], sinks[log])
    /\ \A e \in Entries : e > entries => \A s \in Sinks : received[s][e] = 0
    /\ \A t \in Threads : SentOf(t)
    /\ Delivery

\* A statement that consults its condition has met its line on, and has met
\* the state the line is in now.
SawOf(t) ==
    pc[t] = "config" =>
       /\ at[t] \notin Default
       /\ Says(at[t]) \in saw[t]
       /\ \E p \in saw[t] : p[1]

SawInv == \A t \in Threads : SawOf(t)

\* What a switching call c is to do with line l.
Sets(c, l) == l \in c.glob /\ c.kind # "off" /\ c.text \in Parses[l]
Clears(c, l) == IF l \in c.glob THEN c.kind = "off" ELSE c.kind = "if"

\* A switching call that is alone has dealt with the lines it has passed, and
\* the switches of the others are as it found them; between enable()'s two
\* steps the condition of the line it is at has been set.
SwitchOf(t) ==
    Switching(t) /\ alone[t] =>
       /\ \A u \in Threads \ {t} : ~ Switching(u)
       /\ \A l \in Lines :
             IF l < at[t]
             THEN /\ enabled[l] = (Sets(call[t], l)
                                   \/ (before[t][l] /\ ~ Clears(call[t], l)))
                  /\ Sets(call[t], l) => condition[l] = call[t].text
             ELSE enabled[l] = before[t][l]
       /\ pc[t] = "store" => Sets(call[t], at[t]) /\ condition[at[t]] = call[t].text

SwitchInv == \A t \in Threads : SwitchOf(t)

IInv == TypeOK /\ WalksInv /\ EntriesInv /\ SentInv /\ SawInv /\ SwitchInv

-----------------------------------------------------------------------------
(* The invariant holds initially.                                          *)

LEMMA InitIInv ==
    Init => IInv
  <1> SUFFICES ASSUME Init PROVE IInv
    OBVIOUS
  <1>1. /\ sinks = [r \in {log} |-> <<>>] /\ walking = {}
        /\ snapshot = [t \in Threads |-> <<>>] /\ seen = [t \in Threads |-> <<>>]
    BY DEF Init, SinkRegistry!Init
  <1>2. TypeOK
    <2>1. /\ sinks \in [{log} -> Seq(Sinks)] /\ Len(sinks[log]) <= MaxSinks
          /\ walking = {t \in Threads : pc[t] = "send"}
          /\ snapshot \in [Threads -> Seq(Sinks)] /\ seen \in [Threads -> Seq(Sinks)]
          /\ present \in [Entries -> Seq(Sinks)]
      BY <1>1, LinesAssumption DEF Init
    <2>2. /\ enabled \in [Lines -> BOOLEAN] /\ condition \in [Lines -> Texts \union {None}]
          /\ alone \in [Threads -> BOOLEAN] /\ before \in [Threads -> [Lines -> BOOLEAN]]
          /\ received \in [Sinks -> [Entries -> 0 .. MaxSinks]]
      BY LinesAssumption DEF Init
    <2>3. /\ call \in [Threads -> [kind : {"none", "off", "on", "if"},
                                   glob : SUBSET Lines, text : Texts \union {None}]]
          /\ at \in [Threads -> 1 .. NumLines + 1]
          /\ entry \in [Threads -> Entries \union {0}]
          /\ entries \in 0 .. MaxEntries
          /\ pc \in [Threads -> {"idle"}]
      BY LinesAssumption DEF Init, NoCall, Lines
    <2> QED
      BY <2>1, <2>2, <2>3 DEF TypeOK, Switching
  <1>3. WalksInv
    BY <1>1 DEF WalksInv, SinkRegistry!WalkOf, SinkRegistry!Begins
  <1>4. EntriesInv /\ SawInv /\ SwitchInv
    BY DEF Init, EntriesInv, Busy, SawInv, SawOf, SwitchInv, SwitchOf, Switching
  <1>5. SentInv
    <2>1. \A e \in Entries : SinkRegistry!Begins(present[e], sinks[log])
      BY <1>1 DEF Init, SinkRegistry!Begins
    <2>2. \A e \in Entries, s \in Sinks : received[s][e] = 0
      BY DEF Init
    <2>3. \A t \in Threads : SentOf(t)
      BY DEF Init, SentOf
    <2> QED
      BY <2>1, <2>2, <2>3 DEF SentInv, Delivery
  <1> QED
    BY <1>2, <1>3, <1>4, <1>5 DEF IInv

-----------------------------------------------------------------------------
(* What one step of a thread can change.                                   *)

Step(t) == Statement(t) \/ Switch(t) \/ \E s \in Sinks : Register(t, s)

\* Only the thread itself moves.
LEMMA StepMoves ==
    ASSUME TypeOK, NEW t \in Threads, Step(t)
    PROVE  /\ pc' \in [Threads -> {"idle", "config", "snapshot", "send", "line", "store"}]
           /\ \A u \in Threads \ {t} :
                 pc'[u] = pc[u] /\ at'[u] = at[u] /\ call'[u] = call[u]
  BY DEF TypeOK, Goto, Step, Statement, Load, Consult, Snapshot, Send, Sent, Register,
         Switch, VerbosityOff, VerbosityOn, VerbosityIf, Begin, DisableLine, SkipLine,
         SetConfig, StoreEnabled, Return, AtLine, NextLine, control

\* The registry of sinks.
LEMMA StepSinks ==
    ASSUME TypeOK, NEW t \in Threads, Step(t)
    PROVE  \/ Snapshot(t) \/ Send(t) \/ Sent(t)
           \/ \E s \in Sinks : Register(t, s)
           \/ UNCHANGED registry /\ pc[t] # "send" /\ pc'[t] # "send"
  BY DEF TypeOK, Goto, Step, Statement, Load, Consult,
         Switch, VerbosityOff, VerbosityOn, VerbosityIf, Begin, DisableLine, SkipLine,
         SetConfig, StoreEnabled, Return, AtLine, NextLine, registry

\* The statements.
LEMMA StepStatement ==
    ASSUME TypeOK, NEW t \in Threads, Step(t)
    PROVE  \/ \E l \in Lines : Load(t, l)
           \/ /\ Consult(t) \/ Snapshot(t) \/ Send(t) \/ Sent(t)
              /\ UNCHANGED <<entry, entries, present, at>>
           \/ /\ UNCHANGED <<entry, entries, present>>
              /\ ~ Busy(t) /\ ~ Busy(t)'
  BY DEF TypeOK, Goto, Step, Statement, Consult, Snapshot, Send, Sent, Register,
         Switch, VerbosityOff, VerbosityOn, VerbosityIf, Begin, DisableLine, SkipLine,
         SetConfig, StoreEnabled, Return, AtLine, NextLine, control, Busy

LEMMA StepReceived ==
    ASSUME TypeOK, NEW t \in Threads, Step(t)
    PROVE  Send(t) \/ UNCHANGED received
  BY DEF TypeOK, Goto, Step, Statement, Load, Consult, Snapshot, Sent, Register,
         Switch, VerbosityOff, VerbosityOn, VerbosityIf, Begin, DisableLine, SkipLine,
         SetConfig, StoreEnabled, Return

\* A switching call as it begins.
Call == [kind : {"off", "on", "if"}, glob : SUBSET Lines, text : Texts \union {None}]

\* The lines and the switching calls.
LEMMA StepSwitches ==
    ASSUME TypeOK, NEW t \in Threads, Step(t)
    PROVE  \/ \E c \in Call : Begin(t, c)
           \/ DisableLine(t) \/ SkipLine(t) \/ SetConfig(t) \/ StoreEnabled(t) \/ Return(t)
           \/ /\ Statement(t) \/ \E s \in Sinks : Register(t, s)
              /\ UNCHANGED <<lines, call>>
              /\ pc[t] \notin {"line", "store"} /\ pc'[t] \notin {"line", "store"}
  <1>1. CASE Statement(t)
    BY <1>1 DEF TypeOK, Goto, Statement, Load, Consult, Snapshot, Send, Sent, control
  <1>2. CASE \E s \in Sinks : Register(t, s)
    BY <1>2 DEF TypeOK, Register, control
  <1>3. CASE Switch(t)
    <2>1. ASSUME NEW g \in Globs, VerbosityOff(t, g)
          PROVE  \E c \in Call : Begin(t, c)
      BY <2>1, LinesAssumption DEF VerbosityOff, Call
    <2>2. ASSUME NEW g \in Globs, NEW x \in Texts, VerbosityOn(t, g, x) \/ VerbosityIf(t, g, x)
          PROVE  \E c \in Call : Begin(t, c)
      BY <2>2, LinesAssumption DEF VerbosityOn, VerbosityIf, Call
    <2> QED
      BY <1>3, <2>1, <2>2 DEF Switch
  <1> QED
    BY <1>1, <1>2, <1>3 DEF Step

-----------------------------------------------------------------------------
(* The walks over the registry of sinks, and the entries.                  *)

LEMMA WalksStep ==
    ASSUME TypeOK, WalksInv, NEW t \in Threads, Step(t)
    PROVE  WalksInv'
  <1> SUFFICES ASSUME NEW u \in Threads
               PROVE  SinkRegistry!WalkOf(u, log)'
    BY DEF WalksInv
  <1> USE DEF TypeOK
  <1>1. SinkRegistry!WalkOf(u, log)
    BY DEF WalksInv
  <1>2. CASE Snapshot(t)
    BY <1>1, <1>2, SinkRegistry!WalkRegistry DEF Snapshot
  <1>3. CASE Send(t)
    BY <1>1, <1>3, SinkRegistry!WalkVisit DEF Send
  <1>4. CASE Sent(t)
    BY <1>1, <1>4 DEF Sent, SinkRegistry!Finish, SinkRegistry!WalkOf
  <1>5. CASE \E s \in Sinks : Register(t, s)
    BY <1>1, <1>5, SinkRegistry!WalkInsert DEF Register
  <1>6. CASE UNCHANGED registry
    BY <1>1, <1>6 DEF registry, SinkRegistry!WalkOf
  <1> QED
    BY <1>2, <1>3, <1>4, <1>5, <1>6, StepSinks

LEMMA EntriesStep ==
    ASSUME TypeOK, EntriesInv, NEW t \in Threads, Step(t)
    PROVE  EntriesInv'
  <1> USE DEF TypeOK
  <1>1. \A u \in Threads \ {t} : pc'[u] = pc[u]
    BY StepMoves
  <1>2. CASE \E l \in Lines : Load(t, l)
    <2>1. /\ entries' = entries + 1 /\ entries' \in Nat
          /\ entry'[t] = entries'
          /\ \A u \in Threads \ {t} : entry'[u] = entry[u]
          /\ \A u \in Threads : entry[u] \in Nat /\ entry[u] <= entries
      BY <1>2, LinesAssumption DEF EntriesInv, Load, Entries
    <2>2. \A u \in Threads \ {t} : Busy(u)' => Busy(u)
      BY <1>1 DEF Busy
    <2>3. /\ \A u \in Threads : entry[u] \in Nat /\ entry[u] < entries'
          /\ \A u \in Threads : entry'[u] = IF u = t THEN entries' ELSE entry[u]
      BY <2>1, LinesAssumption
    <2>4. entries' # 0
      BY <2>1, LinesAssumption
    <2> HIDE DEF TypeOK
    <2>5. \A u \in Threads : entry'[u] <= entries' /\ (Busy(u)' => entry'[u] # 0)
      BY <2>1, <2>2, <2>3, <2>4 DEF EntriesInv
    <2>6. \A u, v \in Threads : u # v => entry'[u] # entry'[v] \/ entry'[u] = 0
      BY <2>1, <2>3 DEF EntriesInv
    <2> QED
      BY <2>5, <2>6 DEF EntriesInv
  <1>3. CASE UNCHANGED <<entry, entries, present>> /\ (Busy(t)' => Busy(t))
    BY <1>1, <1>3 DEF EntriesInv, Busy
  <1> QED
    BY <1>2, <1>3, StepStatement DEF Busy, Consult, Snapshot, Send, Sent, Goto

\* A sink that is sent an entry has had it less often than it is registered.
LEMMA SendReceived ==
    ASSUME IInv, NEW t \in Threads, Send(t)
    PROVE  \E v \in Sinks :
              /\ seen'[t] = Append(seen[t], v) /\ Last(seen'[t]) = v
              /\ entry[t] \in Entries
              /\ received' = [received EXCEPT ![v][entry[t]] = @ + 1]
              /\ received[v][entry[t]] + 1 = SinkRegistry!Occurrences(seen'[t], v)
              /\ received[v][entry[t]] + 1 \in 0 .. MaxSinks
  <1> USE DEF IInv, TypeOK
  <1>1. pc[t] = "send" /\ entry[t] \in Entries
    BY DEF Send, EntriesInv, Busy
  <1>2. PICK v \in Sinks : seen'[t] = Append(seen[t], v)
    BY SinkRegistry!WalkVisit DEF Send, WalksInv
  <1>3. seen[t] \in Seq(Sinks) /\ seen'[t] \in Seq(Sinks) /\ Last(seen'[t]) = v
    BY <1>2 DEF Last
  <1>4. received' = [received EXCEPT ![v][entry[t]] = @ + 1]
    BY <1>3 DEF Send
  <1>5. received[v][entry[t]] = SinkRegistry!Occurrences(seen[t], v)
    BY <1>1 DEF SentInv, SentOf
  <1>6. SinkRegistry!Occurrences(seen'[t], v) = SinkRegistry!Occurrences(seen[t], v) + 1
    BY <1>2, <1>3, SinkRegistry!OccurrencesAppend
  <1>7. Len(seen'[t]) <= MaxSinks
    <2>1. Len(seen'[t]) <= Len(snapshot[t])
      BY <1>2, <1>3 DEF Send, SinkRegistry!Visit
    <2>2. Len(snapshot[t]) <= Len(sinks[log])
      BY DEF WalksInv, SinkRegistry!WalkOf, SinkRegistry!Begins
    <2>3. snapshot[t] \in Seq(Sinks) /\ sinks[log] \in Seq(Sinks)
      OBVIOUS
    <2> QED
      BY <1>3, <2>1, <2>2, <2>3, LinesAssumption
  <1>8. /\ SinkRegistry!Occurrences(seen'[t], v) <= Len(seen'[t])
        /\ SinkRegistry!Occurrences(seen'[t], v) \in Nat
    BY <1>3, SinkRegistry!OccurrencesType
  <1>9. received[v][entry[t]] + 1 \in 0 .. MaxSinks
    BY <1>3, <1>5, <1>6, <1>7, <1>8, LinesAssumption
  <1> QED
    BY <1>1, <1>2, <1>3, <1>4, <1>5, <1>6, <1>9

-----------------------------------------------------------------------------
(* Types.                                                                  *)

LEMMA TypeStep ==
    ASSUME IInv, NEW t \in Threads, Step(t), Watch
    PROVE  TypeOK'
  <1> USE DEF IInv, TypeOK
  <1>1. /\ pc' \in [Threads -> {"idle", "config", "snapshot", "send", "line", "store"}]
        /\ \A u \in Threads \ {t} :
              pc'[u] = pc[u] /\ at'[u] = at[u] /\ call'[u] = call[u]
    BY StepMoves
  <1>2. alone' \in [Threads -> BOOLEAN] /\ before' \in [Threads -> [Lines -> BOOLEAN]]
    BY DEF Watch
  <1>3. /\ sinks' \in [{log} -> Seq(Sinks)] /\ Len(sinks'[log]) <= MaxSinks
        /\ walking' = {u \in Threads : pc'[u] = "send"}
        /\ snapshot' \in [Threads -> Seq(Sinks)] /\ seen' \in [Threads -> Seq(Sinks)]
    <2>1. CASE Snapshot(t)
      BY <1>1, <2>1 DEF Snapshot, Goto, SinkRegistry!Registry
    <2>2. CASE Send(t)
      <3>1. seen' \in [Threads -> Seq(Sinks)]
        BY <2>2, SinkRegistry!WalkVisit DEF Send, WalksInv
      <3> QED
        BY <2>2, <3>1 DEF Send, SinkRegistry!Visit, control
    <2>3. CASE Sent(t)
      BY <1>1, <2>3 DEF Sent, Goto, SinkRegistry!Finish
    <2>4. CASE \E s \in Sinks : Register(t, s)
      <3>1. PICK s \in Sinks : Register(t, s)
        BY <2>4
      <3>2. /\ sinks' = [sinks EXCEPT ![log] = Append(sinks[log], s)]
            /\ UNCHANGED <<walking, snapshot, seen, pc>>
            /\ Len(sinks[log]) < MaxSinks
        BY <3>1 DEF Register, SinkRegistry!Insert, control
      <3> QED
        BY <3>2, LinesAssumption
    <2>5. CASE UNCHANGED registry /\ pc[t] # "send" /\ pc'[t] # "send"
      BY <1>1, <2>5 DEF registry
    <2> QED
      BY <2>1, <2>2, <2>3, <2>4, <2>5, StepSinks
  <1>4. received' \in [Sinks -> [Entries -> 0 .. MaxSinks]]
    <2>1. CASE Send(t)
      <3>1. PICK v \in Sinks :
               /\ received' = [received EXCEPT ![v][entry[t]] = @ + 1]
               /\ entry[t] \in Entries
               /\ received[v][entry[t]] + 1 \in 0 .. MaxSinks
        BY <2>1, SendReceived
      <3> HIDE DEF IInv, TypeOK
      <3>2. received \in [Sinks -> [Entries -> 0 .. MaxSinks]]
        BY DEF IInv, TypeOK
      <3> QED
        BY <3>1, <3>2
    <2>2. CASE UNCHANGED received
      BY <2>2
    <2> QED
      BY <2>1, <2>2, StepReceived
  <1>5. /\ entry' \in [Threads -> Entries \union {0}]
        /\ entries' \in 0 .. MaxEntries
        /\ present' \in [Entries -> Seq(Sinks)]
    <2>1. CASE \E l \in Lines : Load(t, l)
      BY <2>1, LinesAssumption DEF Load, Entries
    <2>2. CASE UNCHANGED <<entry, entries, present>>
      BY <2>2
    <2> QED
      BY <2>1, <2>2, StepStatement
  <1>6. /\ enabled' \in [Lines -> BOOLEAN] /\ condition' \in [Lines -> Texts \union {None}]
        /\ call' \in [Threads -> [kind : {"none", "off", "on", "if"},
                                  glob : SUBSET Lines, text : Texts \union {None}]]
        /\ \A u \in Threads : Switching(u)' => call'[u].kind # "none"
    <2>1. CASE \E c \in Call : Begin(t, c)
      BY <1>1, <2>1 DEF Begin, lines, Switching, Call
    <2>2. CASE DisableLine(t) \/ SkipLine(t)
      BY <1>1, <2>2 DEF DisableLine, SkipLine, AtLine, lines, Switching
    <2>3. CASE SetConfig(t)
      BY <1>1, <2>3, LinesAssumption DEF SetConfig, AtLine, Goto, Switching
    <2>4. CASE StoreEnabled(t)
      BY <1>1, <2>4 DEF StoreEnabled, Goto, Switching
    <2>5. CASE Return(t)
      BY <1>1, <2>5 DEF Return, Goto, lines, NoCall, Switching
    <2>6. CASE UNCHANGED <<lines, call>> /\ pc[t] \notin {"line", "store"}
                                         /\ pc'[t] \notin {"line", "store"}
      BY <1>1, <2>6 DEF lines, Switching
    <2> QED
      BY <2>1, <2>2, <2>3, <2>4, <2>5, <2>6, StepSwitches
  <1>7. /\ at' \in [Threads -> 1 .. NumLines + 1]
        /\ \A u \in Threads : pc'[u] \in {"idle", "line"} \/ at'[u] \in Lines
    <2>1. CASE \E l \in Lines : Load(t, l)
      BY <1>1, <2>1, LinesAssumption DEF Load, Lines
    <2>2. CASE Consult(t) \/ Snapshot(t)
      BY <1>1, <2>2 DEF Consult, Snapshot, Goto
    <2>3. CASE Send(t) \/ Sent(t) \/ \E s \in Sinks : Register(t, s)
      BY <1>1, <2>3 DEF Send, Sent, Register, Goto, control
    <2>4. CASE \E c \in Call : Begin(t, c)
      BY <1>1, <2>4, LinesAssumption DEF Begin, Goto, Lines
    <2>5. CASE DisableLine(t) \/ SkipLine(t)
      <3>1. /\ at[t] \in Lines /\ at' = [at EXCEPT ![t] = at[t] + 1]
            /\ pc[t] = "line" /\ pc' = pc
        BY <2>5 DEF DisableLine, SkipLine, AtLine, NextLine
      <3> QED
        BY <1>1, <3>1, LinesAssumption DEF Lines
    <2>6. CASE SetConfig(t)
      BY <1>1, <2>6 DEF SetConfig, AtLine, Goto
    <2>7. CASE StoreEnabled(t)
      <3>1. at[t] \in Lines /\ at' = [at EXCEPT ![t] = at[t] + 1] /\ pc'[t] = "line"
        BY <1>1, <2>7 DEF StoreEnabled, Goto, NextLine
      <3> QED
        BY <1>1, <3>1, LinesAssumption DEF Lines
    <2>8. CASE Return(t)
      BY <1>1, <2>8, LinesAssumption DEF Return, Goto, Lines
    <2> QED
      BY <2>1, <2>2, <2>3, <2>4, <2>5, <2>6, <2>7, <2>8, StepSwitches DEF Step, Statement
  <1> QED
    BY <1>1, <1>2, <1>3, <1>4, <1>5, <1>6, <1>7

-----------------------------------------------------------------------------
(* What the sinks are sent.                                                *)

\* A step changes what the sinks have of one entry at most.
LEMMA OtherReceived ==
    ASSUME IInv, NEW t \in Threads, Step(t), NEW e \in Entries,
           ~ (Send(t) /\ entry[t] = e),
           NEW s \in Sinks
    PROVE  received'[s][e] = received[s][e]
  <1>1. received \in [Sinks -> [Entries -> 0 .. MaxSinks]] /\ TypeOK
    BY DEF IInv, TypeOK
  <1>2. CASE Send(t)
    <2>1. PICK v \in Sinks : received' = [received EXCEPT ![v][entry[t]] = @ + 1]
      BY <1>2, SendReceived
    <2> QED
      BY <1>1, <1>2, <2>1
  <1>3. CASE UNCHANGED received
    BY <1>3
  <1> QED
    BY <1>1, <1>2, <1>3, StepReceived

\* Sinks are only ever added.
LEMMA SinksGrow ==
    ASSUME TypeOK, NEW t \in Threads, Step(t)
    PROVE  \A d \in Seq(Sinks) : SinkRegistry!Begins(d, sinks[log]) =>
                                 SinkRegistry!Begins(d, sinks'[log])
  <1>1. \/ sinks' = sinks
        \/ \E s \in Sinks : sinks'[log] = Append(sinks[log], s)
    BY StepSinks DEF TypeOK, Snapshot, SinkRegistry!Registry, Send, SinkRegistry!Visit,
          Sent, SinkRegistry!Finish, Register, SinkRegistry!Insert, registry
  <1>2. sinks[log] \in Seq(Sinks)
    BY DEF TypeOK
  <1>3. ASSUME NEW d \in Seq(Sinks), SinkRegistry!Begins(d, sinks[log]), NEW s \in Sinks
        PROVE  SinkRegistry!Begins(d, Append(sinks[log], s))
    BY <1>2, <1>3, SinkRegistry!BeginsAppend
  <1> QED
    BY <1>1, <1>3

LEMMA PresentStep ==
    ASSUME IInv, NEW t \in Threads, Step(t), NEW e \in Entries
    PROVE  SinkRegistry!Begins(present'[e], sinks'[log])
  <1>1. present[e] \in Seq(Sinks) /\ sinks[log] \in Seq(Sinks) /\ TypeOK
    BY DEF IInv, TypeOK
  <1>2. SinkRegistry!Begins(present[e], sinks'[log])
    BY <1>1, SinksGrow DEF IInv, SentInv
  <1>3. SinkRegistry!Begins(sinks[log], sinks[log])
    BY <1>1 DEF SinkRegistry!Begins
  <1>4. CASE \E l \in Lines : Load(t, l)
    <2>1. sinks' = sinks /\ present' = [present EXCEPT ![entries + 1] = sinks[log]]
      BY <1>4 DEF Load, registry
    <2>2. present'[e] \in {present[e], sinks[log]}
      BY <1>1, <2>1 DEF TypeOK
    <2> QED
      BY <1>2, <1>3, <2>1, <2>2
  <1>5. CASE UNCHANGED present
    BY <1>2, <1>5
  <1> QED
    BY <1>1, <1>4, <1>5, StepStatement

LEMMA SentOfStep ==
    ASSUME IInv, NEW t \in Threads, Step(t), NEW u \in Threads
    PROVE  SentOf(u)'
  <1> USE DEF IInv
  <1>1. SentOf(u) /\ (Busy(u) => entry[u] \in Entries /\ entry[u] <= entries)
    BY DEF SentInv, EntriesInv, Busy, TypeOK
  <1>2. CASE u # t
    <2> SUFFICES ASSUME Busy(u)
                 PROVE  SentOf(u)'
      BY <1>2, StepMoves DEF SentOf, Busy
    <2>1. pc'[u] = pc[u]
      BY <1>2, StepMoves
    <2>2. entry'[u] = entry[u] /\ present'[entry[u]] = present[entry[u]]
      <3>1. CASE \E l \in Lines : Load(t, l)
        BY <1>1, <1>2, <3>1 DEF Load, TypeOK, Entries
      <3>2. CASE UNCHANGED <<entry, present>>
        BY <3>2
      <3> QED
        BY <3>1, <3>2, StepStatement
    <2>3. snapshot'[u] = snapshot[u] /\ seen'[u] = seen[u]
      BY <1>2, StepSinks
         DEF TypeOK, Snapshot, SinkRegistry!Registry, Send, SinkRegistry!Visit, Sent,
             SinkRegistry!Finish, Register, SinkRegistry!Insert, registry
    <2>4. entry[t] # entry[u]
      BY <1>2 DEF EntriesInv
    <2>5. \A s \in Sinks : received'[s][entry[u]] = received[s][entry[u]]
      BY <1>1, <2>4, OtherReceived
    <2> QED
      BY <1>1, <2>1, <2>2, <2>3, <2>5 DEF SentOf
  <1>3. CASE u = t
    <2>1. CASE \E l \in Lines : Load(t, l)
      <3>1. /\ entry'[t] = entries + 1 /\ entries + 1 \in Entries
            /\ pc'[t] # "send" /\ received' = received
        BY <2>1, LinesAssumption DEF Load, TypeOK, Entries
      <3>2. \A s \in Sinks : received[s][entries + 1] = 0
        <4>1. entries + 1 > entries
          BY LinesAssumption DEF TypeOK
        <4> QED
          BY <3>1, <4>1 DEF SentInv
      <3> QED
        BY <1>3, <3>1, <3>2 DEF SentOf
    <2>2. CASE Consult(t)
      BY <1>1, <1>3, <2>2 DEF Consult, SentOf, TypeOK
    <2>3. CASE Snapshot(t)
      <3>1. /\ pc[t] = "snapshot" /\ pc'[t] = "send"
            /\ snapshot'[t] = sinks[log] /\ seen'[t] = <<>>
            /\ UNCHANGED <<received, entry, present>>
        BY <2>3 DEF Snapshot, Goto, SinkRegistry!Registry, TypeOK
      <3>2. SinkRegistry!Begins(present[entry[t]], sinks[log])
        BY <1>1, <1>3, <3>1 DEF SentInv, Busy
      <3> QED
        BY <1>1, <1>3, <3>1, <3>2, SinkRegistry!OccurrencesEmpty DEF SentOf
    <2>4. CASE Send(t)
      <3>1. PICK v \in Sinks :
               /\ seen'[t] = Append(seen[t], v)
               /\ received' = [received EXCEPT ![v][entry[t]] = @ + 1]
        BY <2>4, SendReceived
      <3>2. /\ pc[t] = "send" /\ pc' = pc /\ UNCHANGED <<entry, present, snapshot>>
            /\ entry[t] \in Entries
        BY <1>1, <1>3, <2>4 DEF Send, SinkRegistry!Visit, control, Busy
      <3>3. ASSUME NEW s \in Sinks
            PROVE  received'[s][entry[t]] = SinkRegistry!Occurrences(seen'[t], s)
        <4>1. received[s][entry[t]] = SinkRegistry!Occurrences(seen[t], s)
          BY <1>1, <1>3, <3>2 DEF SentOf
        <4>2. seen[t] \in Seq(Sinks)
          BY DEF TypeOK
        <4>3. SinkRegistry!Occurrences(seen'[t], s)
              = SinkRegistry!Occurrences(seen[t], s) + (IF v = s THEN 1 ELSE 0)
          BY <3>1, <4>2, SinkRegistry!OccurrencesAppend
        <4>4. received \in [Sinks -> [Entries -> 0 .. MaxSinks]]
          BY DEF TypeOK
        <4>5. CASE v = s
          BY <3>1, <3>2, <4>1, <4>3, <4>4, <4>5
        <4>6. CASE v # s
          BY <3>1, <3>2, <4>1, <4>3, <4>4, <4>6, LinesAssumption
        <4> QED
          BY <4>5, <4>6
      <3> QED
        BY <1>1, <1>3, <3>2, <3>3 DEF SentOf
    <2>5. CASE ~ Busy(t)'
      BY <1>3, <2>5 DEF SentOf, Busy
    <2>6. Sent(t) => ~ Busy(t)'
      BY DEF Sent, Goto, Busy, TypeOK
    <2> QED
      BY <2>1, <2>2, <2>3, <2>4, <2>5, <2>6, StepStatement
  <1> QED
    BY <1>2, <1>3

LEMMA DeliveryStep ==
    ASSUME IInv, NEW t \in Threads, Step(t), Watch
    PROVE  Delivery'
  <1> DEFINE Reached(e) ==
               \A s \in Sinks :
                  received[s][e] \in SinkRegistry!Occurrences(present[e], s)
                                     .. SinkRegistry!Occurrences(sinks[log], s)
             Silent(e) == \A s \in Sinks : received[s][e] = 0
  <1> SUFFICES ASSUME NEW e \in Entries, Ended(e)'
               PROVE  Silent(e)' \/ Reached(e)'
    BY DEF Delivery
  <1> USE DEF IInv
  <1>1. /\ e <= entries' /\ TypeOK /\ TypeOK'
        /\ \A u \in Threads : entry'[u] = e => ~ Busy(u)'
    BY TypeStep DEF Ended, Busy
  <1>2. CASE Send(t) /\ entry[t] = e
    BY <1>1, <1>2 DEF Send, control, Busy
  <1>3. CASE ~ (Send(t) /\ entry[t] = e)
    <2>1. \A s \in Sinks : received'[s][e] = received[s][e]
      BY <1>3, OtherReceived
    <2>2. CASE e > entries
      <3>1. Silent(e)
        BY <2>2 DEF SentInv
      <3> QED
        BY <2>1, <3>1
    <2>3. CASE e <= entries
      <3>1. present'[e] = present[e]
        <4>1. CASE \E l \in Lines : Load(t, l)
          <5>1. present' = [present EXCEPT ![entries + 1] = sinks[log]]
            BY <4>1 DEF Load
          <5>2. entries + 1 # e
            BY <2>3, LinesAssumption DEF TypeOK, Entries
          <5> QED
            BY <1>1, <5>1, <5>2 DEF TypeOK
        <4>2. CASE UNCHANGED present
          BY <4>2
        <4> QED
          BY <1>1, <4>1, <4>2, StepStatement
      <3>2. CASE Ended(e)
        <4>1. Silent(e) \/ Reached(e)
          BY <3>2 DEF SentInv, Delivery
        <4>2. ASSUME Reached(e), NEW s \in Sinks
              PROVE  received'[s][e] \in SinkRegistry!Occurrences(present'[e], s)
                                         .. SinkRegistry!Occurrences(sinks'[log], s)
          <5>1. sinks[log] \in Seq(Sinks) /\ sinks'[log] \in Seq(Sinks)
                /\ present[e] \in Seq(Sinks)
            BY <1>1 DEF TypeOK
          <5>2. SinkRegistry!Begins(sinks[log], sinks'[log])
            BY <1>1, <5>1, SinksGrow DEF SinkRegistry!Begins
          <5>3. SinkRegistry!Occurrences(sinks[log], s)
                <= SinkRegistry!Occurrences(sinks'[log], s)
            BY <5>1, <5>2, SinkRegistry!OccurrencesBegins
          <5>4. /\ SinkRegistry!Occurrences(sinks[log], s) \in Nat
                /\ SinkRegistry!Occurrences(sinks'[log], s) \in Nat
                /\ SinkRegistry!Occurrences(present[e], s) \in Nat
            <6>1. \A d \in Seq(Sinks) : SinkRegistry!Occurrences(d, s) \in Nat
              BY SinkRegistry!OccurrencesType, Zenon
            <6> QED
              BY <5>1, <6>1
          <5>5. received[s][e] \in SinkRegistry!Occurrences(present[e], s)
                                   .. SinkRegistry!Occurrences(sinks[log], s)
            BY <4>2
          <5> QED
            BY <2>1, <3>1, <5>3, <5>4, <5>5
        <4> QED
          BY <2>1, <4>1, <4>2
      <3>3. CASE ~ Ended(e)
        <4>1. PICK u \in Threads : entry[u] = e /\ Busy(u)
          BY <2>3, <3>3 DEF Ended, Busy
        <4>2. u = t
          <5> SUFFICES ASSUME u # t
                       PROVE  FALSE
            OBVIOUS
          <5>1. entry'[u] = entry[u]
            <6>1. CASE \E l \in Lines : Load(t, l)
              BY <1>1, <6>1 DEF Load, TypeOK
            <6>2. CASE UNCHANGED entry
              BY <6>2
            <6> QED
              BY <1>1, <6>1, <6>2, StepStatement
          <5>2. Busy(u)'
            BY <1>1, <4>1, StepMoves DEF Busy
          <5> QED
            BY <1>1, <4>1, <5>1, <5>2
        <4>3. ~ \E l \in Lines : Load(t, l)
          BY <4>1, <4>2 DEF Load, Busy
        <4>4. entry'[t] = e /\ ~ Busy(t)'
          BY <1>1, <4>1, <4>2, <4>3, StepStatement
        <4>5. CASE Consult(t)
          <5>1. pc[t] = "config"
            BY <4>5 DEF Consult
          <5>2. Silent(e)
            BY <4>1, <4>2, <5>1 DEF SentInv, SentOf
          <5> QED
            BY <2>1, <5>2
        <4>6. CASE Sent(t)
          <5>1. pc[t] = "send" /\ SinkRegistry!Visited(t) /\ sinks' = sinks
            BY <4>6 DEF Sent, Goto, SinkRegistry!Finish, SinkRegistry!Visited
          <5>2. SentOf(t) /\ SinkRegistry!WalkOf(t, log)
            BY DEF SentInv, WalksInv
          <5>3. /\ sinks[log] \in Seq(Sinks) /\ present[e] \in Seq(Sinks)
                /\ snapshot[t] \in Seq(Sinks) /\ seen[t] \in Seq(Sinks)
            BY <1>1 DEF TypeOK
          <5>4. ASSUME NEW s \in Sinks
                PROVE  received[s][e] \in SinkRegistry!Occurrences(present[e], s)
                                          .. SinkRegistry!Occurrences(sinks[log], s)
            <6>1. /\ received[s][e] = SinkRegistry!Occurrences(seen[t], s)
                  /\ SinkRegistry!Begins(present[e], snapshot[t])
              BY <4>1, <4>2, <5>1, <5>2 DEF SentOf
            <6> QED
              BY <5>1, <5>2, <5>3, <6>1, SinkRegistry!WalkVisited
          <5> QED
            BY <2>1, <3>1, <5>1, <5>4
        <4>7. ~ Snapshot(t) /\ ~ Send(t)
          BY <1>1, <4>1, <4>2, <4>4 DEF Snapshot, Send, Goto, control, Busy, TypeOK
        <4> QED
          BY <1>1, <4>1, <4>2, <4>3, <4>5, <4>6, <4>7, StepStatement
      <3> QED
        BY <3>2, <3>3
    <2>4. entries \in Int /\ e \in Int
      BY <1>1 DEF TypeOK, Entries
    <2> QED
      BY <2>2, <2>3, <2>4
  <1> QED
    BY <1>2, <1>3

LEMMA SentStep ==
    ASSUME IInv, NEW t \in Threads, Step(t), Watch
    PROVE  SentInv'
  <1>1. ASSUME NEW e \in Entries, e > entries', NEW s \in Sinks
        PROVE  received'[s][e] = 0
    <2>1. entries \in Nat /\ (entries' = entries \/ entries' = entries + 1) /\ TypeOK
      BY StepStatement DEF IInv, TypeOK, Load
    <2>2. e > entries
      BY <1>1, <2>1 DEF Entries
    <2>3. received[s][e] = 0
      BY <2>2 DEF IInv, SentInv
    <2>4. Send(t) => entry[t] # e
      <3>1. Send(t) => entry[t] <= entries /\ entry[t] \in Nat
        BY SendReceived DEF IInv, EntriesInv, Entries
      <3> QED
        BY <2>1, <2>2, <3>1 DEF Entries
    <2> QED
      BY <2>3, <2>4, OtherReceived
  <1> QED
    BY <1>1, PresentStep, SentOfStep, DeliveryStep DEF SentInv

-----------------------------------------------------------------------------
(* What a statement has met.                                               *)

LEMMA SawStep ==
    ASSUME IInv, NEW t \in Threads, Step(t), Watch
    PROVE  SawInv'
  <1> SUFFICES ASSUME NEW u \in Threads, pc'[u] = "config"
               PROVE  /\ at'[u] \notin Default
                      /\ Says(at[u])' \in saw'[u]
                      /\ \E p \in saw'[u] : p[1]
    BY DEF SawInv, SawOf
  <1> USE DEF IInv, TypeOK
  <1>1. saw'[u] = saw[u] \union {Says(at[u])'}
    BY DEF Watch
  <1>2. CASE pc[u] = "config"
    <2>1. at'[u] = at[u]
      <3>1. CASE u = t
        BY <1>2, <3>1, StepStatement DEF Busy, Load
      <3>2. CASE u # t
        BY <3>2, StepMoves
      <3> QED
        BY <3>1, <3>2
    <2> QED
      BY <1>1, <1>2, <2>1 DEF SawInv, SawOf
  <1>3. CASE pc[u] # "config"
    <2>1. u = t
      BY <1>3, StepMoves
    <2>2. PICK l \in Lines : Load(t, l)
      BY <1>3, <2>1, StepStatement DEF Consult, Snapshot, Send, Sent, Goto, control, Busy
    <2>3. /\ at'[u] = l /\ enabled[l] /\ l \notin Default
          /\ enabled' = enabled
      BY <1>3, <2>1, <2>2 DEF Load, lines
    <2>4. Says(at[u])'[1]
      BY <2>3 DEF Says
    <2> QED
      BY <1>1, <2>3, <2>4
  <1> QED
    BY <1>2, <1>3

-----------------------------------------------------------------------------
(* Switching lines on and off.                                             *)

\* A call deals with the line it is at, in one step or in two.
LEMMA TurnSwitches ==
    ASSUME TypeOK, NEW t \in Threads, DisableLine(t) \/ SkipLine(t)
    PROVE  LET l == at[t]
               on == Sets(call[t], l) \/ (enabled[l] /\ ~ Clears(call[t], l))
           IN  /\ l \in Lines /\ pc' = pc /\ pc[t] = "line"
               /\ ~ Sets(call[t], l)
               /\ enabled'[l] = on
               /\ \A k \in Lines \ {l} : enabled'[k] = enabled[k]
               /\ UNCHANGED <<condition, call>> /\ at'[t] = l + 1
  <1> DEFINE l == at[t]
  <1>1. l \in Lines /\ pc' = pc /\ pc[t] = "line" /\ UNCHANGED <<condition, call>>
        /\ at'[t] = l + 1 /\ enabled[l] \in BOOLEAN
    BY DEF DisableLine, SkipLine, AtLine, NextLine, TypeOK, lines
  <1>2. call[t].kind \in {"off", "on", "if"}
    BY <1>1 DEF TypeOK, Switching
  <1>3. CASE DisableLine(t)
    <2>1. ~ Sets(call[t], l) /\ Clears(call[t], l)
      BY <1>3 DEF DisableLine, Disables, Matches, Sets, Clears
    <2>2. enabled' = [enabled EXCEPT ![l] = FALSE]
      BY <1>3 DEF DisableLine
    <2> QED
      BY <1>1, <2>1, <2>2 DEF TypeOK
  <1>4. CASE SkipLine(t)
    <2>1. ~ Sets(call[t], l) /\ ~ Clears(call[t], l)
      BY <1>2, <1>4 DEF SkipLine, Disables, Enables, Matches, Sets, Clears
    <2>2. enabled' = enabled
      BY <1>4 DEF SkipLine, lines
    <2> QED
      BY <1>1, <2>1, <2>2
  <1> QED
    BY <1>3, <1>4

LEMMA SwitchStep ==
    ASSUME IInv, NEW t \in Threads, Step(t), Watch
    PROVE  SwitchInv'
  <1> DEFINE Done(c, was, l) ==
               /\ enabled[l] = (Sets(c, l) \/ (was[l] /\ ~ Clears(c, l)))
               /\ Sets(c, l) => condition[l] = c.text
  <1> SUFFICES ASSUME NEW u \in Threads, Switching(u)', alone'[u]
               PROVE  /\ \A v \in Threads \ {u} : ~ Switching(v)'
                      /\ \A l \in Lines :
                            IF l < at'[u] THEN Done(call[u], before[u], l)'
                                          ELSE enabled'[l] = before'[u][l]
                      /\ pc'[u] = "store" => /\ Sets(call'[u], at'[u])
                                             /\ condition'[at'[u]] = call'[u].text
    BY DEF SwitchInv, SwitchOf
  <1> USE DEF IInv
  <1>1. /\ \A v \in Threads \ {u} : ~ Switching(v)'
        /\ alone[u] \/ ~ Switching(u)
        /\ before'[u] = IF Switching(u) THEN before[u] ELSE enabled
    BY DEF Watch
  <1>2. CASE ~ Switching(u)
    <2>1. pc[u] \notin {"line", "store"} /\ pc'[u] \in {"line", "store"}
      BY <1>2 DEF Switching
    <2>2. u = t
      BY <2>1, StepMoves
    <2>3. PICK c \in Call : Begin(t, c)
      BY <2>1, <2>2, StepSwitches
         DEF DisableLine, SkipLine, AtLine, SetConfig, StoreEnabled, Return, Goto
    <2>4. at'[u] = 1 /\ pc'[u] = "line" /\ enabled' = enabled
      BY <2>2, <2>3 DEF Begin, Goto, lines, TypeOK
    <2> QED
      BY <1>1, <1>2, <2>4 DEF Lines
  <1>3. CASE Switching(u)
    <2>1. /\ \A v \in Threads \ {u} : ~ Switching(v)
          /\ \A l \in Lines : IF l < at[u] THEN Done(call[u], before[u], l)
                                           ELSE enabled[l] = before[u][l]
          /\ pc[u] = "store" => Sets(call[u], at[u]) /\ condition[at[u]] = call[u].text
          /\ before'[u] = before[u]
      BY <1>1, <1>3 DEF SwitchInv, SwitchOf
    <2>2. at[u] \in Nat /\ Lines \subseteq Nat
      BY DEF TypeOK, Lines
    <2> HIDE DEF IInv
    <2>3. CASE DisableLine(t) \/ SkipLine(t)
      <3>1. u = t
        BY <2>1, <2>3 DEF DisableLine, SkipLine, AtLine, Switching
      <3>2. /\ at[u] \in Lines /\ pc'[u] = "line" /\ at'[u] = at[u] + 1
            /\ ~ Sets(call[u], at[u])
            /\ enabled'[at[u]] = (Sets(call[u], at[u])
                                  \/ (enabled[at[u]] /\ ~ Clears(call[u], at[u])))
            /\ \A k \in Lines \ {at[u]} : enabled'[k] = enabled[k]
            /\ condition' = condition /\ call'[u] = call[u]
        BY <2>3, <3>1, TurnSwitches DEF IInv
      <3>3. ASSUME NEW l \in Lines
            PROVE  IF l < at'[u] THEN Done(call[u], before[u], l)'
                                 ELSE enabled'[l] = before'[u][l]
        <4>1. CASE l = at[u]
          <5>1. l < at'[u] /\ enabled[l] = before[u][l]
            BY <2>1, <2>2, <3>2, <4>1
          <5> QED
            BY <2>1, <3>2, <4>1, <5>1
        <4>2. CASE l # at[u]
          <5>1. l < at'[u] <=> l < at[u]
            BY <2>2, <3>2, <4>2
          <5> QED
            BY <2>1, <3>2, <4>2, <5>1
        <4> QED
          BY <4>1, <4>2
      <3> QED
        BY <1>1, <3>2, <3>3
    <2>4. CASE SetConfig(t)
      <3>1. u = t
        BY <2>1, <2>4 DEF SetConfig, AtLine, Switching
      <3>2. /\ at[u] \in Lines /\ pc'[u] = "store" /\ at'[u] = at[u]
            /\ Sets(call[u], at[u])
            /\ condition' = [condition EXCEPT ![at[u]] = call[u].text]
            /\ enabled' = enabled /\ call'[u] = call[u]
        BY <2>4, <3>1
           DEF SetConfig, AtLine, Enables, Matches, Sets, Goto, IInv, TypeOK
      <3>3. condition'[at[u]] = call[u].text
            /\ \A l \in Lines : l # at[u] => condition'[l] = condition[l]
        BY <3>2 DEF IInv, TypeOK
      <3>4. ASSUME NEW l \in Lines
            PROVE  IF l < at'[u] THEN Done(call[u], before[u], l)'
                                 ELSE enabled'[l] = before'[u][l]
        BY <2>1, <2>2, <3>2, <3>3
      <3> QED
        BY <1>1, <3>2, <3>3, <3>4
    <2>5. CASE StoreEnabled(t)
      <3>1. u = t
        BY <2>1, <2>5 DEF StoreEnabled, Goto, Switching
      <3>2. /\ at[u] \in Lines /\ pc[u] = "store" /\ pc'[u] = "line"
            /\ at'[u] = at[u] + 1
            /\ enabled'[at[u]] = TRUE
            /\ \A k \in Lines \ {at[u]} : enabled'[k] = enabled[k]
            /\ condition' = condition /\ call'[u] = call[u]
        BY <2>5, <3>1 DEF StoreEnabled, NextLine, Goto, IInv, TypeOK
      <3>3. ASSUME NEW l \in Lines
            PROVE  IF l < at'[u] THEN Done(call[u], before[u], l)'
                                 ELSE enabled'[l] = before'[u][l]
        <4>1. CASE l = at[u]
          <5>1. l < at'[u]
            BY <2>2, <3>2, <4>1
          <5> QED
            BY <2>1, <3>2, <4>1, <5>1
        <4>2. CASE l # at[u]
          <5>1. l < at'[u] <=> l < at[u]
            BY <2>2, <3>2, <4>2
          <5> QED
            BY <2>1, <3>2, <4>2, <5>1
        <4> QED
          BY <4>1, <4>2
      <3> QED
        BY <1>1, <3>2, <3>3
    <2>6. CASE UNCHANGED lines /\ u # t
      <3>1. /\ call'[u] = call[u] /\ at'[u] = at[u] /\ pc'[u] = pc[u]
            /\ enabled' = enabled /\ condition' = condition
        BY <2>6, StepMoves DEF lines, IInv
      <3> QED
        BY <1>1, <2>1, <3>1
    <2>7. CASE Return(t) \/ \E c \in Call : Begin(t, c)
      <3>1. u # t
        <4>1. Return(t) => ~ Switching(t)'
          BY DEF Return, Goto, Switching, IInv, TypeOK
        <4>2. (\E c \in Call : Begin(t, c)) => ~ Switching(t)
          BY DEF Begin, Goto, Switching
        <4> QED
          BY <1>3, <2>7, <4>1, <4>2
      <3>2. UNCHANGED lines
        BY <2>7 DEF Return, Begin
      <3> QED
        BY <2>6, <3>1, <3>2
    <2>8. CASE UNCHANGED lines /\ pc[t] \notin {"line", "store"}
      <3>1. u # t
        BY <1>3, <2>8 DEF Switching
      <3> QED
        BY <2>6, <2>8, <3>1
    <2> QED
      BY <2>3, <2>4, <2>5, <2>7, <2>8, StepSwitches DEF IInv
  <1> QED
    BY <1>2, <1>3

-----------------------------------------------------------------------------
(* The theorems.                                                           *)

\* The invariant holds in every reachable state.
THEOREM Invariant ==
    Spec => []IInv
  <1>1. ASSUME IInv, [Next]_vars
        PROVE  IInv'
    <2>1. CASE UNCHANGED vars
      <3>1. /\ UNCHANGED <<enabled, condition, sinks, walking, snapshot, seen, received>>
            /\ UNCHANGED <<pc, call, at, entry, calls, entries>>
            /\ UNCHANGED <<present, saw, alone, before>>
        BY <2>1 DEF vars, lines, registry, control, history
      <3>2. TypeOK' /\ WalksInv' /\ EntriesInv'
        BY <1>1, <3>1 DEF IInv, TypeOK, WalksInv, EntriesInv, Busy, Switching,
                          SinkRegistry!WalkOf
      <3>3. SentInv' /\ SawInv' /\ SwitchInv'
        BY <1>1, <3>1 DEF IInv, SentInv, SentOf, Delivery, Ended, SawInv, SawOf, Says,
                          SwitchInv, SwitchOf, Switching
      <3> QED
        BY <3>2, <3>3 DEF IInv
    <2>2. ASSUME NEW t \in Threads, Step(t), Watch
          PROVE  IInv'
      <3>1. TypeOK' /\ WalksInv' /\ EntriesInv'
        BY <1>1, <2>2, TypeStep, WalksStep, EntriesStep DEF IInv
      <3>2. SentInv' /\ SawInv' /\ SwitchInv'
        BY <1>1, <2>2, SentStep, SawStep, SwitchStep
      <3> QED
        BY <3>1, <3>2 DEF IInv
    <2> QED
      BY <1>1, <2>1, <2>2 DEF Next, Step
  <1> QED
    BY <1>1, InitIInv, PTL DEF Spec

\* A statement that has ended was silent or has reached every sink that was
\* registered when it began, once for each registration, and none oftener than
\* it is registered: for any number of threads that log, switch and register.
THEOREM DeliveryHolds ==
    Spec => []Delivery
  <1>1. IInv => Delivery
    BY DEF IInv, SentInv
  <1> QED
    BY <1>1, Invariant, PTL

\* Switching calls are exact: one that no other switching call overlapped
\* leaves on and off, and with which condition, exactly the lines it is to,
\* whatever statements and registrations fall in between.
THEOREM SwitchesSoundHolds ==
    Spec => []SwitchesSound
  <1>1. IInv => SwitchExact
    <2> SUFFICES ASSUME IInv, NEW t \in Threads, Returning(t), alone[t], NEW l \in Lines
                 PROVE  /\ enabled[l] = (Sets(call[t], l)
                                         \/ (before[t][l] /\ ~ Clears(call[t], l)))
                        /\ Sets(call[t], l) => condition[l] = call[t].text
      BY DEF SwitchExact, Sets, Clears
    <2>1. Switching(t) /\ at[t] \notin Lines
      BY DEF Returning, Switching
    <2>2. l < at[t]
      BY <2>1, LinesAssumption DEF IInv, TypeOK, Lines
    <2> QED
      BY <2>1, <2>2 DEF IInv, SwitchInv, SwitchOf
  <1>2. IInv => SwitchesSound
    BY <1>1 DEF IInv, SwitchesSound
  <1> QED
    BY <1>2, Invariant, PTL

\* The verdict of a statement is justified by what its line was while the
\* statement looked at it: it logs only if the line was on at some time and its
\* reader said yes at some time, and is silent only if it was off or refused.
THEOREM VerdictJustifiedHolds ==
    Spec => VerdictJustified
  <1>1. ASSUME IInv, NEW t \in Threads, Step(t), Watch,
               NEW u \in Threads, pc[u] = "config", pc'[u] # "config"
        PROVE  IF pc'[u] = "snapshot"
               THEN /\ \E p \in saw'[u] : p[1]
                    /\ \E p \in saw'[u] : p[2]
               ELSE \E p \in saw'[u] : ~ p[1] \/ ~ p[2]
    <2>1. saw'[u] = saw[u]
      BY <1>1 DEF Watch
    <2>2. SawOf(u)
      BY <1>1 DEF IInv, SawInv
    <2>3. u = t
      BY <1>1, StepMoves DEF IInv
    <2>4. Consult(t)
      BY <1>1, <2>3, StepStatement
         DEF IInv, Load, Snapshot, Send, Sent, Goto, control, Busy
    <2>5. IF condition[at[u]] \in Accepts[at[u]]
          THEN pc'[u] = "snapshot" ELSE pc'[u] = "idle"
      BY <1>1, <2>3, <2>4 DEF Consult, IInv, TypeOK
    <2>6. at[u] \notin Default /\ Says(at[u]) \in saw[u]
      BY <1>1, <2>2 DEF SawOf
    <2>7. Says(at[u])[2] = (condition[at[u]] \in Accepts[at[u]])
      BY <2>6 DEF Says
    <2>8. \E p \in saw[u] : p[1]
      BY <1>1, <2>2 DEF SawOf
    <2> QED
      BY <2>1, <2>5, <2>6, <2>7, <2>8
  <1>2. IInv /\ [Next]_vars =>
           [\A t \in Threads : pc[t] = "config" /\ pc'[t] # "config" =>
               IF pc'[t] = "snapshot"
               THEN /\ \E p \in saw'[t] : p[1]
                    /\ \E p \in saw'[t] : p[2]
               ELSE \E p \in saw'[t] : ~ p[1] \/ ~ p[2]]_vars
    BY <1>1 DEF Next, Step
  <1> QED
    BY <1>2, Invariant, PTL DEF Spec, VerdictJustified
====
