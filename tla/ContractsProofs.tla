-------------------------- MODULE ContractsProofs --------------------------
(* Proofs about Contracts, for any number of threads, contracts, handlers   *)
(* and sinks.                                                               *)
EXTENDS Contracts, TLAPS

\* The walks of a thread over the handlers and over the sinks.
WalksInv ==
    \A t \in Threads : /\ HandlerRegistry!WalkOf(t, handlerList)
                       /\ SinkRegistry!WalkOf(t, sinkList)

\* How far a thread has reported the violation it is failing.
ReportOf(t) ==
    /\ pc[t] \in Failing =>
          /\ HandlerRegistry!Begins(due[t].handlers, handlers[handlerList])
          /\ SinkRegistry!Begins(due[t].sinks, sinks[sinkList])
    /\ pc[t] \in Failing \ {"violated"} =>
          HandlerRegistry!Begins(due[t].handlers, hSnapshot[t])
    /\ pc[t] \in {"log", "send", "fail", "aborted"} => HandlerRegistry!Visited(t)
    /\ pc[t] \in {"send", "fail", "aborted"} /\ checking[t] \in Message =>
          SinkRegistry!Begins(due[t].sinks, sSnapshot[t])
    /\ pc[t] \in {"fail", "aborted"} /\ checking[t] \in Message => SinkRegistry!Visited(t)

ReportInv == \A t \in Threads : ReportOf(t)

\* What a switching call makes of an enabler that was in the state `was`.
Switched(c, glob, kind, was) ==
    CASE kind = "off" -> was /\ c \notin glob
      [] kind = "on" -> was \/ c \in glob
      [] kind = "if" -> c \in glob

\* A switching call that is alone has dealt with the enablers it has passed,
\* and the others are as it found them.
SwitchOf(t) ==
    Switching(t) /\ alone[t] =>
       /\ \A u \in Threads \ {t} : ~ Switching(u)
       /\ \A c \in Contracts :
             enabled[c] = IF c < at[t]
                          THEN Switched(c, call[t].glob, call[t].kind, before[t][c])
                          ELSE before[t][c]

SwitchInv == \A t \in Threads : SwitchOf(t)

IInv == TypeOK /\ WalksInv /\ ReportInv /\ SwitchInv

-----------------------------------------------------------------------------
(* The invariant holds initially.                                          *)

LEMMA InitIInv ==
    Init => IInv
  <1> SUFFICES ASSUME Init PROVE IInv
    OBVIOUS
  <1>1. TypeOK
    <2>1. /\ enabled \in [Contracts -> BOOLEAN]
          /\ checking \in [Threads -> Contracts \union {None}]
          /\ at \in [Threads -> 1 .. NumContracts + 1]
          /\ call \in [Threads -> [kind : {"none", "off", "on", "if"},
                                   glob : SUBSET Contracts]]
          /\ alone \in [Threads -> BOOLEAN] /\ before \in [Threads -> [Contracts -> BOOLEAN]]
      BY ContractsAssumption DEF Init, Contracts, NoCall
    <2>2. /\ handlers \in [{handlerList} -> Seq(Handlers)]
          /\ hWalking = {t \in Threads : pc[t] = "handle"}
          /\ hSnapshot \in [Threads -> Seq(Handlers)] /\ hSeen \in [Threads -> Seq(Handlers)]
          /\ sinks \in [{sinkList} -> Seq(Sinks)]
          /\ sWalking = {t \in Threads : pc[t] = "send"}
          /\ sSnapshot \in [Threads -> Seq(Sinks)] /\ sSeen \in [Threads -> Seq(Sinks)]
      BY DEF Init, HandlerRegistry!Init, SinkRegistry!Init
    <2>3. /\ scope \in [Threads -> Seq(AtExit)]
          /\ due \in [Threads -> [handlers : Seq(Handlers), sinks : Seq(Sinks)]]
      BY DEF Init
    <2>4. pc \in [Threads -> {"body"}]
      BY DEF Init
    <2>5. \A t \in Threads : at[t] = 1 \/ Switching(t)
      BY DEF Init
    <2> QED
      BY <2>1, <2>2, <2>3, <2>4, <2>5 DEF Init, TypeOK, Failing, Switching
  <1>2. WalksInv
    BY DEF Init, WalksInv, HandlerRegistry!Init, HandlerRegistry!WalkOf,
           HandlerRegistry!Begins, SinkRegistry!Init, SinkRegistry!WalkOf,
           SinkRegistry!Begins
  <1>3. ReportInv /\ SwitchInv
    BY DEF Init, ReportInv, ReportOf, SwitchInv, SwitchOf, Switching, Failing
  <1> QED
    BY <1>1, <1>2, <1>3 DEF IInv

-----------------------------------------------------------------------------
(* What one step of a thread can change.                                   *)

\* Only the thread itself moves.
LEMMA StepMoves ==
    ASSUME TypeOK, NEW t \in Threads, Continue(t) \/ Body(t)
    PROVE  /\ pc' = [pc EXCEPT ![t] = pc'[t]]
           /\ pc'[t] \in Failing \union {"body", "exit", "line"}
           /\ Watch
  <1> USE DEF Goto, Failing, TypeOK
  <1>1. CASE Body(t)
    BY <1>1 DEF Body, Check, Passes, Violates, Ensure, Leave, RegisterHandler,
                RegisterSink, ContractCheckOff, ContractCheckOn, ContractCheckIf, Begin
  <1>2. CASE Continue(t)
    BY <1>2 DEF Continue, CheckEnsure, Passes, Violates, Left, Handle, RunHandler,
                Handled, Log, Send, Sent, Abort, Resume, SwitchEnabler, Return
  <1> QED
    BY <1>1, <1>2

\* The registry of handlers.
LEMMA StepHandlers ==
    ASSUME TypeOK, NEW t \in Threads, Continue(t) \/ Body(t)
    PROVE  \/ Handle(t) \/ RunHandler(t) \/ Handled(t)
           \/ \E h \in Handlers : RegisterHandler(t, h)
           \/ UNCHANGED handlerRegistry /\ pc[t] # "handle" /\ pc'[t] # "handle"
  <1> USE DEF Goto, Failing, TypeOK, registries, quiet
  <1>1. CASE Body(t)
    BY <1>1 DEF Body, Check, Passes, Violates, Ensure, Leave,
                RegisterSink, ContractCheckOff, ContractCheckOn, ContractCheckIf, Begin
  <1>2. CASE Continue(t)
    BY <1>2 DEF Continue, CheckEnsure, Passes, Violates, Left,
                Log, Send, Sent, Abort, Resume, SwitchEnabler, Return
  <1> QED
    BY <1>1, <1>2

\* The registry of sinks.
LEMMA StepSinks ==
    ASSUME TypeOK, NEW t \in Threads, Continue(t) \/ Body(t)
    PROVE  \/ Log(t) \/ Send(t) \/ Sent(t)
           \/ \E s \in Sinks : RegisterSink(t, s)
           \/ UNCHANGED sinkRegistry /\ pc[t] # "send" /\ pc'[t] # "send"
  <1> USE DEF Goto, Failing, TypeOK, registries, quiet
  <1>1. CASE Body(t)
    BY <1>1 DEF Body, Check, Passes, Violates, Ensure, Leave,
                RegisterHandler, ContractCheckOff, ContractCheckOn, ContractCheckIf, Begin
  <1>2. CASE Continue(t)
    BY <1>2 DEF Continue, CheckEnsure, Passes, Violates, Left, Handle, RunHandler,
                Handled, Abort, Resume, SwitchEnabler, Return
  <1> QED
    BY <1>1, <1>2

\* The enablers and the switching calls.
LEMMA StepSwitches ==
    ASSUME TypeOK, NEW t \in Threads, Continue(t) \/ Body(t)
    PROVE  \/ \E kind \in {"off", "on", "if"}, g \in Globs : Begin(t, kind, g)
           \/ SwitchEnabler(t) \/ Return(t)
           \/ UNCHANGED <<enabled, call, at>> /\ pc[t] # "line" /\ pc'[t] # "line"
  <1> USE DEF Goto, Failing, TypeOK, quiet, switching
  <1>1. CASE Body(t)
    BY <1>1 DEF Body, Check, Passes, Violates, Ensure, Leave,
                RegisterHandler, RegisterSink,
                ContractCheckOff, ContractCheckOn, ContractCheckIf
  <1>2. CASE Continue(t)
    BY <1>2 DEF Continue, CheckEnsure, Passes, Violates, Left, Handle, RunHandler,
                Handled, Log, Send, Sent, Abort, Resume
  <1> QED
    BY <1>1, <1>2

\* The contract a thread is failing, and what was registered when it was found
\* violated.
LEMMA StepChecking ==
    ASSUME TypeOK, NEW t \in Threads, Continue(t) \/ Body(t)
    PROVE  \/ \E c \in Contracts, from \in {"body", "exit"} : Violates(t, c, from)
           \/ Resume(t)
           \/ /\ UNCHANGED <<checking, due>>
              /\ pc[t] \in Failing <=> pc'[t] \in Failing
              /\ pc'[t] # "violated" \/ pc[t] = "violated"
  <1> USE DEF Goto, Failing, TypeOK, quiet
  <1>1. CASE Body(t)
    BY <1>1 DEF Body, Check, Passes, Ensure, Leave, RegisterHandler, RegisterSink,
                ContractCheckOff, ContractCheckOn, ContractCheckIf, Begin
  <1>2. CASE CheckEnsure(t)
    <2>1. scope[t] \in Seq(AtExit) /\ scope[t] # <<>>
      BY <1>2 DEF CheckEnsure
    <2>2. Last(scope[t]) \in AtExit
      BY <2>1 DEF Last
    <2>3. Last(scope[t]) \in Contracts
      BY <2>2 DEF AtExit
    <2> QED
      BY <1>2, <2>3 DEF CheckEnsure, Passes
  <1>3. CASE Continue(t) /\ ~ CheckEnsure(t)
    BY <1>3 DEF Continue, Left, Handle, RunHandler,
                Handled, Log, Send, Sent, Abort, SwitchEnabler, Return
  <1> QED
    BY <1>1, <1>2, <1>3

\* The scope and the process.
LEMMA StepScope ==
    ASSUME TypeOK, NEW t \in Threads, Continue(t) \/ Body(t)
    PROVE  /\ \/ \E c \in Contracts : Ensure(t, c)
              \/ CheckEnsure(t)
              \/ UNCHANGED scope
           /\ aborted' \in BOOLEAN
  <1> USE DEF TypeOK, quiet
  <1>1. CASE Body(t)
    BY <1>1 DEF Body, Check, Passes, Violates, Ensure, Leave, RegisterHandler,
                RegisterSink, ContractCheckOff, ContractCheckOn, ContractCheckIf, Begin
  <1>2. CASE Continue(t)
    BY <1>2 DEF Continue, CheckEnsure, Passes, Violates, Left, Handle, RunHandler,
                Handled, Log, Send, Sent, Abort, Resume, SwitchEnabler, Return
  <1> QED
    BY <1>1, <1>2

-----------------------------------------------------------------------------
(* Types.                                                                  *)

\* One turn of the loop over the section.
LEMMA TurnSwitches ==
    ASSUME TypeOK, NEW t \in Threads, SwitchEnabler(t)
    PROVE  LET c == at[t]
               new == Switched(c, call[t].glob, call[t].kind, enabled[c])
           IN  c \in Contracts /\ new \in BOOLEAN /\ enabled' = [enabled EXCEPT ![c] = new]
  <1> DEFINE c == at[t]
  <1>1. c \in Contracts /\ enabled[c] \in BOOLEAN
    BY DEF SwitchEnabler, TypeOK
  <1>2. call[t].kind \in {"off", "on", "if"}
    BY DEF SwitchEnabler, Switching, TypeOK
  <1>3. CASE call[t].kind = "off"
    BY <1>1, <1>3 DEF SwitchEnabler, Switched
  <1>4. CASE call[t].kind = "on"
    BY <1>1, <1>4 DEF SwitchEnabler, Switched
  <1>5. CASE call[t].kind = "if"
    BY <1>1, <1>5 DEF SwitchEnabler, Switched
  <1> QED
    BY <1>2, <1>3, <1>4, <1>5

LEMMA TypeStep ==
    ASSUME TypeOK, NEW t \in Threads, Continue(t) \/ Body(t)
    PROVE  TypeOK'
  <1> USE DEF TypeOK
  <1>1. pc' = [pc EXCEPT ![t] = pc'[t]] /\ Watch
        /\ pc' \in [Threads -> Failing \union {"body", "exit", "line"}]
    BY StepMoves
  <1>2. alone' \in [Threads -> BOOLEAN] /\ before' \in [Threads -> [Contracts -> BOOLEAN]]
    BY <1>1 DEF Watch
  <1>3. /\ handlers' \in [{handlerList} -> Seq(Handlers)]
        /\ hWalking' = {u \in Threads : pc'[u] = "handle"}
        /\ hSnapshot' \in [Threads -> Seq(Handlers)] /\ hSeen' \in [Threads -> Seq(Handlers)]
    <2>1. CASE Handle(t)
      BY <1>1, <2>1 DEF Handle, Goto, HandlerRegistry!Registry
    <2>2. CASE RunHandler(t)
      <3>1. hSnapshot[t] \in Seq(Handlers) /\ hSeen[t] \in Seq(Handlers)
        OBVIOUS
      <3>2. hSnapshot[t][Len(hSnapshot[t]) - Len(hSeen[t])] \in Handlers
        BY <2>2, <3>1 DEF RunHandler, HandlerRegistry!Visit
      <3> QED
        BY <1>1, <2>2, <3>1, <3>2 DEF RunHandler, HandlerRegistry!Visit
    <2>3. CASE Handled(t)
      BY <1>1, <2>3 DEF Handled, Goto, HandlerRegistry!Finish
    <2>4. CASE \E h \in Handlers : RegisterHandler(t, h)
      BY <1>1, <2>4 DEF RegisterHandler, HandlerRegistry!Insert
    <2>5. CASE UNCHANGED handlerRegistry /\ pc[t] # "handle" /\ pc'[t] # "handle"
      BY <1>1, <2>5 DEF handlerRegistry
    <2> QED
      BY <2>1, <2>2, <2>3, <2>4, <2>5, StepHandlers

  <1>4. /\ sinks' \in [{sinkList} -> Seq(Sinks)]
        /\ sWalking' = {u \in Threads : pc'[u] = "send"}
        /\ sSnapshot' \in [Threads -> Seq(Sinks)] /\ sSeen' \in [Threads -> Seq(Sinks)]
    <2>1. CASE Log(t)
      BY <1>1, <2>1 DEF Log, Goto, SinkRegistry!Registry
    <2>2. CASE Send(t)
      <3>1. sSnapshot[t] \in Seq(Sinks) /\ sSeen[t] \in Seq(Sinks)
        OBVIOUS
      <3>2. sSnapshot[t][Len(sSnapshot[t]) - Len(sSeen[t])] \in Sinks
        BY <2>2, <3>1 DEF Send, SinkRegistry!Visit
      <3> QED
        BY <1>1, <2>2, <3>1, <3>2 DEF Send, SinkRegistry!Visit
    <2>3. CASE Sent(t)
      BY <1>1, <2>3 DEF Sent, Goto, SinkRegistry!Finish
    <2>4. CASE \E s \in Sinks : RegisterSink(t, s)
      BY <1>1, <2>4 DEF RegisterSink, SinkRegistry!Insert
    <2>5. CASE UNCHANGED sinkRegistry /\ pc[t] # "send" /\ pc'[t] # "send"
      BY <1>1, <2>5 DEF sinkRegistry
    <2> QED
      BY <2>1, <2>2, <2>3, <2>4, <2>5, StepSinks
  <1>5. scope' \in [Threads -> Seq(AtExit)] /\ aborted' \in BOOLEAN
    <2>1. CASE CheckEnsure(t)
      <3>1. scope[t] \in Seq(AtExit) /\ scope[t] # <<>>
        BY <2>1 DEF CheckEnsure
      <3>2. Front(scope[t]) \in Seq(AtExit)
        BY <3>1 DEF Front
      <3> QED
        BY <2>1, <3>2, StepScope DEF CheckEnsure
    <2>2. CASE \E c \in Contracts : Ensure(t, c)
      BY <2>2, StepScope DEF Ensure
    <2> QED
      BY <2>1, <2>2, StepScope
  <1>6. /\ checking' \in [Threads -> Contracts \union {None}]
        /\ \A u \in Threads : pc'[u] \in Failing => checking'[u] \in Contracts
        /\ due' \in [Threads -> [handlers : Seq(Handlers), sinks : Seq(Sinks)]]
    <2>1. CASE \E c \in Contracts, from \in {"body", "exit"} : Violates(t, c, from)
      <3>1. handlers[handlerList] \in Seq(Handlers) /\ sinks[sinkList] \in Seq(Sinks)
        OBVIOUS
      <3> QED
        BY <1>1, <2>1, <3>1 DEF Violates, Goto
    <2>2. CASE Resume(t)
      BY <1>1, <2>2 DEF Resume, Goto, Failing
    <2>3. CASE UNCHANGED <<checking, due>> /\ (pc[t] \in Failing <=> pc'[t] \in Failing)
      BY <1>1, <2>3
    <2> QED
      BY <2>1, <2>2, <2>3, StepChecking
  <1>7. enabled' \in [Contracts -> BOOLEAN]
    <2>1. CASE SwitchEnabler(t)
      <3>1. call[t].kind \in {"off", "on", "if"}
        BY <2>1 DEF SwitchEnabler, Switching
      <3>2. \E was \in BOOLEAN : enabled' = [enabled EXCEPT ![at[t]] = was]
        BY <2>1, TurnSwitches
      <3> QED
        BY <3>2
    <2>2. CASE ~ SwitchEnabler(t)
      BY <2>2, StepSwitches DEF Begin, Return
    <2> QED
      BY <2>1, <2>2
  <1>8. /\ call' \in [Threads -> [kind : {"none", "off", "on", "if"}, glob : SUBSET Contracts]]
        /\ \A u \in Threads : Switching(u)' => call'[u].kind # "none"
        /\ at' \in [Threads -> 1 .. NumContracts + 1]
        /\ \A u \in Threads : at'[u] = 1 \/ Switching(u)'
    <2>1. CASE \E kind \in {"off", "on", "if"}, g \in Globs : Begin(t, kind, g)
      BY <1>1, <2>1, ContractsAssumption DEF Begin, Goto, Switching
    <2>2. CASE SwitchEnabler(t)
      BY <1>1, <2>2, ContractsAssumption DEF SwitchEnabler, Switching, Contracts
    <2>3. CASE Return(t)
      BY <1>1, <2>3, ContractsAssumption DEF Return, Goto, Switching, NoCall
    <2>4. CASE UNCHANGED <<enabled, call, at>> /\ pc[t] # "line" /\ pc'[t] # "line"
      BY <1>1, <2>4 DEF Switching
    <2> QED
      BY <2>1, <2>2, <2>3, <2>4, StepSwitches
  <1> QED
    BY <1>1, <1>2, <1>3, <1>4, <1>5, <1>6, <1>7, <1>8

-----------------------------------------------------------------------------
(* The walks over the registries.                                          *)

LEMMA WalksStep ==
    ASSUME IInv, NEW t \in Threads, Continue(t) \/ Body(t)
    PROVE  WalksInv'
  <1> SUFFICES ASSUME NEW u \in Threads
               PROVE  /\ HandlerRegistry!WalkOf(u, handlerList)'
                      /\ SinkRegistry!WalkOf(u, sinkList)'
    BY DEF WalksInv
  <1> USE DEF IInv, TypeOK
  <1>1. HandlerRegistry!WalkOf(u, handlerList) /\ SinkRegistry!WalkOf(u, sinkList)
    BY DEF WalksInv
  <1>2. HandlerRegistry!WalkOf(u, handlerList)'
    <2>1. CASE Handle(t)
      BY <1>1, <2>1, HandlerRegistry!WalkRegistry DEF Handle
    <2>2. CASE RunHandler(t)
      BY <1>1, <2>2, HandlerRegistry!WalkVisit DEF RunHandler
    <2>3. CASE Handled(t)
      BY <1>1, <2>3 DEF Handled, HandlerRegistry!Finish, HandlerRegistry!WalkOf
    <2>4. CASE \E h \in Handlers : RegisterHandler(t, h)
      BY <1>1, <2>4, HandlerRegistry!WalkInsert DEF RegisterHandler
    <2>5. CASE UNCHANGED handlerRegistry
      BY <1>1, <2>5 DEF handlerRegistry, HandlerRegistry!WalkOf
    <2> QED
      BY <2>1, <2>2, <2>3, <2>4, <2>5, StepHandlers
  <1>3. SinkRegistry!WalkOf(u, sinkList)'
    <2>1. CASE Log(t)
      BY <1>1, <2>1, SinkRegistry!WalkRegistry DEF Log
    <2>2. CASE Send(t)
      BY <1>1, <2>2, SinkRegistry!WalkVisit DEF Send
    <2>3. CASE Sent(t)
      BY <1>1, <2>3 DEF Sent, SinkRegistry!Finish, SinkRegistry!WalkOf
    <2>4. CASE \E s \in Sinks : RegisterSink(t, s)
      BY <1>1, <2>4, SinkRegistry!WalkInsert DEF RegisterSink
    <2>5. CASE UNCHANGED sinkRegistry
      BY <1>1, <2>5 DEF sinkRegistry, SinkRegistry!WalkOf
    <2> QED
      BY <2>1, <2>2, <2>3, <2>4, <2>5, StepSinks
  <1> QED
    BY <1>2, <1>3

-----------------------------------------------------------------------------
(* Reporting a violation.                                                  *)

\* The steps of a thread that is failing a contract.
LEMMA StepFailing ==
    ASSUME TypeOK, NEW t \in Threads, Continue(t) \/ Body(t)
    PROVE  \/ \E c \in Contracts, from \in {"body", "exit"} : Violates(t, c, from)
           \/ Handle(t) \/ RunHandler(t) \/ Handled(t)
           \/ Log(t) \/ Send(t) \/ Sent(t)
           \/ Abort(t)
           \/ pc'[t] \notin Failing
  <1> USE DEF Goto, Failing, TypeOK
  <1>1. CASE Body(t)
    BY <1>1, StepChecking DEF Body, Resume, Ensure, Check, Passes, Leave, RegisterHandler,
                RegisterSink, ContractCheckOff, ContractCheckOn, ContractCheckIf, Begin
  <1>2. CASE CheckEnsure(t)
    <2>1. CASE Goto(t, "exit", "exit")
      BY <2>1
    <2>2. CASE Violates(t, Last(scope[t]), "exit")
      <3>1. pc[t] \notin Failing /\ pc'[t] = "violated"
        BY <2>2 DEF Violates
      <3> QED
        BY <3>1, StepChecking DEF Resume
    <2> QED
      BY <1>2, <2>1, <2>2 DEF CheckEnsure
  <1>3. CASE Continue(t) /\ ~ CheckEnsure(t)
    BY <1>3 DEF Continue, Left, Resume, SwitchEnabler, Return
  <1> QED
    BY <1>1, <1>2, <1>3

\* What began a registry goes on doing so.
LEMMA RegistriesGrow ==
    ASSUME TypeOK, NEW t \in Threads, Continue(t) \/ Body(t)
    PROVE  /\ \A d \in Seq(Handlers) :
                 HandlerRegistry!Begins(d, handlers[handlerList]) =>
                 HandlerRegistry!Begins(d, handlers'[handlerList])
           /\ \A d \in Seq(Sinks) :
                 SinkRegistry!Begins(d, sinks[sinkList]) =>
                 SinkRegistry!Begins(d, sinks'[sinkList])
  <1> USE DEF TypeOK
  <1>1. \/ handlers' = handlers
        \/ \E h \in Handlers : handlers'[handlerList] = Append(handlers[handlerList], h)
    BY StepHandlers DEF Handle, HandlerRegistry!Registry, RunHandler, HandlerRegistry!Visit,
          Handled, HandlerRegistry!Finish, RegisterHandler, HandlerRegistry!Insert,
          handlerRegistry
  <1>2. \/ sinks' = sinks
        \/ \E s \in Sinks : sinks'[sinkList] = Append(sinks[sinkList], s)
    BY StepSinks DEF Log, SinkRegistry!Registry, Send, SinkRegistry!Visit,
          Sent, SinkRegistry!Finish, RegisterSink, SinkRegistry!Insert,
          sinkRegistry
  <1>3. handlers[handlerList] \in Seq(Handlers) /\ sinks[sinkList] \in Seq(Sinks)
    OBVIOUS
  <1>4. ASSUME NEW d \in Seq(Handlers), HandlerRegistry!Begins(d, handlers[handlerList])
        PROVE  HandlerRegistry!Begins(d, handlers'[handlerList])
    <2>1. ASSUME NEW h \in Handlers
          PROVE  HandlerRegistry!Begins(d, Append(handlers[handlerList], h))
      BY <1>3, <1>4, HandlerRegistry!BeginsAppend
    <2> QED
      BY <1>1, <1>4, <2>1
  <1>5. ASSUME NEW d \in Seq(Sinks), SinkRegistry!Begins(d, sinks[sinkList])
        PROVE  SinkRegistry!Begins(d, sinks'[sinkList])
    <2>1. ASSUME NEW s \in Sinks
          PROVE  SinkRegistry!Begins(d, Append(sinks[sinkList], s))
      BY <1>3, <1>5, SinkRegistry!BeginsAppend
    <2> QED
      BY <1>2, <1>5, <2>1
  <1> QED
    BY <1>4, <1>5

\* The others go on with what they were doing.
LEMMA StepOthers ==
    ASSUME TypeOK, NEW t \in Threads, Continue(t) \/ Body(t), NEW u \in Threads \ {t}
    PROVE  /\ pc'[u] = pc[u] /\ checking'[u] = checking[u] /\ due'[u] = due[u]
           /\ hSnapshot'[u] = hSnapshot[u] /\ hSeen'[u] = hSeen[u]
           /\ sSnapshot'[u] = sSnapshot[u] /\ sSeen'[u] = sSeen[u]
  <1> USE DEF TypeOK
  <1>1. pc'[u] = pc[u]
    BY StepMoves
  <1>2. hSnapshot'[u] = hSnapshot[u] /\ hSeen'[u] = hSeen[u]
    BY StepHandlers DEF Handle, HandlerRegistry!Registry, RunHandler, HandlerRegistry!Visit,
          Handled, HandlerRegistry!Finish, RegisterHandler, HandlerRegistry!Insert,
          handlerRegistry
  <1>3. sSnapshot'[u] = sSnapshot[u] /\ sSeen'[u] = sSeen[u]
    BY StepSinks DEF Log, SinkRegistry!Registry, Send, SinkRegistry!Visit,
          Sent, SinkRegistry!Finish, RegisterSink, SinkRegistry!Insert,
          sinkRegistry
  <1>4. checking'[u] = checking[u] /\ due'[u] = due[u]
    <2>1. CASE \E c \in Contracts, from \in {"body", "exit"} : Violates(t, c, from)
      BY <2>1 DEF Violates
    <2>2. CASE Resume(t)
      BY <2>2 DEF Resume
    <2>3. CASE UNCHANGED <<checking, due>>
      BY <2>3
    <2> QED
      BY <2>1, <2>2, <2>3, StepChecking
  <1> QED
    BY <1>1, <1>2, <1>3, <1>4

LEMMA ReportStep ==
    ASSUME IInv, NEW t \in Threads, Continue(t) \/ Body(t)
    PROVE  ReportInv'
  <1> SUFFICES ASSUME NEW u \in Threads
               PROVE  ReportOf(u)'
    BY DEF ReportInv
  <1> USE DEF IInv, Failing
  <1>1. ReportOf(u)
    BY DEF ReportInv
  <1>2. /\ due[u].handlers \in Seq(Handlers) /\ due[u].sinks \in Seq(Sinks)
        /\ handlers[handlerList] \in Seq(Handlers) /\ sinks[sinkList] \in Seq(Sinks)
    BY DEF TypeOK
  <1>3. /\ HandlerRegistry!Begins(due[u].handlers, handlers[handlerList]) =>
           HandlerRegistry!Begins(due[u].handlers, handlers'[handlerList])
        /\ SinkRegistry!Begins(due[u].sinks, sinks[sinkList]) =>
           SinkRegistry!Begins(due[u].sinks, sinks'[sinkList])
    BY <1>2, RegistriesGrow
  <1>4. CASE u # t
    BY <1>1, <1>3, <1>4, StepOthers
       DEF ReportOf, HandlerRegistry!Visited, SinkRegistry!Visited
  <1>5. CASE u = t
    <2> USE DEF Goto, TypeOK
    <2>1. CASE \E c \in Contracts, from \in {"body", "exit"} : Violates(t, c, from)
      <3>1. /\ pc'[t] = "violated"
            /\ due'[t] = [handlers |-> handlers[handlerList], sinks |-> sinks[sinkList]]
            /\ handlers' = handlers /\ sinks' = sinks
        BY <2>1 DEF Violates, registries, handlerRegistry, sinkRegistry
      <3>2. /\ HandlerRegistry!Begins(handlers[handlerList], handlers[handlerList])
            /\ SinkRegistry!Begins(sinks[sinkList], sinks[sinkList])
        BY <1>2 DEF HandlerRegistry!Begins, SinkRegistry!Begins
      <3> QED
        BY <1>5, <3>1, <3>2 DEF ReportOf
    <2>2. CASE Handle(t)
      BY <1>1, <1>3, <1>5, <2>2 DEF Handle, HandlerRegistry!Registry, quiet, ReportOf
    <2>3. CASE RunHandler(t)
      BY <1>1, <1>3, <1>5, <2>3 DEF RunHandler, HandlerRegistry!Visit, quiet, ReportOf
    <2>4. CASE Handled(t)
      BY <1>1, <1>3, <1>5, <2>4
         DEF Handled, HandlerRegistry!Finish, quiet, ReportOf, HandlerRegistry!Visited
    <2>5. CASE Log(t)
      BY <1>1, <1>3, <1>5, <2>5
         DEF Log, SinkRegistry!Registry, quiet, handlerRegistry, ReportOf,
             HandlerRegistry!Visited
    <2>6. CASE Send(t)
      BY <1>1, <1>3, <1>5, <2>6
         DEF Send, SinkRegistry!Visit, quiet, handlerRegistry, ReportOf,
             HandlerRegistry!Visited
    <2>7. CASE Sent(t)
      BY <1>1, <1>3, <1>5, <2>7
         DEF Sent, SinkRegistry!Finish, quiet, handlerRegistry, ReportOf,
             HandlerRegistry!Visited, SinkRegistry!Visited
    <2>8. CASE Abort(t)
      BY <1>1, <1>3, <1>5, <2>8
         DEF Abort, registries, handlerRegistry, sinkRegistry, ReportOf,
             HandlerRegistry!Visited, SinkRegistry!Visited
    <2>9. CASE pc'[t] \notin Failing
      BY <1>5, <2>9 DEF ReportOf
    <2> QED
      BY <2>1, <2>2, <2>3, <2>4, <2>5, <2>6, <2>7, <2>8, <2>9, StepFailing
  <1> QED
    BY <1>4, <1>5

-----------------------------------------------------------------------------
(* Switching contracts on and off.                                         *)

LEMMA SwitchStep ==
    ASSUME IInv, NEW t \in Threads, Continue(t) \/ Body(t)
    PROVE  SwitchInv'
  <1> SUFFICES ASSUME NEW u \in Threads, Switching(u)', alone'[u]
               PROVE  /\ \A v \in Threads \ {u} : ~ Switching(v)'
                      /\ \A c \in Contracts :
                            enabled'[c] = IF c < at'[u]
                                          THEN Switched(c, call'[u].glob, call'[u].kind,
                                                        before'[u][c])
                                          ELSE before'[u][c]
    BY DEF SwitchInv, SwitchOf
  <1> USE DEF IInv, TypeOK
  <1>1. /\ \A v \in Threads \ {u} : ~ Switching(v)'
        /\ alone[u] \/ ~ Switching(u)
        /\ before'[u] = IF Switching(u) THEN before[u] ELSE enabled
    BY StepMoves DEF Watch
  <1>2. CASE ~ Switching(u)
    <2>0. pc'[u] = "line" /\ pc[u] # "line"
      BY <1>2 DEF Switching
    <2>1. u = t
      BY <2>0, StepOthers
    <2>2. PICK kind \in {"off", "on", "if"}, g \in Globs : Begin(t, kind, g)
      BY <2>0, <2>1, StepSwitches DEF SwitchEnabler, Return, Goto
    <2>3. at'[u] = 1 /\ enabled' = enabled
      BY <1>2, <2>1, <2>2 DEF Begin
    <2> QED
      BY <1>1, <1>2, <2>3 DEF Contracts
  <1>3. CASE Switching(u)
    <2>1. /\ \A v \in Threads \ {u} : ~ Switching(v)
          /\ \A c \in Contracts :
                enabled[c] = IF c < at[u]
                             THEN Switched(c, call[u].glob, call[u].kind, before[u][c])
                             ELSE before[u][c]
      BY <1>1, <1>3 DEF SwitchInv, SwitchOf
    <2>2. CASE SwitchEnabler(t)
      <3>1. u = t
        BY <2>1, <2>2 DEF SwitchEnabler, Switching
      <3>2. /\ call' = call /\ at'[u] = at[u] + 1 /\ at[u] \in Nat
            /\ before'[u] = before[u]
        BY <1>1, <1>3, <2>2, <3>1 DEF SwitchEnabler, Contracts
      <3>3. at[u] \in Contracts
            /\ enabled' = [enabled EXCEPT ![at[u]] =
                              Switched(at[u], call[u].glob, call[u].kind, enabled[at[u]])]
        BY <2>2, <3>1, TurnSwitches
      <3>4. ASSUME NEW c \in Contracts
            PROVE  enabled'[c] = IF c < at[u] + 1
                                 THEN Switched(c, call[u].glob, call[u].kind, before[u][c])
                                 ELSE before[u][c]
        <4>1. c \in Nat
          BY DEF Contracts
        <4>2. CASE c = at[u]
          BY <2>1, <3>2, <3>3, <4>2
        <4>3. CASE c # at[u]
          <5>1. c < at[u] + 1 <=> c < at[u]
            BY <3>2, <4>1, <4>3
          <5>2. enabled'[c] = enabled[c]
            BY <3>3, <4>3
          <5> QED
            BY <2>1, <5>1, <5>2
        <4> QED
          BY <4>2, <4>3
      <3> QED
        BY <1>1, <3>2, <3>4
    <2>3. CASE UNCHANGED enabled /\ call'[u] = call[u] /\ at'[u] = at[u]
      BY <1>1, <1>3, <2>1, <2>3
    <2>4. CASE Return(t)
      <3>1. u # t
        BY <2>4, StepMoves DEF Return, Goto, Switching
      <3> QED
        BY <2>3, <2>4, <3>1 DEF Return
    <2>5. CASE \E kind \in {"off", "on", "if"}, g \in Globs : Begin(t, kind, g)
      <3>1. u # t
        BY <1>3, <2>5 DEF Begin, Goto, Switching
      <3> QED
        BY <2>3, <2>5, <3>1 DEF Begin
    <2> QED
      BY <2>2, <2>3, <2>4, <2>5, StepSwitches
  <1> QED
    BY <1>2, <1>3

-----------------------------------------------------------------------------
(* The theorems.                                                           *)

\* The invariant holds in every reachable state.
THEOREM Invariant ==
    Spec => []IInv
  <1>1. ASSUME IInv, [Next]_vars
        PROVE  IInv'
    <2>1. CASE UNCHANGED vars
      BY <1>1, <2>1
         DEF vars, registries, handlerRegistry, sinkRegistry, switching, history, IInv,
             TypeOK, WalksInv, ReportInv, ReportOf, SwitchInv, SwitchOf, Switching,
             HandlerRegistry!WalkOf, HandlerRegistry!Visited,
             SinkRegistry!WalkOf, SinkRegistry!Visited
    <2>2. ASSUME NEW t \in Threads, Continue(t) \/ Body(t)
          PROVE  IInv'
      BY <1>1, <2>2, TypeStep, WalksStep, ReportStep, SwitchStep DEF IInv
    <2> QED
      BY <1>1, <2>1, <2>2 DEF Next
  <1> QED
    BY <1>1, InitIInv, PTL DEF Spec

\* A violated contract is reported in full before its failure action: in every
\* reachable state a thread that has come to it has run every handler and has
\* reached every sink that was registered when it found the violation.
THEOREM ReportedBeforeFailureHolds ==
    Spec => []ReportedBeforeFailure
  <1>1. IInv => ReportedBeforeFailure
    <2> SUFFICES ASSUME IInv, NEW t \in Threads, pc[t] \in {"fail", "aborted"}
                 PROVE  /\ \A h \in Handlers :
                              HandlerRegistry!Occurrences(hSeen[t], h)
                              \in HandlerRegistry!Occurrences(due[t].handlers, h)
                                  .. HandlerRegistry!Occurrences(handlers[handlerList], h)
                        /\ checking[t] \in Message => \A s \in Sinks :
                              SinkRegistry!Occurrences(sSeen[t], s)
                              \in SinkRegistry!Occurrences(due[t].sinks, s)
                                  .. SinkRegistry!Occurrences(sinks[sinkList], s)
      BY DEF ReportedBeforeFailure
    <2>1. ReportOf(t) /\ HandlerRegistry!WalkOf(t, handlerList)
          /\ SinkRegistry!WalkOf(t, sinkList)
      BY DEF IInv, ReportInv, WalksInv
    <2>2. /\ due[t].handlers \in Seq(Handlers) /\ due[t].sinks \in Seq(Sinks)
          /\ handlers[handlerList] \in Seq(Handlers) /\ sinks[sinkList] \in Seq(Sinks)
          /\ hSnapshot[t] \in Seq(Handlers) /\ hSeen[t] \in Seq(Handlers)
          /\ sSnapshot[t] \in Seq(Sinks) /\ sSeen[t] \in Seq(Sinks)
      BY DEF IInv, TypeOK
    <2>3. /\ HandlerRegistry!Begins(due[t].handlers, hSnapshot[t])
          /\ HandlerRegistry!Visited(t)
          /\ checking[t] \in Message =>
                SinkRegistry!Begins(due[t].sinks, sSnapshot[t]) /\ SinkRegistry!Visited(t)
      BY <2>1 DEF ReportOf, Failing
    <2>4. ASSUME NEW h \in Handlers
          PROVE  HandlerRegistry!Occurrences(hSeen[t], h)
                 \in HandlerRegistry!Occurrences(due[t].handlers, h)
                     .. HandlerRegistry!Occurrences(handlers[handlerList], h)
      BY <2>1, <2>2, <2>3, HandlerRegistry!WalkVisited
    <2>5. ASSUME checking[t] \in Message, NEW s \in Sinks
          PROVE  SinkRegistry!Occurrences(sSeen[t], s)
                 \in SinkRegistry!Occurrences(due[t].sinks, s)
                     .. SinkRegistry!Occurrences(sinks[sinkList], s)
      BY <2>1, <2>2, <2>3, <2>5, SinkRegistry!WalkVisited
    <2> QED
      BY <2>4, <2>5
  <1> QED
    BY <1>1, Invariant, PTL

\* Switching calls are exact: one that no other switching call overlapped
\* leaves the matching enablers off, or on, or on with all others off,
\* whatever contracts other threads evaluate and violate in between.
THEOREM SwitchesSoundHolds ==
    Spec => []SwitchesSound
  <1>1. IInv => SwitchExact
    <2> SUFFICES ASSUME IInv, NEW t \in Threads, Returning(t), alone[t]
                 PROVE  LET on == {c \in Contracts : enabled[c]}
                            was == {c \in Contracts : before[t][c]}
                            glob == call[t].glob
                        IN  \/ call[t].kind = "off" /\ on = was \ glob
                            \/ call[t].kind = "on" /\ on = was \union glob
                            \/ call[t].kind = "if" /\ on = glob
      BY DEF SwitchExact
    <2>1. at[t] \notin Contracts /\ Switching(t)
      BY DEF Returning
    <2>2. \A c \in Contracts : c < at[t]
      BY <2>1, ContractsAssumption DEF IInv, TypeOK, Contracts
    <2>3. \A c \in Contracts :
             enabled[c] = Switched(c, call[t].glob, call[t].kind, before[t][c])
      BY <2>1, <2>2 DEF IInv, SwitchInv, SwitchOf
    <2>4. call[t].kind \in {"off", "on", "if"} /\ call[t].glob \subseteq Contracts
      BY <2>1 DEF IInv, TypeOK
    <2>5. CASE call[t].kind = "off"
      BY <2>3, <2>5 DEF Switched
    <2>6. CASE call[t].kind = "on"
      BY <2>3, <2>4, <2>6 DEF Switched
    <2>7. CASE call[t].kind = "if"
      BY <2>3, <2>4, <2>7 DEF Switched
    <2> QED
      BY <2>4, <2>5, <2>6, <2>7
  <1>2. IInv => SwitchesSound
    BY <1>1 DEF IInv, SwitchesSound
  <1> QED
    BY <1>2, Invariant, PTL
====
