---------------------------- MODULE MCContracts ----------------------------
(* Small instances of Contracts for TLC: one contract of each category, the *)
(* first and the third with a message.                                     *)
EXTENDS Contracts

MCCategory == <<"NTH_REQUIRE", "NTH_ENSURE", "NTH_EXPECT", "NTH_ASSERT">>
MCMessage == {1, 3}
MCGlobs == {{1}, {2, 3}}

\* Bound: a behaviour registers handlers and sinks and comes to two contracts,
\* or it comes to as many as MaxChecks with none registered, or it switches
\* contracts on and off and comes to one at most.
Focused ==
    LET unregistered == handlers[handlerList] = <<>> /\ sinks[sinkList] = <<>>
    IN  \/ calls = 0 /\ (checks <= 2 \/ unregistered)
        \/ unregistered /\ checks + calls <= MaxCalls /\ checks <= 1

FocusedNext == \E t \in Threads : Continue(t) \/ (Body(t) /\ Focused')

FocusedSpec ==
    Init /\ [][FocusedNext]_vars /\ \A t \in Threads : WF_vars(Continue(t))
=============================================================================
