----------------------------- MODULE Benchmark -----------------------------
(***************************************************************************)
(* NTH_MEASURE and NTH_TIME (test/internal/benchmark.h): a measured scope  *)
(* is run over and over by a Sampler that lives as long as the loop; each  *)
(* timed block in it has a static state that registers with the sampler    *)
(* there is when it is first come to, and collects the samples that the    *)
(* sampler reports in the end (test/internal/benchmark.cc).                *)
(***************************************************************************)
EXTENDS Naturals, Sequences, FiniteSets

CONSTANTS
    Timers,         \* the NTH_TIME blocks of the scope
    Warmups,        \* iterations that are not sampled: 10 in the code
    Iterations,     \* iterations in all: 1000010
    MaxRuns,        \* bound: how often the scope is come to
    MaxBlocks,      \* bound: blocks of one timer in a run
    Ticks           \* bound: what a block may take

VARIABLES
    run,            \* how often NTH_MEASURE was come to; each time a new Sampler
    sampling,       \* its Sampler is alive
    count,          \* count_ of its strategy
    registered,     \* samples_: the timers registered with it
    sampler,        \* of each timer: the Sampler it refers to, 0 before it has one
    ready,          \* ready_, of each timer
    samples,        \* sample_
    reports,        \* what the handlers are called with
    taken           \* history: of each timer, in this run: what its blocks took, by iteration

vars == <<run, sampling, count, registered, sampler, ready, samples, reports, taken>>
timers == <<registered, sampler, ready, samples, taken>>

Init ==
    /\ run = 0 /\ sampling = FALSE /\ count = 0
    /\ registered = <<>>
    /\ sampler = [t \in Timers |-> 0]
    /\ ready = [t \in Timers |-> FALSE]
    /\ samples = [t \in Timers |-> <<>>]
    /\ reports = <<>>
    /\ taken = [t \in Timers |-> <<>>]

\* NTH_MEASURE: the loop begins.
Measure ==
    /\ ~sampling /\ run < MaxRuns
    /\ run' = run + 1
    /\ sampling' = TRUE /\ count' = 0
    /\ registered' = <<>>
    /\ reports' = <<>>
    /\ taken' = [t \in Timers |-> <<>>]
    /\ UNCHANGED <<sampler, ready, samples>>

\* Mutant of should_sample: one iteration too few to warm up.
should_sample_early == count + 1 >= Warmups

done == count = Iterations
should_sample == count >= Warmups

\* NTH_TIME: the state is constructed when control first comes to it; ready()
\* says that the block is to be executed.
StartTimer(t) ==
    /\ sampling /\ ~done /\ ~ready[t] /\ Len(taken[t]) < MaxBlocks
    /\ IF sampler[t] # 0 THEN UNCHANGED <<sampler, registered>>
       ELSE /\ sampler' = [sampler EXCEPT ![t] = run]
            /\ registered' = Append(registered, t)
    /\ ready' = [ready EXCEPT ![t] = TRUE]
    /\ UNCHANGED <<run, sampling, count, samples, reports, taken>>

\* The strategy asked is that of the Sampler it registered with: of one that is
\* destroyed, what was count_ may hold anything.
StopTimer(t, elapsed) ==
    /\ sampling /\ ready[t]
    /\ ready' = [ready EXCEPT ![t] = FALSE]
    /\ \E sampled \in (IF sampler[t] = run THEN {should_sample} ELSE BOOLEAN) :
         samples' = [samples EXCEPT ![t] = IF sampled THEN Append(@, elapsed) ELSE @]
    /\ taken' = [taken EXCEPT ![t] = Append(@, [iteration |-> count, took |-> elapsed])]
    /\ UNCHANGED <<run, sampling, count, registered, sampler, reports>>

\* The body was executed; strategy().next().
NextIteration ==
    /\ sampling /\ ~done /\ \A t \in Timers : ~ready[t]
    /\ count' = count + 1
    /\ UNCHANGED <<run, sampling, timers, reports>>

\* ~SamplerBase: the timers registered are reported and their samples cleared.
Finish ==
    /\ sampling /\ done
    /\ sampling' = FALSE
    /\ reports' = [k \in DOMAIN registered |->
                     [timer |-> registered[k], values |-> samples[registered[k]]]]
    /\ samples' = [t \in Timers |->
                     IF \E k \in DOMAIN registered : registered[k] = t THEN <<>> ELSE samples[t]]
    /\ UNCHANGED <<run, count, registered, sampler, ready, taken>>

Next ==
    \/ Measure \/ NextIteration \/ Finish
    \/ \E t \in Timers : StartTimer(t) \/ \E elapsed \in 1 .. Ticks : StopTimer(t, elapsed)
Spec == Init /\ [][Next]_vars

-----------------------------------------------------------------------------
\* What the blocks took that came after the warm-up: those of a run are in the
\* order of its iterations, so they are what is left without the early ones.
Early(t) == Cardinality({k \in DOMAIN taken[t] : taken[t][k].iteration < Warmups})
Sampled(t) == [k \in 1 .. Len(taken[t]) - Early(t) |-> taken[t][Early(t) + k].took]

\* The static state of the timer registered with the Sampler of an earlier run,
\* and never registers again.
Stale(t) == sampler[t] \notin {0, run}

\* At the end of the loop each timer that was come to in it is reported, once,
\* with what it took after the warm-up, and no other timer is ("code executed
\* inside the scope will be measured and reported", benchmark.h:20-22); unless
\* the scope was run before and the timer come to then (internal/benchmark.h:73).
ReportsExact ==
    run > 0 /\ ~sampling =>
        LET reported == {reports[k].timer : k \in DOMAIN reports}
        IN  /\ \A t \in Timers : taken[t] # <<>> => t \in reported \/ Stale(t)
            /\ \A t \in reported : taken[t] # <<>>
            /\ Len(reports) = Cardinality(reported)
            /\ \A k \in DOMAIN reports : reports[k].values = Sampled(reports[k].timer)
=============================================================================
