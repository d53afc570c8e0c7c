# A verification project for nth

`nth` is a C++20 library: containers, a logging and a contracts library, a test
library built on them, strings, numerics, and small utilities. Most of it is
header-only and templated. This directory holds TLA+ modules that model the
parts with state worth reasoning about, TLC configurations that check them on
small instances, and TLAPS proofs of theorems about them.

Every definition is translated from the source (`src/nth/...`); `PROJECT.json`
maps each one to the lines it stands for, and lists components, runs, findings,
hazards, theorems and the mutants (below).

To check: `tlc -workers 2 -config <run>.cfg <Module>.tla` for the runs, and
`tlapm <Module>.tla` for `RegistrarSpec` (the lemmas about registries),
`RegistrarProofs`, `TextProofs`, `LoggingProofs`, `ContractsProofs`, and
`ContainersProofs`, `UtilitiesProofs` and `AnswersProofs` (which take some ten
minutes each). A run of `PROJECT.json` names its module; most
are `MC` modules, a few small ones are checked as they are.

## Inventory

| Component | State | Operations | Interacts with | What is hard, and what makes it correct |
|---|---|---|---|---|
| `registrar<T>` (`registration/`) | linked nodes of six slots, a mutex, the static `tail_` | `insert`, `registry`, an iterator | keeps log sinks and violation handlers | the iterator takes no lock while others insert: a walk must be race-free, end, and visit exactly what was registered when it began |
| log line (`debug/log/line.h`) | `enabled_` (atomic), `condition_` (a `shared_ptr`) under a spin lock | `enabled`, `enable`, `disable` | consulted by every log statement, switched by `log_verbosity_*` | mutual exclusion, no torn `shared_ptr`, the condition stored before the switch |
| logging (`debug/log/`) | the section of lines, the registry of sinks | log statements, `log_verbosity_off/_on/_if`, `register_log_sink` | glob, registrar, log line | nothing excludes anything: overlapping switching calls, sinks registered while an entry is being sent |
| contracts (`debug/contracts/`) | the section of enablers, registries of handlers and sinks, the scopes of bodies | the macros, `contract_check_off/_on/_if`, registrations | registrar, glob, log sinks | report before failing; `NTH_ENSURE` runs in destructors; `NTH_ASSERT` returns from the middle of a body; another thread aborts |
| glob (`strings/glob.h`) | a word of 32 bits | `GlobMatches` | selects lines, contracts and tests | bit arithmetic at the word's end, empty parts, `**` |
| disjoint set (`container/disjoint_set.h`) | entries of a flyweight map, each with the address of its parent | `insert`, `representative`, `join`, move, copy | flyweight map | path compression in a recursion, union by size, addresses that survive a move and not a copy |
| intervals (`container/interval*.h`) | sorted vectors of intervals, a map keyed by intervals | insertion that merges or splits | — | neighbours that touch, overlap, contain one another |
| flyweight set and map | a deque and a hash set of indices into it | insertion, lookup, move, copy | disjoint set | indices of a moved-from map; a copy assigned to itself |
| stack (`container/stack.h`) | two words, and the capacity in the buffer behind the elements | `push`, `pop`, `reserve`, copy, move, `swap`, `release` | stable container, formatters | the capacity is found by arithmetic on the other two words, for elements of any size and alignment |
| stable container (`container/stable_container.h`) | a stack of chunks | `insert`, move, iteration | stack | addresses survive growth and moves; the number of elements is computed |
| flat forest (`container/flat_forest.h`) | a vector of nodes with subtree sizes | `append_leaf`, `append_ancestor`, traversal | — | an append at the wrong index would change the trees before it |
| integer (`numeric/`) | words and a sign, in the object or in a buffer | arithmetic, comparison, printing | — | carries, borrows, normalisation, aliasing of operands |
| pointers and spans (`memory/offset_ptr.h`, `utility/ptr_union.h`, `utility/projected_span.h`) | relative or tagged addresses, a pointer and a size | conversions, relocation, cutting, iteration both ways | — | null, alignment bits, reverse iterators |
| text (`strings/text.h`, `strings/edit_distance.h`) | none | line breaking, edit distance | — | agreement with a reference definition |
| formatting (`format/`) | the placeholders of a string; the stack of open structures | `interpolate`, structural formatters, formatters of values | writers | placeholders in placeholders, separators and indentation, escapes |
| tree traversal (`algorithm/tree.h`) | an explicit stack of nodes and tags | one traversal with up to four hooks | tracing | tags are moved and taken back depending on the hooks there are and the children pushed |
| tracing (`debug/trace/`) | expressions that refer to their operands, a prefix | operators, calls, drawing | traversal, contracts, writers | an edit of the prefix is right only for what the hooks before it left |
| error propagation (`try/`) | none but the call stack | `NTH_TRY`, `NTH_UNWRAP` and the like | — | a failure is converted at each return and must stay one |
| test runner (`test/`) | counts of violations behind a mutex, the tests registered | declaring, registering and running tests | contracts, glob | registration in any order; violations by threads that outlive their test |
| fakes (`test/fakeable_function.h`, `utility/any_invocable.h`) | a callable for each thread, a closure on the heap | `with`, the end of a scope, calls | test runner | scopes put back what they found, also when a closure has been moved |
| benchmarks (`test/benchmark.h`) | samplers, static states of timers | measuring | — | a static state outlives the sampler it refers to |
| io (`io/`) | streams of the C library, the strings written to | opening, reading, writing, moving, closing | operating system | who owns a stream, what is buffered, when it is in the file |
| process, meta, types, jit, rust | — | — | operating system, compiler | system calls and computation at compile time: not modelled |

The hazards these behaviours amount to are listed line by line in
`PROJECT.json`, each with the properties that would catch it.

## Plan

Modules, in the order they are written; a module is proved about once TLC agrees.

1. *Registration* — `RegistrarSpec` (what `registry()` promises), `Registrar`
   (nodes, mutex, unlocked iterators), shown to implement it. **Done, proved.**
2. *One log line* — `LogLineSpec`, `LogLine` (spin lock, two-word
   `shared_ptr`). **Done, proved.**
3. *Logging* — `Logging` composes lines, the section and the registry of sinks,
   using `RegistrarSpec` for the registry and the granularity of `LogLineSpec`
   for the lines. **Done, proved.**
4. *Contracts* — `Contracts` composes enablers, scopes and two instances of
   `RegistrarSpec`. **Done, proved.**
5. *Globs* — `Glob`, against what a glob means. **Done, proved.**
6. *Containers* — `DisjointSet`, `Intervals`, `IntervalSet`, `IntervalMap`,
   `Stack`, `StableContainer`, `FlatForest`, composed in `MCContainers`, where a
   behaviour uses one of them. **Done, proved.**
   `FlyweightSet` and `FlyweightMap`, which extends it. **Done, proved.**
7. *Numerics, pointers and views* — `IntegerSpec`, `Integer` (words, shown to
   implement it), `OffsetPtr`, `PtrUnion`, `ProjectedSpan`. **Done, proved.**
8. *Algorithms and control* — `TreeTraversal`, `EditDistance`, `LineBreak`,
   `FilePath`, `Try`, against reference definitions. **Done, proved.**
9. *Formatting and tracing* — `Interpolation`, `Structured`, `Formatters`,
   `Trace`. **Done, checked.**
10. *Testing and files* — `TestRunner`, `Fake`, `Benchmark`, `Files`. **Done,
    proved.**

No theorem is planned for what is left to TLC: formatting and drawing are
compared with what a reader makes of them, and liveness is beyond the prover.

Sequential components share three runs. Each has initial states for each of its
components, and from there the behaviours of that component alone:
`containers` (`MCContainers`), `text` (`MCText`) and `utilities`
(`MCUtilities`). These modules INSTANCE the components and extend one of them
(`FlatForest`, `Glob`, `FlyweightMap`), so that the run checks the very
definitions the theorems are about. Their invariants are conjunctions, one
conjunct for each component, of what the modules state by name: `ElementsKept`
is that of stacks and stable containers, `TextExact` that of edit distances,
lines and paths, `ViewsExact`, `ControlExact` and `TestingExact` likewise.

## The modules

**`RegistrarSpec`, `Registrar`** (`registration/registrar.h`,
`internal/registry_node.h`). Nodes are numbered in the order they are allocated;
node 1 is `tail_`, which is static and so shared by all registrars of one type.
`insert` is split at every access to the shared nodes: `InsertLock`, `HasRoom`,
`Increment` (the slot is counted), `NewNode`, `WriteSlot`, `Unlock`. `Registry`
is one step because its whole body is under the mutex and nothing else reads the
nodes' counts. The iterator is a node and a slot; `Before` follows `operator++`
through the link in slot 0. `registered`, `snapshot` and `seen` are history.
`Capacity` is 6 in the code.

**`LogLineSpec`, `LogLine`** (`debug/log/line.h`). `condition_` is two words,
`object` and `control`, copied and assigned one after the other under the spin
lock `lock`. `Acquire` succeeds or changes nothing (`compare_exchange_weak` in a
loop). In `LogLineSpec` the condition is read and replaced at one instant, with
the switch still a separate atomic: that is what an evaluation may rely on, and
what it may not.

**`Logging`** (`debug/log/log.cc`, `sink.cc`, `internal/arguments.h`). `Load`,
`Consult`, `Snapshot`, `Send`, `Sent` are one log statement; `Begin`,
`DisableLine`, `SetConfig`/`StoreEnabled`, `SkipLine`, `Return` one call of
`log_verbosity_*`, line by line. `SwitchesSound` says that a call which no other
overlaps leaves exactly its effect. `LoggingProofs` has the proofs. A glob is
the set of lines it matches; a configuration text is one that a line's parser
accepts or not. The sinks are a `RegistrarSpec`, since `Registrar` is proved to
implement it.

**`Contracts`** (`debug/contracts`, and the `NTH_ASSERT` of
`test/internal/test.h`). A thread's `scope` holds the `NTH_ENSURE`s it has
declared; leaving a scope (`Leave`, or an assertion's early return in `Resume`)
evaluates them youngest first, one step each, with the handlers and the message
of a violation in between. `ScopesUnwind` says that a scope once left is left in
full. A violation goes through the registered handlers, the message's sinks and
the failure action. `aborted` stops the process in the middle of whatever other
threads are doing. Switching calls walk the enablers without a lock. Only builds
in which the macros expand to something are modelled; an expression is true or
false by choice. `ContractsProofs` has the proofs.

**`Glob`** (`strings/glob.h`, `internal/glob.h`). A glob is a sequence of parts
and a path one of chunks, each a sequence of characters. `toCheck` is the set of
the numbers of the bits that are set in `to_check`; `Width` is 32 in the code.
`Matches`, `Means` and `Cuts` say what a glob means without words and bits. Two
peculiarities are modelled as they are: a `*` inside a part ends the comparison
with success, and a `/` at the very end is not followed by a part.

**`DisjointSet`** (`container/disjoint_set.h` on `flyweight_map.h`). A node is an
entry and its address; values are left out, since a handle is all the operations
look at. The recursion of `representative_impl` is `Descend` (a frame deeper),
`Reach` (a root), `Compress` (a frame returns and assigns its parent); `JoinNext`
and `Link` are the rest of `join`. `Move` keeps the nodes, as a deque that is
moved does; `Copy`, in `CopySpec` only, makes new nodes with the old parents.
`subset` is history.

**`Intervals`, `IntervalSet`** (`container/interval.h`, `interval_set.h`). A set
is its vector. `Inserted` is `insert_hint`: the intervals from `LowerIter` to
before `UpperIter` become one with the new one. (Its branch for two intervals
that only touch, `interval_set.h:179`, cannot be reached: such an interval
already lies before `upper_iter`.) `+=` is a loop of `AddNext` steps with the
place to search from. `members` is history. `std::partition_point` is modelled
by the place it finds on a range that is partitioned; `Canonical` says that the
ranges are.

**`IntervalMap`** (`container/interval_map.h`). The map is a function from
intervals to values, ordered by `Below`. `Inserting` and `Joined` are the two
halves of `insert_or_assign`; `RangeContaining` is the lookup.

**`Stack`** (`container/stack.h`). `next` is `next_`, as a buffer and a number of
elements into it, and `left` is `left_`; a buffer is its size in bytes, its
elements, and the capacity with the address at which it was written. `Capacity`
reads that word where the code looks for it, and finds `None` when it is
elsewhere. `Capacities` and `Grown` are `reserve`, in bytes; `layout` is the size
and alignment of the elements. What an assignment forgets is out of reach for
good, and so out of the model. `pushed` is history.

**`StableContainer`** (`container/stable_container.h`). `chunks` is the stack of
chunks, used by what `Stack` promises, `blocks` what they point to, and
`handles` the entries `insert` has returned. `Shifted` is `1 << n`, and `Free`
the memory that `operator new` may return. `Advanced` is `operator++` of the
iterators and `Entry` the loop of `entry`.

**`FlatForest`** (`container/flat_forest.h`). `nodes` holds
the subtree sizes; the values make no difference. `AppendAncestor`, `SkipTree`
and `Adopt` or `Refuse` are one call of `append_ancestor` with the loop of
`IsValidCutpoint`, as it is with the debug checks. `Siblings` is what a
`sibling_iterator` visits. `parents` is history.

**`ContainersProofs`** extends `MCContainers` and holds the proofs about all
containers but the flyweight ones.

**`UtilitiesProofs`** and **`AnswersProofs`** extend `MCUtilities`, which extends
`FlyweightMap`. The first holds the proofs about the test runner, fakes,
benchmarks, views, files, traversals and the macros that leave a function; the
second those about what answers for its contents: flyweight sets and maps, and
integers.

**`FlyweightSet`** (`container/flyweight_set.h`). `values` is
the deque of each set as the addresses of its elements, `memory` what they hold,
and the indices in the hash set are what the external hash set holds; `pointers`
is history: what was handed out and for which value. A copy is a loop of
`insert`s, one step each (`FillNext`, `FillEnd`). `InsertIn` finds before it
appends. A set assigned to itself is left out: by copy it is cleared first.

**`FlyweightMap`** (`container/flyweight_map.h`). The code repeats that of the
set with keys; each operation here is that of `FlyweightSet` with what it does to
the mapped values.

**`IntegerSpec`, `Integer`** (`numeric/integer.h`, `integer.cc`). A word is a
pair of digits and has `Base` values instead of 2^64, so that every carry and
borrow happens. `AddWords`, `SubWords`, `AddWord` and `SubWord` are the loops
over words, with the pointer they return as a number; `Sum`, `SlowMul` and
`Digits` are built from them. What a debug build refuses aborts (`Abort`):
`SlowMul` that carries out of two words, and `SubWord` on words that end in 0.
`Next` makes every call with any arguments, those included of which the result
is wrong: `integer()` leaves `sign_` as memory was, the copy assignment of more
than two words leaves what fresh memory holds (`Copied`, words of `Memory`), the
cast of the lowest number may be anything (`ToSigned`). The history variable
`sure` has the objects that no such call has set, or set from what was not sure;
every action says when its result is (`Stores`), and the properties speak of
those objects. What may leave `sure` is not for `Integer` alone to say:
`IntegerSpec` has `sure` too, and promises that constructions from numbers,
moves, negations, increments, products with factors from -1 on, sums of numbers
of like sign and copies of numbers below `Limit` (two words) keep it.
`integer_subtract` asks what sums would be right for all numbers (`SumExact`).
`Magnitude` reads words from the highest down, and what `IntegerSpec` calls
numbers are all of `Int`.

**`OffsetPtr`, `PtrUnion`, `ProjectedSpan`.** Addresses are numbers below a
bound, with the code's arithmetic: modulo the size of the address space for
`offset_ptr`, and modulo the smallest alignment, a power of two, for the mask that
takes the tag of a `PtrUnion`. `Or` is `|`, bit by bit; `Admitted` is the
`static_assert`, which admits more types than the mask has values for, and `Masked`
says of which types it has one. `Relocate` moves the
bytes of an `offset_ptr` with what it points to. A span is a pointer and a size;
its iterators are places, those that run backwards one behind what they refer to.

**`TreeTraversal`** (`algorithm/tree.h`). `Call` takes a tag from the stack and
calls its hook, `Visit` visits a node, which pushes its children, and rearranges
what it pushed (`Arranged`) if there is a hook for last children. `Expected` is
the recursive order.

**`Trace`** (`debug/trace/internal/trace.h`). `Construct` is the constructor of a
traced expression, which keeps references to its operands; the low bit of a
reference says that it is a plain value. An expression holds a value or a
reference to one; `Member` takes its operand for a holder of a reference if it is
an lvalue and for a holder of a value if it is an rvalue (`Taken`), and where it
is mistaken reads an address that may be anything (`ValueAt`). `Operands` are what
an expression was built from in truth. The four hooks edit `prefix`; a removal
of more than there is throws. `Drawing` draws the tree recursively.

**`Interpolation`, `Structured`, `Formatters`** (`format/`). `Populate` is
`populate_tree`, brace by brace from the right; `WriteValue` writes up to a
placeholder and the value. `Structured` is the stack of calls a value makes to a
JSON or a C++ formatter. `Formatters` writes characters by their kinds; for
integers, bytes and pointers, digit by digit, and a string can be read back from
what is written.

**`EditDistance`, `LineBreak`, `FilePath`.** The loops of
`LevenshteinDistance` with its single row, of `GreedyLineBreak` called until
nothing is left (a step for each word: `NextWord` goes on, `Full` and `End`
return), and of `try_construct` part by part, against what the results mean: the
fewest edits over all alignments, the latest place to break, and the directory a
way leads to, read character by character (`Way`).

**`Try`** (`try/internal/try.h`). A frame is a running function with the
statement it stands in; a type is that of a return value. `transform_return`
converts a failure, `Leave` returns it. `Swallows` names the conversions that
make a success of a failure.

**`TestRunner`** (`test/`). Declarations run in any order and register tests and
pairs of an invocation and a test it matches. An invocation is a coroutine, which
yields arguments, awaits generators, returns or throws. Threads it starts may
violate contracts after its end. `before`, `failure_count` and the verdicts are
those of `main`.

**`Fake`, `Benchmark`** (`test/`). An `any_invocable` is its three words,
with closures on a heap; `with` keeps what was there in a resetter. A timer's
state is static: it registers with the sampler of the run in which it is first
come to, and in later runs is `Stale`: measured, and in no report.

**`Files`** (`io/`). A stream has a position, a buffer and the file; the
functions of the C library are external, may take less than they are given and
may fail, each of them: `WritesOut` is `fflush` or `fclose`, which on a failure
writes part of the buffer and keeps or drops the rest. What the code makes of a
failure is modelled as it is: `Flush` tells nobody, `DestroyWriter` aborts,
`Close` leaves the handle set to a stream that is closed, `SizeStays` is a
`size()` that does not come back, and a `Reserve` whose seek fails aborts.
`faulty` has the streams of which a call failed. A `file_reader` is copied
(`CopyReader`), and then two read one stream; `MoveFile` onto a handle that is
set aborts. `Reserve` and `ReadReserved` are `write_from` into a string.

The run `contracts` takes `FocusedSpec` of `MCContracts`, in which a behaviour
either registers handlers and sinks or makes switching calls: the two share no
state but the enablers, and together would not finish.

| Run | Instance | Shows |
|---|---|---|
| `registrar` | 2 threads, nodes of 2 slots, 5 insertions, 3 nodes | walks exact, race-free, ending; implements `RegistrarSpec`; the proofs' invariant |
| `registrar_shared` | 2 registrars of one type | **violation**: a walk of one visits items of the other |
| `log_line` | 3 threads, 2 conditions | exclusion, no torn condition, lock returned; implements `LogLineSpec` |
| `logging` | 2 threads, 2 lines, 2 calls, 1 statement, 2 registrations | switching exact when not overlapped; verdicts justified; delivery to sinks |
| `contracts` | 2 threads, 4 contracts, scopes of 2 `NTH_ENSURE`s; 2 contracts come to, 2 handlers, 1 sink; or 3 contracts; or 3 switching calls (or 2 and 1 contract) | report complete before the failure action; scopes left in full, whatever is found on the way; violations abort; switching exact when not overlapped |
| `text` | all globs of up to 3 parts, paths of up to 4 chunks, a word of 4 bits; expressions of 3 nodes; interpolation strings of 7 characters; structures two deep, one deeper; all strings of 4 characters, all bytes; words of 3 characters, texts of 8, names of 7 | globs answer what they mean, word by word; drawings, formatted values, distances, lines and paths are those of the reference definitions |
| `containers` | disjoint sets of 4 nodes; interval sets and a map with bounds 0..4; 2 stacks of up to 2 elements of 3, 8 and 16 bytes; 2 stable containers of up to 4 elements; a forest of 6 nodes | one root per subset at every step, balance, termination; interval sets exact, also amid `+=`; free insertions in a map exact; a stack's words and buffer agree and its elements are kept; addresses stable and iteration exact; trees read back as built |
| `disjoint_copy` | one element and its copy | **violation**: a copy answers with an element of the original |
| `map_assign` | bounds 0..4 | **violation**: an interval that begins with an entry and ends before it leaves overlapping entries |
| `map_lookup` | bounds 0..4 | **violation**: the first key of an entry that touches another is not found |
| `integer_subtract` | words of 4 values, up to 3 of them | **violation**: 16 + -2 loses a word |
| `utilities` | 2 maps of 2 keys; 2 integers of 3 words and 3 calls; all trees of 4 nodes; spans of 4 cells; 3 pointers among 16 addresses; unions of up to 5 types, one of them with more types than the mask has values; 4 functions deep; 3 tests and 2 invocations; 2 threads with 2 open fakes; 2 timers, 2 runs; 2 writers, 2 readers, 2 files, 2 streams | index, values and pointers of flyweight sets agree, integers implement `IntegerSpec`, whatever the calls, views refer to what they should, traversals are in order and end, failures arrive, verdicts and exit codes are justified, files hold what was written where no call failed |

*Bounds.* Two slots a node and five insertions fill two nodes and start a third
while a walk stands in any of them; the proof covers every capacity, six too.
Three threads at a line are two that contend and one that is overtaken. Two
lines or two enablers of each kind are one that matches a glob and one that does
not, and four contracts are one of each category; two `NTH_ENSURE`s and an
`NTH_ASSERT` are an assertion that fails and a scope of two to leave, either of
which may be violated. One word bit fewer, as many,
and one more than the chunks of a path all occur in `text`. Four nodes give the
deepest tree that union by size makes of four elements (depth two), on which path
compression changes something. Five bounds leave room for three intervals that
touch, overlap, contain one another, or stand apart, and for empty ones.
Elements of 3, 8 and 16 bytes are packed before a word that must be aligned, as
large as it, and aligned more strictly than it; the second element of the larger
ones makes a buffer grow, and reserving three takes each branch of `reserve`.
Four elements fill two blocks and begin a third. Six nodes make forests in which
a walk skips several trees and may stop at, before and within a tree.
Three words are one more than an integer keeps in the object, and two values of
fresh memory are the lowest and the highest word. Four nodes of a
tree make a node with two children of which either has children, and nodes
pushed by two. Three nodes and three arguments of a call give every arrangement
of arguments with and without operands. Seven characters of an interpolation
string are two placeholders side by side in a third, and text. A buffer of six
characters, instead of 256, puts the depth at which indentation needs a whole
buffer within reach. Texts of eight characters have three words and more
whitespace than one; names of seven have a directory, its parent and another.
Two runs of a measured scope are the one a timer registers in and one after it.
Unions of one, two and four types, of least alignment 1, 2 and 4, use every value
of the mask, three aligned to 4 and five aligned to 8 leave some, and five aligned
to 4 are one too many. Two readers and two streams are a copy and a stream of its
own; two files are one moved from and one moved to.
Every bound is a CONSTANT that appears in a guard (`MaxInserts`, `MaxNodes`,
`MaxCalls`, `MaxEntries`, `MaxSinks`, `MaxHandlers`, `MaxChecks`, `MaxScope`,
`MaxKey`, `MaxElements`, `MaxReserve`, `MaxBuffers`, `MaxInserted`, `MaxTrees`,
`MaxRange`, `MaxWords`, `Memory`, `MaxDepth`, `MaxArguments`, `MaxExpressions`,
`MaxViolations`, `MaxThreads`, `MaxScopes`, `MaxRuns`, `MaxBlocks`, `Ticks`,
`MaxStreams`, `MaxLength`) or a set of inputs in an MC module.

*Fairness.* Weak fairness of a thread that is inside a call (`Continue`): the
operating system runs it again. Nobody is obliged to begin a call, a walk or a
statement. Nothing is assumed of a spin lock beyond that: whoever spins may lose
every race, and `LockReleased` only says that a lock that is held is given back.
The containers are sequential; one thread runs a call to its end, and a
traversal goes on while its stack is not empty (weak fairness of `Step`, for
`TraversalEnds`).

*Deadlock* is checked except where a behaviour really stops: a process that has
aborted, a function that has returned, or a program whose bounded calls are all
made (the configurations say so).

*Mutants.* For every property a module holds a variant of a definition, marked
`Mutant of ...`, that makes a mistake the code could have made; with it in place
of the original, the run finds the property violated. The modules never use them.

## What is proved

`tlapm` checks every leaf; the constants are arbitrary up to the named
assumptions in the modules.

- `RegistrarProofs`, under `OneRegistrar` (a type has a single registrar, which
  is how the library uses them; without it `registrar_shared` fails):
  `Invariance` of `IInv`, and from it `TypeCorrect`, `WalksAreExact`,
  `WalksDoNotRace` and `Implementation` (of `RegistrarSpec`). `SnapshotExact` is
  not inductive: the argument needs that every node but the newest is full
  (`ListInv`), that slot *i* of node *n* holds the item number
  *(n - 1) Capacity + i* (`ContentsInv`), and that what a walk has seen plus
  where it stands is its snapshot (`WalkInv`).
- `TextProofs`, of log lines: `Invariance`, `MutualExclusion`, `ConditionsAreWhole`,
  `SwitchedOnLast`, `Implementation` (of `LogLineSpec`). The invariant adds that
  the lock is taken exactly while somebody is in a critical section, and which
  of the two words may disagree where.
- `TextProofs`, of the globs that pick lines: `GlobInvariance`,
  `GlobTypeCorrect`, `ExactWord`, `MatchesWhatItMeans`. The step that matters is
  that the prefixes matched by one more part are computed from those matched by
  the parts before it (`OneMorePart`).
- `TextProofs`, of other texts: `TextExactHolds`, under `TextsAssumption` (strings
  are sequences, widths are numbers).
  - *Edit distances*. `DistInv`: up to where the loop has come the row has the
    distances from one more character of the longer string, and behind it those
    from one less. The distance is over all alignments of two strings; that it
    follows from the distances of three shorter pairs (`NextDistance`) is because
    the last characters are aligned with one another or one of them with none
    (`AlignedHow`).
  - *Lines*. `LineInv`: what was returned is exact and what is left is the end of
    the original; in a call (`InCall`) the words up to `last_word_end` fit, so that
    the next to end (`NextEnd`) is the last that fits or the first that does not.
  - *Paths*. `PathInv`: the path is the last directory of the way through the
    characters read so far. The way is a recursive function; what it makes of each
    character (`WayAt`) is shown of the function it is by a least counterexample.
    That `..` finds the directory before in the text of the last one rests on a
    name holding no slash (`LastSlash`).
- `RegistrarSpec` states lemmas about registries that `Logging` and `Contracts`
  both use: what an insertion, a snapshot and a visit do to the walks under way
  and to how often an item occurs in what a walk has seen.
- `LoggingProofs`, under `LinesAssumption` (a line's default parser takes every
  text; no text is the one of a line without condition): `Invariant`, and from it
  `DeliveryHolds`, `SwitchesSoundHolds` and `VerdictJustifiedHolds`. `Delivery`
  compares what sinks have with what was registered when a statement ended its
  look at the registry; inductive it becomes with the walk between (`SentInv`:
  what a statement has sent is what its walk has seen), with entries belonging to
  one statement each (`EntriesInv`), and with what a statement has seen of its line
  (`SawInv`). `SwitchesSound` speaks of a call's end; `SwitchInv` says how far an
  undisturbed call has come, line by line.
- `ContractsProofs`, under `ContractsAssumption`: `Invariant`, and from it
  `ReportedBeforeFailureHolds` and `SwitchesSoundHolds`.
  `ReportInv` says for every stage of a violation which handlers and sinks have
  been reached: all those of a snapshot that the walk has left behind
  (`WalksInv`).
- `ContainersProofs`, under `ContainersAssumption` (`None` is none of the values
  it stands beside, and a word has 4 or 8 bytes); the bounds are any numbers.
  - *Flat forests* (`TreesNest`, `RefusesRightly`, `TreesReadBack`). `Laminar`
    alone is not inductive: that an append cuts no tree in two rests on the walk
    having stopped where no subtree reaches across (`WalkOnRoots`), and that each
    turn of the walk keeps this rests on `Laminar`. `TreesExact` compares with the
    parents that were meant (`ParentsInv`). What the sibling iterator visits is a
    recursive function; its solution is written down, and shown to be its only
    one by a least counterexample.
  - *Disjoint sets* (`SubsetsSoundHolds`, and `RootsKept` in `StepsExactHolds`).
    The invariant says that a node's parent is in its subset (`Partition`), that
    every subset has one root (`Headed`), that a parent heads at least twice as
    many elements as its child and the number it keeps is that of the elements
    (`Weighed`), and what each frame of a recursion under way may rely on
    (`CallInv`). That a node may be compressed to a root it does not yet point to
    rests on both being in one subset all along.
  - *Interval sets* (`RangesExactHolds`). `VectorsInv`: sorted, with gaps, and
    the keys of the intervals are those that were added. `AddingInv` says what the
    loop of `+=` has added, and why the place where an insertion left off is one
    from which the next search finds what it would from the beginning. `length`,
    a sum over intervals, is a cardinality.
  - *Interval maps* (`BoundsStayInOrder`, `StepsExactHolds`): bounds are in order
    in every state; that an insertion among free keys changes no other key holds
    of each step by the neighbours it may merge with.
  - *Stacks* (`ElementsKeptHolds`). `StackInv`: a stack has no buffer, or one
    whose size, whose capacity and the address it was written to, and whose
    elements fit the two words (`Held`, `Filled`), and no two hold one
    (`Separate`), nor shares one with what `release` returned. That sizes, which
    are rounded by bit operations, leave room for the elements and the capacity
    (`BufferRoom`, `FirstRoom`, `GrowthRoom`) is proved for the three layouts and
    words of 4 and 8 bytes.
  - *Stable containers* (`ElementsKeptHolds`). `StableInv`: the i-th chunk has
    room for 2^(i-1) elements, all but the last are full and none behind the first
    is empty, chunks share no blocks, and entries and filled places correspond. An
    index determines a chunk and a place in it (`Spot`), from which follow the
    number of elements and where a loop of `operator++` comes to. Numbers are
    unbounded: the code's `1 << size` is an `int`, right up to 30 chunks.
  - Induction is by least counterexample (`Least`), from the library's theorem
    that strict inclusion of finite sets is well-founded (`Smallest`).
- `UtilitiesProofs` and `AnswersProofs`, under `FlyweightAssumption`,
  `UtilitiesAssumption` and `DigitAssumption` (what is not a value, an index or
  a name is none of them, an index because `end_index()` is the largest
  `size_t`, `flyweight_set.h:172`; alignments divide one another; null is no
  address of a pointer; a word has an even number of values, so that half of
  them are those of a signed number). In a behaviour of `AnySpec` one component
  steps (`OneSteps`), so each has an invariant of its own.
  - *Flyweight sets* (`Invariance`, `KeysDistinct`, `PointersStay`), for any sets,
    values and addresses. That an address is in one place (`OnePlace`) and that
    the index has every place (`IndexComplete`) are what makes `InsertIn` keep the
    values distinct; pointers stay right because a deque moves nothing when it
    grows, and a move takes all of it.
  - *Flyweight maps* (`MapInv`, in `AnswersSoundHolds`). A map moves its keys as a
    set does (`MapIsSet`), so that the set's invariant holds of it; to it `MapInv`
    adds that `contents`, what the calls have put in, agrees with what lies at the
    keys (`Agrees`, `Present`), and that a copy under way has the pairs it has
    passed and still has the rest before it, in order. From the set's `Distinct`
    and `IndexComplete` follow the answers of `find` and `index`: the least index
    at which a value lies is the only one.
  - *Integers* (`AnswersSoundHolds`, `ImplementsSpecHolds`), for words of any
    even number of values and any number of them, and for every call with any
    arguments. `NumbersInv`: every object that is `sure` holds the one
    representation of its number (`Canonical`: no zero on top, no sign of 0, the
    room its words need), which is what keeps `SubWord` and `SlowMul` exact of
    it; of the others nothing is said, and a call that uses one leaves its
    result out of `sure`. That each action is one that `IntegerSpec` allows is
    `CallStep`; that numbers below `Limit` have two words at most, and that
    numbers of like sign have like `sign_`s unless one is 0, are `FewWords` and
    `AlikeAdd`. The loops over words are recursive functions; what they keep is
    stated word by word, with the carries or borrows as witnesses (`Carries`,
    `Borrows`), and added up by an induction (`Upwards`, by least
    counterexample): words that carry are worth what went in (`ValueCarried`,
    `ValueBorrowed`), the worth is linear (`ValueLinear`), and zeros on top are
    worth nothing (`ValuePadded`). That `AddWords` computes its carry from a sum
    that may have wrapped is `CarryStep`; that the complement of a difference
    that went below 0 is what is taken back is in `UnlikeSignsIs`. A product
    goes word by word with the high half carried on (`ProductIs`), comparison is
    decided by the highest word that differs (`MagnitudesByWord`), and a numeral
    is printed from the highest word down (`TextGrows`).
  - *The test runner* (`RunnerInv`, in `TestingExactHolds`). In whichever order
    initialization comes past them, the registry lists just what is due of the
    names so far (`Registration`, with `Due`), once each. A verdict compares two
    counts; that it is about the test rests on every failure since the test began
    being its own or of a thread of an earlier one (`Blamed`).
  - *Fakes* (`FakeInv`): what a scope is to put back is what the one around it
    installed, and the outermost puts back nothing (`InPlace`).
  - *Benchmarks* (`BenchmarkInv`): the timers registered with the sampler there is
    are those that refer to it (`Registered`), and have collected just what came
    after the warm-up (`Collected`). Of timers that refer to an earlier one the
    theorem says nothing (`Stale`).
  - *Views* (`ViewsExactHolds`): a distance modulo the address space leads back
    (`ThereAndBack`) and distances add up (`OffsetsAdd`); the smallest alignment
    divides every address (`UnionAligned`), so that an index below it has no bit
    in common with the address (`OrAligned`, `|` adds them) and the remainder is
    the tag; of types past the mask nothing is said (`Masked`). Of the
    alignments, which are those of `MCAlignments`, the proof uses only that they
    are powers of two and admitted by the `static_assert`. The iterators of a
    span are as far from where they began as they were advanced (`SpanInv`).
  - *Files* (`FilesExactHolds`), whichever calls of the C library fail.
    `FilesExact` is about streams that nobody disturbs and of which no call
    failed, and about who owns any stream; to keep it `FilesInv` adds which kind
    of stream each object has and whether it is open (`Owned`), that no two open
    streams of one file interfere unless the file counts as spoiled (`Alone`),
    that a writer stands at the end of its file and a reader within (`InFile`;
    the position also of a stream that failed), and what a reserving string may
    still expect (`Reserved`). That a writer and a file are each the only one of
    their stream is shown of every move and open; a reader and its copies are
    not, and need not be: what they read is the stream's (`got`).
  - *Traversals* (`TraversalsFollow`, and `ControlExactHolds` for the trees of the
    run). The documented order is the recursive function `Below`; that it exists
    and is what it says at each node (`BelowExists`, `BelowUnfolds`) follows from
    nodes coming before those they push (`Numbered`), the only assumption on the
    tree, which may have any size and share subtrees. `TreeInv`: the calls made,
    then what the stack stands for from its top (`ToCome`), are the documented
    order. A visit keeps it because what it pushes stands for what is documented
    below the node (`ArrangedToCome`), tags included.
  - *Failures on their way* (`TryInv`, in `ControlExactHolds`), for any errors,
    depths and numbers of calls: `FailuresArrive` is inductive once every frame is
    linked to what was called in it (`Chained`, `Linked`): a call that is no
    operand of a macro returns void, and so cannot fail, and a function that tries
    returns what the failure converts to.

*Only model-checked*: drawings and formatting (`TraceExact`, `FormattingExact`),
which compare what was written with what a reader makes of it, by folds over
texts; and all liveness (`WalkEnds`, `LockReleased`, `EventuallyLogged`,
`ScopesUnwind`, `ViolationAborts`, `CallsReturn`, `TraversalEnds`), which is out
of the prover's reach, as is ENABLED.

## What is not modelled

The components above that are marked so in `PROJECT.json`, each with its reason.
Of the modelled ones: the wording of log entries and messages; builds without
contracts; the refusal of globs of 2^16 characters; destructors, handlers and
sinks that call back into the library (they are user code and take no steps
here); `interval_map::covers`, which never looks at the end of the last entry,
and `interval_set::covers` of another set, which does not compile when used; a
stack assigned to itself and the reference `emplace` returns, which are
undefined; the `+` of sibling iterators, which does not return; the order in
which static initialisers run, but for the registration of tests; a flyweight
set assigned to itself; `projected_span`'s `+=` and `-=` of iterators, which do
not compile; strings joined from interpolation strings, whose placeholders are
never found; the comparison of an integer with a number of another type;
real-time clocks, whose readings are any numbers; characters whose value is
negative, for which `std::isprint` (`format/common_formatters.h:164`) and
`std::isspace` are undefined. A few exceptions are part of properties, and named
there: drawings of a call whose argument, with operands of its own, is followed
by one that is not the last (`Skewed`, `debug/trace/internal/trace.h:150`);
values so deep that a line is indented by a whole buffer (`TooDeep`,
`format/common.h:30`, which writes an array of characters as if it were a
terminated string); conversions by which a failure becomes a success
(`Swallows`, `try/internal/try.h:57`); values at odd addresses (`Aligned`); and
a stream that a move assignment drops without closing it
(`io/writer/file.h:34`). More of these exceptions are the code's own mistakes,
modelled as they are:

- `AllTaken` (`debug/trace/internal/trace.h:440-443`, `454-456`): a member
  function called on a variable that holds a computed value reads the value as an
  address, and called on a temporary that holds a reference reads the address as
  the value.
- `Masked` (`utility/ptr_union.h:27`): `1 << (alignment - 1)` admits unions of more
  types than the mask has values for, five types aligned to 4 for instance; a
  pointer to the fifth is taken for one to the first.
- `Stale` (`test/internal/benchmark.h:73`): when a measured scope is run again,
  its timers refer to the sampler of the first run, which is destroyed; nothing of
  theirs is reported again.
- `faulty` (`io/`): a failed flush is told to nobody (`writer/file.cc:20`), so
  that a writer goes on as if all were written; `size()` ignores a failure to come
  back (`file.cc:31`); a file whose close fails keeps a handle that is closed
  (`file.cc:38-40`), which may then neither be used nor closed nor destroyed.
- `sure` (`numeric/`), the calls after which an integer may be wrong: `integer()`,
  whose `sign_` is not set (`integer.h:27`); what a negative number was moved from,
  a negative 0 (`integer.cc:155-160`, `177-184`), and what is moved to itself, which
  loses its words; `from_words` with a 0 on top (`integer.cc:207-232`); copy
  assignment of more than two words, which copies the new buffer to itself
  (`integer.cc:169-172`); products with factors below -1, which are made with the
  unsigned number of the same bits (`integer.h:76-78`); and sums of unlike signs
  (`Exact`) in which the number with fewer words has one of the highest value, so
  that `word + borrow` may wrap (`integer.cc:69-80`), or in which one number has at
  least two words more than the other, so that a borrow may use up the last word
  (`integer.cc:34`). The cast of the lowest number of a signed type is undefined
  (`integer.h:105`).

`TemporaryFile`, the streams of the process and the use of a writer that was
moved from are not modelled.

Disagreements between the code and its comments that no run shows: a violation
handler is described as "executed any time an expectation is evaluated"
(`debug/contracts/violation.h:43`, similarly `test/test.h:118-119`) and runs
only when the expectation fails; `log_verbosity_if` "Enables the log lines whose
verbosity path match the glob" (`debug/log/log.h:53-54`) and skips those whose
parser rejects the text; a `*` inside a part of a glob does not behave as the
"standard wildcards" of `strings/glob.h:12-14`; a path of 32 chunks is accepted
although "At most 32 sections" (`strings/glob.h:31`) leaves no bit of the word
for its end; `reserve(n)` of a stack, which should reserve "enough capacity to
store at least `n` elements" (`container/stack.h:96`), may leave room for fewer,
five 4-byte elements for instance (`stack.h:279`); `tests_passed` of the runner
(`test/main.cc:77`) stays 0, so that the summary says that no test passed;
member functions "can support expression tracing provided the underlying object
is traced" (`debug/trace/trace.h:35-36`), which they do of a holder of the
expected kind (`AllTaken`, above); code in the scope of a timer is "measured as
accurately as possible and reported" (`test/benchmark.h:20-22`) in the first run
of the scope only (`Stale`); after a file is moved from, "`static_cast<bool>(f)`
is guaranteed to be true" (`io/file.h:34-39`), and it is false; the
`static_assert` of `utility/ptr_union.h:27` does not say what the mask needs
(`Masked`); and `covers` of an interval map, above.
