----------------------------- MODULE TextProofs -----------------------------
(***************************************************************************)
(* Proofs about what reads text, and about the switch of a log line.  What *)
(* reads text: Glob, which picks lines by their names, EditDistance,       *)
(* LineBreak and FilePath, of MCText.  The switch: LogLine, which keeps    *)
(* the condition of a line that was picked.                                *)
(***************************************************************************)
EXTENDS MCText, LogLine, SequenceTheorems, FiniteSetTheorems, WellFoundedInduction, TLAPS

-----------------------------------------------------------------------------
(* Globs, for words of any width and for any globs and paths: the word of  *)
(* bits is exact, and GlobMatches returns what the glob means.             *)
(*                                                                         *)
(* A cut of the path for the first m parts is a cut for the first m - 1,   *)
(* with one more piece (LEMMA OneMorePart): that is the step of the loop.  *)

\* What the assumptions say of a glob and a path.
LEMMA InputsRight ==
    ASSUME NEW g \in Globs, NEW c \in Paths
    PROVE  /\ Len(g) \in Nat \ {0}
           /\ Len(c) \in Nat \ {0}
           /\ Parts(g) \in 0 .. Len(g)
<1>1. /\ g \in Seq(Seq(Characters)) /\ g # <<>>
      /\ c \in Seq(Seq(Characters)) /\ c # <<>>
  BY InputAssumption
<1>2. Len(g) \in Nat \ {0} /\ Len(c) \in Nat \ {0}
  BY <1>1
<1> QED
  BY <1>2 DEF Parts

\* No part matches no chunk, and nothing else.
LEMMA NoPart ==
    ASSUME NEW g, NEW c, Len(c) \in Nat, NEW i \in 0 .. Len(c)
    PROVE  Matches(g, c, 0, i) <=> i = 0
<1>1. ASSUME i = 0 PROVE Matches(g, c, 0, i)
  <2> DEFINE cut == [j \in 0 .. 0 |-> 0]
  <2>1. cut \in Cuts(g, c, 0, i)
    BY <1>1 DEF Cuts
  <2> QED
    BY <2>1 DEF Matches
<1>2. ASSUME Matches(g, c, 0, i) PROVE i = 0
  BY <1>2 DEF Matches, Cuts
<1> QED
  BY <1>1, <1>2

\* A path is cut for one more part by adding one piece to a shorter cut.
LEMMA OneMorePart ==
    ASSUME NEW g, NEW c, Len(c) \in Nat, NEW i \in 0 .. Len(c),
           NEW k \in Nat, NEW m \in Nat, m = k + 1
    PROVE  Matches(g, c, m, i)
           <=> \E j \in 0 .. Len(c) : /\ Matches(g, c, k, j)
                                      /\ PieceMatches(g[m], c, j, i)
<1>1. ASSUME Matches(g, c, m, i)
      PROVE  \E j \in 0 .. Len(c) : /\ Matches(g, c, k, j)
                                    /\ PieceMatches(g[m], c, j, i)
  <2>1. PICK cut \in Cuts(g, c, m, i) : TRUE
    BY <1>1 DEF Matches
  <2>2. /\ cut \in [0 .. m -> 0 .. Len(c)]
        /\ cut[0] = 0 /\ cut[m] = i
        /\ \A j \in 1 .. m : PieceMatches(g[j], c, cut[j - 1], cut[j])
    BY <2>1 DEF Cuts
  <2> DEFINE short == [j \in 0 .. k |-> cut[j]]
  <2>3. cut[k] \in 0 .. Len(c)
    BY <2>2
  <2>4. short \in Cuts(g, c, k, cut[k])
    <3>1. short \in [0 .. k -> 0 .. Len(c)] /\ short[0] = 0 /\ short[k] = cut[k]
      BY <2>2
    <3>2. \A j \in 1 .. k : PieceMatches(g[j], c, short[j - 1], short[j])
      <4> TAKE j \in 1 .. k
      <4>1. j \in 1 .. m /\ j \in 0 .. k /\ j - 1 \in 0 .. k
        OBVIOUS
      <4>2. short[j] = cut[j] /\ short[j - 1] = cut[j - 1]
        BY <4>1
      <4> QED
        BY <4>1, <4>2, <2>2
    <3> QED
      BY <3>1, <3>2 DEF Cuts
  <2>5. PieceMatches(g[m], c, cut[k], i)
    <3>1. m \in 1 .. m /\ m - 1 = k
      OBVIOUS
    <3> QED
      BY <3>1, <2>2
  <2> QED
    BY <2>3, <2>4, <2>5 DEF Matches
<1>2. ASSUME NEW j \in 0 .. Len(c), Matches(g, c, k, j), PieceMatches(g[m], c, j, i)
      PROVE  Matches(g, c, m, i)
  <2>1. PICK cut \in Cuts(g, c, k, j) : TRUE
    BY <1>2 DEF Matches
  <2>2. /\ cut \in [0 .. k -> 0 .. Len(c)]
        /\ cut[0] = 0 /\ cut[k] = j
        /\ \A n \in 1 .. k : PieceMatches(g[n], c, cut[n - 1], cut[n])
    BY <2>1 DEF Cuts
  <2> DEFINE long == [n \in 0 .. m |-> IF n = m THEN i ELSE cut[n]]
  <2>3. long \in Cuts(g, c, m, i)
    <3>1. long \in [0 .. m -> 0 .. Len(c)] /\ long[0] = 0 /\ long[m] = i /\ long[k] = j
      BY <2>2
    <3>2. \A n \in 1 .. m : PieceMatches(g[n], c, long[n - 1], long[n])
      <4> TAKE n \in 1 .. m
      <4>1. CASE n = m
        <5>1. n - 1 = k
          BY <4>1
        <5> QED
          BY <5>1, <4>1, <3>1, <1>2
      <4>2. CASE n # m
        <5>1. n \in 1 .. k /\ n - 1 \in 0 .. m /\ n - 1 # m /\ n \in 0 .. m
          BY <4>2
        <5>2. long[n] = cut[n] /\ long[n - 1] = cut[n - 1]
          BY <5>1, <4>2
        <5> QED
          BY <5>1, <5>2, <2>2
      <4> QED
        BY <4>1, <4>2
    <3> QED
      BY <3>1, <3>2 DEF Cuts
  <2> QED
    BY <2>3 DEF Matches
<1> QED
  BY <1>1, <1>2

\* If all parts match, so do the first few of them.
LEMMA FewerParts ==
    ASSUME NEW g, NEW c, Len(c) \in Nat, NEW i \in 0 .. Len(c),
           NEW m \in Nat, NEW k \in 0 .. m, Matches(g, c, m, i)
    PROVE  \E j \in 0 .. Len(c) : Matches(g, c, k, j)
<1>1. PICK cut \in Cuts(g, c, m, i) : TRUE
  BY DEF Matches
<1>2. /\ cut \in [0 .. m -> 0 .. Len(c)]
      /\ cut[0] = 0
      /\ \A j \in 1 .. m : PieceMatches(g[j], c, cut[j - 1], cut[j])
  BY <1>1 DEF Cuts
<1> DEFINE short == [j \in 0 .. k |-> cut[j]]
<1>3. short \in [0 .. k -> 0 .. Len(c)] /\ short[0] = 0 /\ short[k] = cut[k]
  BY <1>2
<1>4. ASSUME NEW j \in 1 .. k PROVE PieceMatches(g[j], c, short[j - 1], short[j])
  <2>1. j \in 1 .. m /\ j \in 0 .. k /\ j - 1 \in 0 .. k
    OBVIOUS
  <2>2. short[j] = cut[j] /\ short[j - 1] = cut[j - 1]
    BY <2>1
  <2> QED
    BY <2>1, <2>2, <1>2
<1>5. short \in Cuts(g, c, k, cut[k])
  BY <1>3, <1>4 DEF Cuts
<1>6. cut[k] \in 0 .. Len(c)
  BY <1>2
<1> QED
  BY <1>5, <1>6 DEF Matches

-----------------------------------------------------------------------------
LEMMA GlobInitInv == GlobInit => GlobInv
<1> SUFFICES ASSUME GlobInit PROVE GlobInv
  OBVIOUS
<1>1. /\ Len(glob) \in Nat \ {0} /\ Len(path) \in Nat \ {0}
      /\ Parts(glob) \in 0 .. Len(glob)
  BY InputsRight DEF GlobInit
<1>2. GlobTypeOK
  BY <1>1, WidthAssumption DEF GlobInit, GlobTypeOK
<1>3. WordIsExact
  <2> SUFFICES ASSUME NEW i \in 0 .. Len(path)
               PROVE  i \in toCheck <=> Matches(glob, path, part, i)
    BY DEF WordIsExact
  <2>1. Matches(glob, path, 0, i) <=> i = 0
    BY <1>1, NoPart
  <2> QED
    BY <2>1 DEF GlobInit
<1>4. Correct /\ (glob # EmptyString => part <= Parts(glob))
  BY <1>1 DEF GlobInit, Correct
<1> QED
  BY <1>2, <1>3, <1>4 DEF GlobInv

\* What a turn of the loop needs to know: there is a part left, and removing
\* it leaves no fewer than no parts.
LEMMA PartLeft ==
    ASSUME GlobInv, InLoop, ~ Consumed(glob, part)
    PROVE  /\ part \in Nat /\ part + 1 \in 0 .. Parts(glob)
           /\ Len(path) \in Nat /\ Parts(glob) \in 0 .. Len(glob)
           /\ Len(glob) \in Nat
<1>1. glob \in Globs /\ path \in Paths /\ part \in 0 .. Len(glob) /\ part <= Parts(glob)
  BY DEF GlobInv, GlobTypeOK, InLoop
<1>2. /\ Len(glob) \in Nat \ {0} /\ Len(path) \in Nat \ {0}
      /\ Parts(glob) \in 0 .. Len(glob)
  BY <1>1, InputsRight
<1>3. part # Parts(glob)
  BY <1>1, <1>2 DEF Consumed, Parts
<1> QED
  BY <1>1, <1>2, <1>3

LEMMA GlobStepInv == GlobInv /\ [GlobNext]_globVars => GlobInv'
<1> SUFFICES ASSUME GlobInv, [GlobNext]_globVars PROVE GlobInv'
  OBVIOUS
<1> USE WidthAssumption
<1>0. /\ glob \in Globs /\ path \in Paths
      /\ Len(glob) \in Nat \ {0} /\ Len(path) \in Nat \ {0}
      /\ Parts(glob) \in 0 .. Len(glob)
  BY InputsRight DEF GlobInv, GlobTypeOK
\* Returning changes nothing but the result.
<1>1. ASSUME NEW r \in {"aborted", "yes", "no"}, Halt(r), Correct'
      PROVE  GlobInv'
  BY <1>1 DEF GlobInv, GlobTypeOK, WordIsExact, Halt, InLoop, Running, Parts
<1>2. CASE EmptyGlob
  <2>1. Correct'
    BY <1>2 DEF EmptyGlob, Halt, Answer, Correct, Means
  <2>2. Answer(path = EmptyString) \in {"aborted", "yes", "no"}
    BY DEF Answer
  <2> QED
    BY <1>1, <1>2, <2>1, <2>2 DEF EmptyGlob
<1>3. CASE TooManyChunks
  <2>1. Correct'
    BY <1>3 DEF TooManyChunks, Halt, Correct
  <2> QED
    BY <1>1, <1>3, <2>1 DEF TooManyChunks
<1>4. CASE NothingToCheck
  <2>1. ASSUME Len(path) < Width PROVE ~ Means(glob, path)
    <3>1. glob # EmptyString /\ part \in 0 .. Parts(glob)
      BY <1>4, PartLeft, <1>0 DEF NothingToCheck, InLoop
    <3>2. SUFFICES ASSUME Matches(glob, path, Parts(glob), Len(path)) PROVE FALSE
      BY <3>1 DEF Means
    <3>3. PICK j \in 0 .. Len(path) : Matches(glob, path, part, j)
      BY <1>0, <3>1, <3>2, FewerParts
    <3>4. j < Width
      BY <1>0, <2>1
    <3> QED
      BY <1>4, <3>3, <3>4 DEF GlobInv, WordIsExact, NothingToCheck
  <2>2. Correct'
    BY <1>4, <2>1 DEF NothingToCheck, Halt, Correct
  <2> QED
    BY <1>1, <1>4, <2>2 DEF NothingToCheck
\* One turn of the loop: what is left to show is that the word stays exact.
<1>5. ASSUME MatchGlobStar \/ MatchPart,
             toCheck' \in SUBSET {i \in 0 .. Len(path) : i < Width},
             \A i \in 0 .. Len(path) :
                i < Width => (i \in toCheck' <=> Matches(glob, path, part + 1, i))
      PROVE  GlobInv'
  <2>1. /\ UNCHANGED <<glob, path, result>> /\ part' = part + 1
        /\ InLoop /\ ~ Consumed(glob, part)
    BY <1>5 DEF MatchGlobStar, MatchPart
  <2>2. part + 1 \in 0 .. Parts(glob) /\ part + 1 \in 0 .. Len(glob)
    BY <2>1, PartLeft
  <2>3. GlobTypeOK'
    BY <1>5, <2>1, <2>2 DEF GlobInv, GlobTypeOK
  <2>4. WordIsExact'
    BY <1>5, <2>1 DEF WordIsExact
  <2>5. Correct'
    BY <2>1 DEF Correct, InLoop, Running
  <2>6. (glob # EmptyString => part <= Parts(glob))'
    BY <1>0, <2>1, <2>2
  <2> QED
    BY <2>3, <2>4, <2>5, <2>6 DEF GlobInv
<1>6. CASE MatchGlobStar
  <2>1. InLoop /\ ~ Consumed(glob, part) /\ glob[part + 1] = GlobStar
    BY <1>6 DEF MatchGlobStar
  <2>2. part \in Nat /\ part + 1 \in Nat
    BY <2>1, PartLeft
  <2>3. toCheck' = {i \in 0 .. Len(path) : i < Width /\ \E j \in toCheck : j <= i}
    BY <1>6 DEF MatchGlobStar
  <2>4. ASSUME NEW i \in 0 .. Len(path), i < Width
        PROVE  i \in toCheck' <=> Matches(glob, path, part + 1, i)
    <3>1. Matches(glob, path, part + 1, i)
          <=> \E j \in 0 .. Len(path) : Matches(glob, path, part, j) /\ j <= i
      BY <1>0, <2>1, <2>2, OneMorePart DEF PieceMatches
    <3>2. \A j \in 0 .. Len(path) : j <= i => (j \in toCheck <=> Matches(glob, path, part, j))
      BY <1>0, <2>1, <2>4 DEF GlobInv, WordIsExact
    <3>3. toCheck \subseteq 0 .. Len(path)
      BY DEF GlobInv, GlobTypeOK
    <3> QED
      BY <2>3, <2>4, <3>1, <3>2, <3>3
  <2>5. toCheck' \in SUBSET {i \in 0 .. Len(path) : i < Width}
    BY <2>3
  <2> QED
    BY <1>5, <1>6, <2>4, <2>5
<1>7. CASE MatchPart
  <2>1. InLoop /\ ~ Consumed(glob, part) /\ glob[part + 1] # GlobStar
    BY <1>7 DEF MatchPart
  <2>2. part \in Nat /\ part + 1 \in Nat
    BY <2>1, PartLeft
  <2>3. \A i : i \in toCheck' <=> \E j \in toCheck :
            /\ j < Len(path) /\ j # Width - 1 /\ i = j + 1
            /\ ChunkMatches(glob[part + 1], path[j + 1])
    BY <1>7 DEF MatchPart, Candidates
  <2>4. toCheck \in SUBSET {i \in 0 .. Len(path) : i < Width}
    BY DEF GlobInv, GlobTypeOK
  <2>5. ASSUME NEW i \in 0 .. Len(path), i < Width
        PROVE  i \in toCheck' <=> Matches(glob, path, part + 1, i)
    <3>1. Matches(glob, path, part + 1, i)
          <=> \E j \in 0 .. Len(path) :
                 /\ Matches(glob, path, part, j)
                 /\ i = j + 1 /\ ChunkMatches(glob[part + 1], path[i])
      BY <1>0, <2>1, <2>2, OneMorePart DEF PieceMatches
    <3>2. \A j \in 0 .. Len(path) : i = j + 1 => (j \in toCheck <=> Matches(glob, path, part, j))
      BY <1>0, <2>1, <2>5 DEF GlobInv, WordIsExact
    <3> QED
      BY <1>0, <2>3, <2>4, <2>5, <3>1, <3>2
  <2>6. toCheck' \in SUBSET {i \in 0 .. Len(path) : i < Width}
    <3> SUFFICES ASSUME NEW i \in toCheck' PROVE i \in 0 .. Len(path) /\ i < Width
      OBVIOUS
    <3>1. PICK j \in toCheck : j < Len(path) /\ j # Width - 1 /\ i = j + 1
      BY <2>3
    <3> QED
      BY <1>0, <2>4, <3>1
  <2> QED
    BY <1>5, <1>7, <2>5, <2>6
<1>8. CASE UnsupportedPart
  <2>1. Correct'
    BY <1>8 DEF UnsupportedPart, Halt, Correct
  <2> QED
    BY <1>1, <1>8, <2>1 DEF UnsupportedPart
<1>9. CASE Finish
  <2>1. InLoop /\ Consumed(glob, part) /\ Halt(Answer(Len(path) \in toCheck))
    BY <1>9 DEF Finish
  <2>2. part = Parts(glob) /\ glob # EmptyString
    BY <1>0, <2>1 DEF GlobInv, GlobTypeOK, InLoop, Consumed, Parts
  <2>3. ASSUME Len(path) < Width
        PROVE  Len(path) \in toCheck <=> Means(glob, path)
    BY <1>0, <2>1, <2>2, <2>3 DEF GlobInv, WordIsExact, Means
  <2>4. Correct'
    BY <2>1, <2>3 DEF Halt, Answer, Correct
  <2>5. Answer(Len(path) \in toCheck) \in {"aborted", "yes", "no"}
    BY DEF Answer
  <2> QED
    BY <1>1, <2>1, <2>4, <2>5
<1>10. CASE UNCHANGED globVars
  BY <1>10 DEF globVars, GlobInv, GlobTypeOK, WordIsExact, InLoop, Running, Correct, Parts
<1> QED
  BY <1>2, <1>3, <1>4, <1>6, <1>7, <1>8, <1>9, <1>10 DEF GlobNext

\* The inductive invariant holds.
THEOREM GlobInvariance == GlobSpec => []GlobInv
BY GlobInitInv, GlobStepInv, PTL DEF GlobSpec

\* GlobMatches keeps its word of bits within its width and its path, and the
\* parts it has removed within the glob.
THEOREM GlobTypeCorrect == GlobSpec => []GlobTypeOK
<1>1. GlobInv => GlobTypeOK
  BY DEF GlobInv
<1> QED
  BY GlobInvariance, <1>1, PTL

\* The bits of to_check say exactly how many chunks the consumed parts match.
THEOREM ExactWord == GlobSpec => []WordIsExact
<1>1. GlobInv => WordIsExact
  BY DEF GlobInv
<1> QED
  BY GlobInvariance, <1>1, PTL

\* GlobMatches answers what the glob means, for every path of less chunks than
\* the word has bits, every width, and every glob.
THEOREM MatchesWhatItMeans == GlobSpec => []Correct
<1>1. GlobInv => Correct
  BY DEF GlobInv
<1> QED
  BY GlobInvariance, <1>1, PTL

-----------------------------------------------------------------------------
(* Log lines, for any number of threads and any conditions: the spin lock  *)
(* excludes, no condition is read from the middle of an assignment, a line *)
(* is switched on only with a condition in place, and the line is the      *)
(* atomic one of LogLineSpec.                                              *)

LEMMA InitInv == Init => IInv
BY ConfigsAssumption
   DEF Init, IInv, TypeOK, Exclusion, LockInv, WordsInv, StoredInv, Locked, Reading, Writing

\* The places of a program: which of them are under the lock.
LEMMA TypeStep == IInv /\ [Next]_vars => TypeOK'
<1> SUFFICES ASSUME IInv, [Next]_vars PROVE TypeOK'
  OBVIOUS
<1> USE DEF TypeOK, IInv, Reading, Writing, Goto, Return, line, condition_, locals
<1>1. ASSUME NEW t \in Threads, Evaluate(t) PROVE TypeOK'
  <2>1. CASE LoadDecides(t)
    BY <2>1 DEF LoadDecides
  <2>2. CASE LoadEnabled(t)
    BY <2>2 DEF LoadEnabled
  <2>3. CASE LockGet(t)
    BY <2>3 DEF LockGet, Acquire
  <2>4. CASE CopyObject(t)
    BY <2>4 DEF CopyObject
  <2>5. CASE CopyControl(t)
    BY <2>5 DEF CopyControl
  <2>6. CASE UnlockGet(t)
    BY <2>6 DEF UnlockGet, Release
  <2>7. CASE Read(t)
    BY <2>7 DEF Read
  <2> QED
    BY <1>1, <2>1, <2>2, <2>3, <2>4, <2>5, <2>6, <2>7 DEF Evaluate
<1>2. ASSUME NEW t \in Threads, Switch(t) PROVE TypeOK'
  <2>1. ASSUME NEW c \in Configs, Parse(t, c) PROVE TypeOK'
    BY <2>1 DEF Parse
  <2>2. CASE LockSet(t)
    BY <2>2 DEF LockSet, Acquire
  <2>3. CASE SetObject(t)
    BY <2>3 DEF SetObject
  <2>4. CASE SetControl(t)
    BY <2>4 DEF SetControl
  <2>5. CASE UnlockSet(t)
    BY <2>5 DEF UnlockSet, Release
  <2>6. CASE StoreEnabled(t)
    BY <2>6 DEF StoreEnabled
  <2>7. CASE Disable(t)
    BY <2>7 DEF Disable
  <2> QED
    BY <1>2, <2>1, <2>2, <2>3, <2>4, <2>5, <2>6, <2>7 DEF Switch
<1>3. CASE UNCHANGED vars
  BY <1>3 DEF vars
<1> QED
  BY <1>1, <1>2, <1>3 DEF Next

\* One thread at most is under the lock, and the lock says whether one is.
LEMMA LockStep == IInv /\ [Next]_vars => Exclusion' /\ LockInv'
<1> SUFFICES ASSUME IInv, [Next]_vars PROVE Exclusion' /\ LockInv'
  OBVIOUS
<1> USE DEF TypeOK, IInv, Exclusion, LockInv, Locked, Reading, Writing, Goto
\* A thread takes the lock: nobody was under it.
<1>1. ASSUME NEW t \in Threads,
             \/ Acquire(t, "get", "copy object") \/ Acquire(t, "set", "set object")
      PROVE  Exclusion' /\ LockInv'
  BY <1>1 DEF Acquire
\* A thread gives the lock back: nobody is under it any more.
<1>2. ASSUME NEW t \in Threads,
             \/ Release(t, "unlock get", "read") \/ Release(t, "unlock set", "store")
      PROVE  Exclusion' /\ LockInv'
  BY <1>2 DEF Release
\* Any other step stays on one side.
<1>3. ASSUME NEW t \in Threads, NEW from, NEW to, Goto(t, from, to), UNCHANGED lock,
             from \in Reading \union Writing <=> to \in Reading \union Writing
      PROVE  Exclusion' /\ LockInv'
  <2>1. pc[t] = from /\ pc'[t] = to
    BY <1>3
  <2>2. \A u \in Threads : u # t => pc'[u] = pc[u]
    BY <1>3
  <2>3. \A u \in Threads : Locked(u)' <=> Locked(u)
    BY <1>3, <2>1, <2>2
  <2> QED
    BY <1>3, <2>3
<1>4. ASSUME NEW t \in Threads, Evaluate(t) PROVE Exclusion' /\ LockInv'
  BY <1>1, <1>2, <1>3, <1>4
     DEF Evaluate, LoadDecides, LoadEnabled, LockGet, CopyObject, CopyControl,
         UnlockGet, Read
<1>5. ASSUME NEW t \in Threads, Switch(t) PROVE Exclusion' /\ LockInv'
  BY <1>1, <1>2, <1>3, <1>5
     DEF Switch, Parse, LockSet, SetObject, SetControl, UnlockSet, StoreEnabled, Disable
<1>6. CASE UNCHANGED vars
  BY <1>6 DEF vars
<1> QED
  BY <1>4, <1>5, <1>6 DEF Next

LEMMA WordsStep == IInv /\ [Next]_vars => WordsInv' /\ StoredInv'
<1> SUFFICES ASSUME IInv, [Next]_vars PROVE WordsInv' /\ StoredInv'
  OBVIOUS
<1> USE DEF TypeOK, IInv, Exclusion, WordsInv, StoredInv, Locked, Reading, Writing, Goto,
            condition_, locals
<1>1. ASSUME NEW t \in Threads, Evaluate(t) PROVE WordsInv' /\ StoredInv'
  <2>1. CASE LoadDecides(t) \/ LoadEnabled(t) \/ Read(t)
    BY <2>1 DEF LoadDecides, LoadEnabled, Read
  <2>2. CASE LockGet(t)
    BY <2>2 DEF LockGet, Acquire
  <2>3. CASE CopyObject(t)
    BY <2>3 DEF CopyObject
  \* Nobody is in the middle of an assignment, so the words agree.
  <2>4. CASE CopyControl(t)
    BY <2>4 DEF CopyControl
  <2>5. CASE UnlockGet(t)
    BY <2>5 DEF UnlockGet, Release
  <2> QED
    BY <1>1, <2>1, <2>2, <2>3, <2>4, <2>5 DEF Evaluate
<1>2. ASSUME NEW t \in Threads, Switch(t) PROVE WordsInv' /\ StoredInv'
  <2>1. ASSUME NEW c \in Configs, Parse(t, c) PROVE WordsInv' /\ StoredInv'
    BY <2>1 DEF Parse
  <2>2. CASE LockSet(t)
    BY <2>2 DEF LockSet, Acquire
  <2>3. CASE SetObject(t)
    BY <2>3 DEF SetObject
  <2>4. CASE SetControl(t)
    BY <2>4 DEF SetControl
  <2>5. CASE UnlockSet(t)
    BY <2>5 DEF UnlockSet, Release
  <2>6. CASE StoreEnabled(t) \/ Disable(t)
    BY <2>6 DEF StoreEnabled, Disable
  <2> QED
    BY <1>2, <2>1, <2>2, <2>3, <2>4, <2>5, <2>6 DEF Switch
<1>3. CASE UNCHANGED vars
  BY <1>3 DEF vars
<1> QED
  BY <1>1, <1>2, <1>3 DEF Next

LEMMA StepInv == IInv /\ [Next]_vars => IInv'
BY TypeStep, LockStep, WordsStep DEF IInv

\* The inductive invariant holds.
THEOREM Invariance == Spec => []IInv
BY InitInv, StepInv, PTL DEF Spec

\* The variables of the line and of the threads keep their types.
THEOREM TypeCorrect == Spec => []TypeOK
<1>1. IInv => TypeOK
  BY DEF IInv
<1> QED
  BY Invariance, <1>1, PTL

\* The spin lock of get_config and set_config excludes.
THEOREM MutualExclusion == Spec => []Exclusion
<1>1. IInv => Exclusion
  BY DEF IInv
<1> QED
  BY Invariance, <1>1, PTL

\* The reader of a log statement never sees half a condition.
THEOREM ConditionsAreWhole == Spec => []NoTornConfig
<1>1. IInv => NoTornConfig
  BY DEF IInv, WordsInv, NoTornConfig
<1> QED
  BY Invariance, <1>1, PTL

\* enable() switches a line on only when its condition is in place.
THEOREM SwitchedOnLast == Spec => SwitchedOnWithConfig
<1>1. IInv /\ [Next]_vars => [~ enabled /\ enabled' => object # None]_vars
  <2> SUFFICES ASSUME IInv, [Next]_vars, ~ enabled, enabled' PROVE object # None
    OBVIOUS
  <2>1. PICK t \in Threads : StoreEnabled(t)
    BY DEF Next, Evaluate, Switch, vars, line, LoadDecides, LoadEnabled, LockGet, Acquire,
           CopyObject, CopyControl, UnlockGet, Release, Read, Parse, LockSet, SetObject,
           SetControl, UnlockSet, Disable
  <2> QED
    BY <2>1, ConfigsAssumption DEF IInv, StoredInv, StoreEnabled, Goto
<1> QED
  BY Invariance, <1>1, PTL DEF Spec, SwitchedOnWithConfig

-----------------------------------------------------------------------------
Phases == [t \in Threads |-> Phase(pc[t])]
Locals == [t \in Threads |-> Observed(t)]

\* Where a step of one thread takes the phases of LogLineSpec.
LEMMA PhaseStep ==
    ASSUME TypeOK, NEW t \in Threads, NEW from, NEW to, Goto(t, from, to)
    PROVE  /\ Phases[t] = Phase(from)
           /\ Phases' = [Phases EXCEPT ![t] = Phase(to)]
<1>1. pc[t] = from /\ pc' = [pc EXCEPT ![t] = to] /\ DOMAIN pc = Threads
  BY DEF Goto, TypeOK
<1>2. \A u \in Threads : pc'[u] = IF u = t THEN to ELSE pc[u]
  BY <1>1
<1>3. Phases' = [u \in Threads |-> Phase(pc'[u])]
  BY DEF Phases, Phase
<1>4. Phases' = [u \in Threads |-> IF u = t THEN Phase(to) ELSE Phase(pc[u])]
  BY <1>2, <1>3
<1>5. [Phases EXCEPT ![t] = Phase(to)]
      = [u \in Threads |-> IF u = t THEN Phase(to) ELSE Phase(pc[u])]
  BY DEF Phases
<1> QED
  BY <1>1, <1>4, <1>5 DEF Phases

\* A step that leaves the copies alone, and is at neither end of the second
\* read of a copy, leaves what LogLineSpec sees of them alone.
LEMMA LocalsStay ==
    ASSUME TypeOK, NEW t \in Threads, NEW from, NEW to, Goto(t, from, to),
           from # "copy control", to # "copy control", UNCHANGED locals
    PROVE  Locals' = Locals
<1>1. \A u \in Threads : (pc'[u] = "copy control") <=> (pc[u] = "copy control")
  BY DEF Goto, TypeOK
<1> QED
  BY <1>1 DEF Locals, Observed, locals

\* log_line does what LogLineSpec says: the copy and the assignment of the two
\* words of a condition are each as good as one instant.
THEOREM Implementation == Spec => ImplementsSpec
<1> DEFINE Step == [Abstract!Next]_(Abstract!vars)
<1>1. Init => Abstract!Init
  BY DEF Init, Abstract!Init, Phase, Observed
<1>2. IInv /\ [Next]_vars => Step
  <2> SUFFICES ASSUME IInv, [Next]_vars PROVE Step
    OBVIOUS
  <2>0. TypeOK
    BY DEF IInv
  <2>1. ASSUME NEW t \in Threads, LoadDecides(t) PROVE Abstract!LoadDecides(t)
    <3>1. Phases[t] = "idle" /\ Phases' = [Phases EXCEPT ![t] = "idle"]
      BY <2>0, <2>1, PhaseStep DEF LoadDecides, Phase
    <3>2. Locals' = Locals
      BY <2>0, <2>1, LocalsStay DEF LoadDecides
    <3> QED
      BY <2>1, <3>1, <3>2 DEF Phases, Locals, LoadDecides, Goto, Abstract!LoadDecides, Abstract!Goto,
         Return, Abstract!Return, line, condition_
  <2>2. ASSUME NEW t \in Threads, LoadEnabled(t) PROVE Abstract!LoadEnabled(t)
    <3>1. Phases[t] = "idle" /\ Phases' = [Phases EXCEPT ![t] = "get"]
      BY <2>0, <2>2, PhaseStep DEF LoadEnabled, Phase
    <3>2. Locals' = Locals
      BY <2>0, <2>2, LocalsStay DEF LoadEnabled
    <3> QED
      BY <2>2, <3>1, <3>2 DEF Phases, Locals, LoadEnabled, Goto, Abstract!LoadEnabled, Abstract!Goto,
         Return, Abstract!Return, line, condition_
  <2>3. ASSUME NEW t \in Threads, LockGet(t) PROVE UNCHANGED Abstract!vars
    <3>1. Phases[t] = "get" /\ Phases' = [Phases EXCEPT ![t] = "get"]
      BY <2>0, <2>3, PhaseStep DEF LockGet, Acquire, Phase
    <3>2. Locals' = Locals
      BY <2>0, <2>3, LocalsStay DEF LockGet, Acquire
    <3> QED
      BY <2>3, <3>1, <3>2 DEF Phases, Locals, LockGet, Acquire, Abstract!vars, line, condition_
  <2>4. ASSUME NEW t \in Threads, CopyObject(t) PROVE UNCHANGED Abstract!vars
    <3>1. Phases[t] = "get" /\ Phases' = [Phases EXCEPT ![t] = "get"]
      BY <2>0, <2>4, PhaseStep DEF CopyObject, Phase
    <3>2. Locals' = Locals
      <4>1. \A u \in Threads : Observed(u)' = Observed(u)
        BY <2>0, <2>4 DEF IInv, TypeOK, WordsInv, CopyObject, Goto, Observed
      <4> QED
        BY <4>1 DEF Locals
    <3> QED
      BY <2>4, <3>1, <3>2 DEF Phases, Locals, CopyObject, Abstract!vars, line, condition_
  <2>5. ASSUME NEW t \in Threads, CopyControl(t) PROVE Abstract!GetConfig(t)
    <3>1. Phases[t] = "get" /\ Phases' = [Phases EXCEPT ![t] = "read"]
      BY <2>0, <2>5, PhaseStep DEF CopyControl, Phase
    <3>2. Locals' = [Locals EXCEPT ![t] = control]
      <4>1. localObject[t] = control
        BY <2>0, <2>5 DEF IInv, TypeOK, Exclusion, Locked, Reading, Writing, WordsInv,
                          CopyControl, Goto
      <4>2. \A u \in Threads : Observed(u)' = IF u = t THEN control ELSE Observed(u)
        BY <2>0, <2>5, <4>1 DEF TypeOK, CopyControl, Goto, Observed
      <4> QED
        BY <4>2 DEF Locals
    <3> QED
      BY <2>5, <3>1, <3>2 DEF Phases, Locals, CopyControl, Goto, Abstract!GetConfig, Abstract!Goto,
         Return, Abstract!Return, line, condition_
  <2>6. ASSUME NEW t \in Threads, UnlockGet(t) PROVE UNCHANGED Abstract!vars
    <3>1. Phases[t] = "read" /\ Phases' = [Phases EXCEPT ![t] = "read"]
      BY <2>0, <2>6, PhaseStep DEF UnlockGet, Release, Phase
    <3>2. Locals' = Locals
      BY <2>0, <2>6, LocalsStay DEF UnlockGet, Release
    <3> QED
      BY <2>6, <3>1, <3>2 DEF Phases, Locals, UnlockGet, Release, Abstract!vars, line, condition_
  <2>7. ASSUME NEW t \in Threads, Read(t) PROVE Abstract!Read(t)
    <3>1. Phases[t] = "read" /\ Phases' = [Phases EXCEPT ![t] = "idle"]
      BY <2>0, <2>7, PhaseStep DEF Read, Phase
    <3>2. Locals' = Locals /\ Locals[t] = localObject[t]
      <4>1. Locals' = Locals
        BY <2>0, <2>7, LocalsStay DEF Read
      <4> QED
        BY <2>7, <4>1 DEF Read, Goto, Locals, Observed
    <3> QED
      BY <2>7, <3>1, <3>2 DEF Phases, Locals, Read, Goto, Abstract!Read, Abstract!Goto,
         Return, Abstract!Return, line, condition_
  <2>8. ASSUME NEW t \in Threads, NEW c \in Configs, Parse(t, c) PROVE Abstract!Parse(t, c)
    <3>1. Phases[t] = "idle" /\ Phases' = [Phases EXCEPT ![t] = "set"]
      BY <2>0, <2>8, PhaseStep DEF Parse, Phase
    <3>2. Locals' = [Locals EXCEPT ![t] = c]
      <4>1. \A u \in Threads : Observed(u)' = IF u = t THEN c ELSE Observed(u)
        BY <2>0, <2>8 DEF TypeOK, Parse, Goto, Observed
      <4> QED
        BY <4>1 DEF Locals
    <3> QED
      BY <2>8, <3>1, <3>2 DEF Phases, Locals, Parse, Goto, Abstract!Parse, Abstract!Goto,
         Return, Abstract!Return, line, condition_
  <2>9. ASSUME NEW t \in Threads, LockSet(t) PROVE UNCHANGED Abstract!vars
    <3>1. Phases[t] = "set" /\ Phases' = [Phases EXCEPT ![t] = "set"]
      BY <2>0, <2>9, PhaseStep DEF LockSet, Acquire, Phase
    <3>2. Locals' = Locals
      BY <2>0, <2>9, LocalsStay DEF LockSet, Acquire
    <3> QED
      BY <2>9, <3>1, <3>2 DEF Phases, Locals, LockSet, Acquire, Abstract!vars, line, condition_
  <2>10. ASSUME NEW t \in Threads, SetObject(t) PROVE UNCHANGED Abstract!vars
    <3>1. Phases[t] = "set" /\ Phases' = [Phases EXCEPT ![t] = "set"]
      BY <2>0, <2>10, PhaseStep DEF SetObject, Phase
    <3>2. Locals' = Locals
      BY <2>0, <2>10, LocalsStay DEF SetObject
    <3> QED
      BY <2>10, <3>1, <3>2 DEF Phases, Locals, SetObject, Abstract!vars, line, condition_
  <2>11. ASSUME NEW t \in Threads, SetControl(t) PROVE Abstract!SetConfig(t)
    <3>1. Phases[t] = "set" /\ Phases' = [Phases EXCEPT ![t] = "store"]
      BY <2>0, <2>11, PhaseStep DEF SetControl, Phase
    <3>2. Locals' = Locals /\ Locals[t] = localControl[t]
      <4>1. Locals' = Locals
        BY <2>0, <2>11, LocalsStay DEF SetControl
      <4> QED
        BY <2>11, <4>1 DEF IInv, WordsInv, SetControl, Goto, Locals, Observed
    <3> QED
      BY <2>11, <3>1, <3>2 DEF Phases, Locals, SetControl, Goto, Abstract!SetConfig, Abstract!Goto,
         Return, Abstract!Return, line, condition_
  <2>12. ASSUME NEW t \in Threads, UnlockSet(t) PROVE UNCHANGED Abstract!vars
    <3>1. Phases[t] = "store" /\ Phases' = [Phases EXCEPT ![t] = "store"]
      BY <2>0, <2>12, PhaseStep DEF UnlockSet, Release, Phase
    <3>2. Locals' = Locals
      BY <2>0, <2>12, LocalsStay DEF UnlockSet, Release
    <3> QED
      BY <2>12, <3>1, <3>2 DEF Phases, Locals, UnlockSet, Release, Abstract!vars, line, condition_
  <2>13. ASSUME NEW t \in Threads, StoreEnabled(t) PROVE Abstract!StoreEnabled(t)
    <3>1. Phases[t] = "store" /\ Phases' = [Phases EXCEPT ![t] = "idle"]
      BY <2>0, <2>13, PhaseStep DEF StoreEnabled, Phase
    <3>2. Locals' = Locals
      BY <2>0, <2>13, LocalsStay DEF StoreEnabled
    <3> QED
      BY <2>13, <3>1, <3>2 DEF Phases, Locals, StoreEnabled, Goto, Abstract!StoreEnabled, Abstract!Goto,
         Return, Abstract!Return, line, condition_
  <2>14. ASSUME NEW t \in Threads, Disable(t) PROVE Abstract!Disable(t)
    <3>1. Phases[t] = "idle" /\ Phases' = [Phases EXCEPT ![t] = "idle"]
      BY <2>0, <2>14, PhaseStep DEF Disable, Phase
    <3>2. Locals' = Locals
      BY <2>0, <2>14, LocalsStay DEF Disable
    <3> QED
      BY <2>14, <3>1, <3>2 DEF Phases, Locals, Disable, Goto, Abstract!Disable, Abstract!Goto,
         Return, Abstract!Return, line, condition_
  <2>15. CASE UNCHANGED vars
    <3>1. Phases' = Phases /\ Locals' = Locals
      BY <2>15 DEF vars, Phases, Locals, Observed, locals
    <3> QED
      BY <2>15, <3>1 DEF Phases, Locals, vars, line, condition_, Abstract!vars
  <2> QED
    BY <2>1, <2>2, <2>3, <2>4, <2>5, <2>6, <2>7, <2>8, <2>9, <2>10, <2>11, <2>12, <2>13, <2>14, <2>15
       DEF Next, Evaluate, Switch, Abstract!Next
<1> QED
  BY <1>1, <1>2, Invariance, PTL DEF Spec, ImplementsSpec, Abstract!Spec

-----------------------------------------------------------------------------
(* EditDistance, for strings of any characters and any lengths.            *)
(*                                                                         *)
(* The last characters of two prefixes are aligned with one another, or    *)
(* one of them with none (AlignedHow): the distance is the least of what   *)
(* the three shorter pairs of prefixes come to (NextDistance), which is    *)
(* what the loop writes.                                                   *)

\* The alignments of a first characters with b first characters, and the
\* edits that one of them stands for.
Alignments(a, b) == {m \in SUBSET ((1 .. a) \X (1 .. b)) : Distances!Aligned(m)}
Replaced(s, t, m) == {p \in m : s[p[1]] # t[p[2]]}
Cost(s, t, a, b) == IF s[a] # t[b] THEN 1 ELSE 0
Edits(s, t, a, b, m) == a + b - 2 * Cardinality(m) + Cardinality(Replaced(s, t, m))

\* d is the distance of the first a characters of s from the first b of t.
Dist(s, t, a, b, d) ==
    /\ d \in Nat
    /\ \E m \in Alignments(a, b) : Edits(s, t, a, b, m) = d
    /\ \A m \in Alignments(a, b) : d <= Edits(s, t, a, b, m)

\* The least of a set, when it is known.
LEMMA LeastIs ==
    ASSUME NEW S, S \subseteq Int, NEW d \in S, \A e \in S : d <= e
    PROVE  Distances!Least(S) = d
<1>1. \E x \in S : \A y \in S : x <= y
  OBVIOUS
<1>2. Distances!Least(S) \in S /\ \A y \in S : Distances!Least(S) <= y
  BY <1>1 DEF Distances!Least
<1>3. Distances!Least(S) <= d /\ d <= Distances!Least(S) /\ Distances!Least(S) \in Int /\ d \in Int
  BY <1>2
<1> QED
  BY <1>3

\* Alignments are finite.
LEMMA AlignmentFinite ==
    ASSUME NEW s, NEW t, NEW a \in Nat, NEW b \in Nat, NEW m \in Alignments(a, b)
    PROVE  /\ IsFiniteSet(m) /\ Cardinality(m) \in Nat
           /\ IsFiniteSet(Replaced(s, t, m)) /\ Cardinality(Replaced(s, t, m)) \in Nat
           /\ Edits(s, t, a, b, m) \in Int
<1>1. IsFiniteSet((1 .. a) \X (1 .. b))
  <2>1. IsFiniteSet(1 .. a) /\ IsFiniteSet(1 .. b)
    BY FS_Interval
  <2> QED
    BY <2>1, FS_Product
<1>2. m \subseteq (1 .. a) \X (1 .. b) /\ Replaced(s, t, m) \subseteq m
  BY DEF Alignments, Replaced
<1>3. IsFiniteSet(m)
  BY <1>1, <1>2, FS_Subset
<1>4. IsFiniteSet(Replaced(s, t, m))
  BY <1>2, <1>3, FS_Subset
<1>5. Cardinality(m) \in Nat /\ Cardinality(Replaced(s, t, m)) \in Nat
  BY <1>3, <1>4, FS_CardinalityType
<1> QED
  BY <1>3, <1>4, <1>5 DEF Edits

\* Nothing is aligned with an empty prefix.
LEMMA EmptyPrefix ==
    ASSUME NEW s, NEW t, NEW a \in Nat, NEW b \in Nat, a = 0 \/ b = 0
    PROVE  Dist(s, t, a, b, a + b)
<1>1. Alignments(a, b) = {{}}
  <2>1. (1 .. a) \X (1 .. b) = {}
    BY Z3
  <2>2. Distances!Aligned({})
    BY DEF Distances!Aligned
  <2> QED
    BY <2>1, <2>2 DEF Alignments
<1>2. Replaced(s, t, {}) = {}
  BY DEF Replaced
<1>3. Edits(s, t, a, b, {}) = a + b
  BY <1>2, FS_EmptySet DEF Edits
<1> QED
  BY <1>1, <1>3 DEF Dist

\* One more character of either that is aligned with none is one more edit,
LEMMA OneUnaligned ==
    ASSUME NEW s, NEW t, NEW a \in Nat, NEW b \in Nat, NEW m \in Alignments(a, b)
    PROVE  /\ m \in Alignments(a + 1, b)
           /\ Edits(s, t, a + 1, b, m) = Edits(s, t, a, b, m) + 1
           /\ m \in Alignments(a, b + 1)
           /\ Edits(s, t, a, b + 1, m) = Edits(s, t, a, b, m) + 1
<1>1. 1 .. a \subseteq 1 .. a + 1 /\ 1 .. b \subseteq 1 .. b + 1
  OBVIOUS
<1>2. m \in Alignments(a + 1, b) /\ m \in Alignments(a, b + 1)
  BY <1>1 DEF Alignments
<1> QED
  BY <1>2, AlignmentFinite DEF Edits

\* and the last ones aligned with one another are one more edit if they differ.
LEMMA LastAligned ==
    ASSUME NEW s, NEW t, NEW a \in Nat, NEW b \in Nat, NEW m \in Alignments(a, b)
    PROVE  /\ m \union {<<a + 1, b + 1>>} \in Alignments(a + 1, b + 1)
           /\ Edits(s, t, a + 1, b + 1, m \union {<<a + 1, b + 1>>})
                = Edits(s, t, a, b, m) + Cost(s, t, a + 1, b + 1)
<1> DEFINE last == <<a + 1, b + 1>>
           w == m \union {last}
<1>1. /\ m \subseteq (1 .. a) \X (1 .. b) /\ Distances!Aligned(m)
      /\ last[1] = a + 1 /\ last[2] = b + 1
  BY DEF Alignments
<1>2. \A p \in m : p[1] \in 1 .. a /\ p[2] \in 1 .. b
  BY <1>1
<1>3. last \notin m
  BY <1>1, <1>2
<1>4. w \subseteq (1 .. a + 1) \X (1 .. b + 1)
  <2>1. (1 .. a) \X (1 .. b) \subseteq (1 .. a + 1) \X (1 .. b + 1)
    OBVIOUS
  <2>2. last \in (1 .. a + 1) \X (1 .. b + 1)
    OBVIOUS
  <2> QED
    BY <1>1, <2>1, <2>2
<1> HIDE DEF last
<1>5. Distances!Aligned(w)
  BY <1>1, <1>2 DEF Distances!Aligned
<1>6. Cardinality(w) = Cardinality(m) + 1
  BY <1>3, AlignmentFinite, FS_AddElement
<1>7. Cardinality(Replaced(s, t, w))
        = Cardinality(Replaced(s, t, m)) + Cost(s, t, a + 1, b + 1)
  <2>1. CASE s[a + 1] = t[b + 1]
    <3>1. Replaced(s, t, w) = Replaced(s, t, m)
      BY <1>1, <2>1 DEF Replaced
    <3>2. Cardinality(Replaced(s, t, m)) \in Nat
      BY AlignmentFinite
    <3> QED
      BY <2>1, <3>1, <3>2 DEF Cost
  <2>2. CASE s[a + 1] # t[b + 1]
    <3>1. Replaced(s, t, w) = Replaced(s, t, m) \union {last} /\ last \notin Replaced(s, t, m)
      BY <1>1, <1>3, <2>2 DEF Replaced
    <3> QED
      BY <2>2, <3>1, AlignmentFinite, FS_AddElement DEF Cost
  <2> QED
    BY <2>1, <2>2
<1>8. /\ Cardinality(m) \in Nat /\ Cardinality(Replaced(s, t, m)) \in Nat
      /\ w \in Alignments(a + 1, b + 1)
  BY <1>4, <1>5, AlignmentFinite DEF Alignments
<1> QED
  BY <1>6, <1>7, <1>8 DEF Edits, last, Cost

\* There is no other way to align them: one of the last two characters is
\* aligned with none, or they are with one another.
LEMMA AlignedHow ==
    ASSUME NEW s, NEW t, NEW a \in Nat, NEW b \in Nat,
           NEW w \in Alignments(a + 1, b + 1)
    PROVE  \/ w \in Alignments(a, b + 1)
           \/ w \in Alignments(a + 1, b)
           \/ \E m \in Alignments(a, b) : w = m \union {<<a + 1, b + 1>>}
<1>1. w \subseteq (1 .. a + 1) \X (1 .. b + 1) /\ Distances!Aligned(w)
  BY DEF Alignments
<1>2. \A p \in w : p[1] \in 1 .. a + 1 /\ p[2] \in 1 .. b + 1 /\ p = <<p[1], p[2]>>
  BY <1>1
<1>3. CASE \A p \in w : p[1] # a + 1
  <2>1. \A p \in w : p \in (1 .. a) \X (1 .. b + 1)
    BY <1>2, <1>3
  <2> QED
    BY <1>1, <2>1 DEF Alignments
<1>4. CASE \A p \in w : p[2] # b + 1
  <2>1. \A p \in w : p \in (1 .. a + 1) \X (1 .. b)
    BY <1>2, <1>4
  <2> QED
    BY <1>1, <2>1 DEF Alignments
<1>5. ASSUME NEW p \in w, p[1] = a + 1, NEW q \in w, q[2] = b + 1
      PROVE  \E m \in Alignments(a, b) : w = m \union {<<a + 1, b + 1>>}
  <2> DEFINE last == <<a + 1, b + 1>>
             m == w \ {last}
  <2>1. (p[2] < q[2]) = (p[1] < q[1])
    BY <1>1 DEF Distances!Aligned
  <2>2. ~ (p[1] < q[1])
    BY <1>2, <1>5
  <2>3. p[2] = b + 1
    BY <1>2, <1>5, <2>1, <2>2
  <2>4. p = last
    BY <1>2, <1>5, <2>3
  <2>5. ASSUME NEW r \in m PROVE r \in (1 .. a) \X (1 .. b)
    <3>1. /\ (p[1] < r[1]) = (p[2] < r[2])
          /\ (r[1] < p[1]) = (r[2] < p[2])
      BY <1>1 DEF Distances!Aligned
    <3>2. r[1] \in 1 .. a + 1 /\ r[2] \in 1 .. b + 1 /\ r = <<r[1], r[2]>>
      BY <1>2
    <3>3. r[1] # a + 1
      <4>1. SUFFICES ASSUME r[1] = a + 1 PROVE FALSE
        OBVIOUS
      <4>2. r[2] = b + 1
        BY <1>5, <2>3, <3>1, <3>2, <4>1
      <4> QED
        BY <3>2, <4>1, <4>2
    <3>4. r[1] < p[1] /\ r[2] < p[2]
      BY <1>5, <3>1, <3>2, <3>3
    <3>5. r[1] \in 1 .. a /\ r[2] \in 1 .. b
      BY <1>5, <2>3, <3>2, <3>4
    <3> QED
      BY <3>2, <3>5
  <2>6. m \in Alignments(a, b)
    BY <1>1, <2>5 DEF Alignments, Distances!Aligned
  <2>7. w = m \union {last}
    BY <2>4
  <2> QED
    BY <2>6, <2>7
<1> QED
  BY <1>3, <1>4, <1>5

\* The step of the loop.
LEMMA NextDistance ==
    ASSUME NEW s, NEW t, NEW a \in Nat, NEW b \in Nat, NEW x, NEW y, NEW z,
           Dist(s, t, a, b, x), Dist(s, t, a, b + 1, y), Dist(s, t, a + 1, b, z)
    PROVE  Dist(s, t, a + 1, b + 1,
                Distances!Least({y + 1, z + 1, x + Cost(s, t, a + 1, b + 1)}))
<1> DEFINE cost == Cost(s, t, a + 1, b + 1)
           S == {y + 1, z + 1, x + cost}
<1>0. cost \in Nat /\ x \in Nat /\ y \in Nat /\ z \in Nat /\ a + 1 \in Nat /\ b + 1 \in Nat
  BY DEF Dist, Cost
<1> HIDE DEF cost
<1>1. PICK d \in S : \A e \in S : d <= e
  BY <1>0
<1>2. d \in Nat /\ S \subseteq Int
  BY <1>0, <1>1
<1>3. Distances!Least(S) = d
  BY <1>1, <1>2, LeastIs
<1>4. \E m \in Alignments(a + 1, b + 1) : Edits(s, t, a + 1, b + 1, m) = d
  <2>1. CASE d = y + 1
    <3>1. PICK m \in Alignments(a, b + 1) : Edits(s, t, a, b + 1, m) = y
      BY DEF Dist
    <3> QED
      BY <1>0, <2>1, <3>1, OneUnaligned
  <2>2. CASE d = z + 1
    <3>1. PICK m \in Alignments(a + 1, b) : Edits(s, t, a + 1, b, m) = z
      BY DEF Dist
    <3> QED
      BY <1>0, <2>2, <3>1, OneUnaligned
  <2>3. CASE d = x + cost
    <3>1. PICK m \in Alignments(a, b) : Edits(s, t, a, b, m) = x
      BY DEF Dist
    <3> DEFINE w == m \union {<<a + 1, b + 1>>}
    <3>3. w \in Alignments(a + 1, b + 1)
      BY <3>1, LastAligned, Zenon
    <3>4. Edits(s, t, a + 1, b + 1, w) = Edits(s, t, a, b, m) + cost
      BY <3>1, LastAligned, Zenon DEF cost
    <3> HIDE DEF w
    <3> QED
      BY <2>3, <3>1, <3>3, <3>4
  <2> QED
    BY <1>1, <2>1, <2>2, <2>3
<1>5. ASSUME NEW w \in Alignments(a + 1, b + 1) PROVE d <= Edits(s, t, a + 1, b + 1, w)
  <2>1. CASE w \in Alignments(a, b + 1)
    <3>1. Edits(s, t, a + 1, b + 1, w) = Edits(s, t, a, b + 1, w) + 1
      BY <1>0, <2>1, OneUnaligned
    <3>2. y <= Edits(s, t, a, b + 1, w) /\ Edits(s, t, a, b + 1, w) \in Int
      BY <1>0, <2>1, AlignmentFinite DEF Dist
    <3>3. d <= y + 1
      BY <1>1
    <3> QED
      BY <1>0, <1>2, <3>1, <3>2, <3>3
  <2>2. CASE w \in Alignments(a + 1, b)
    <3>1. Edits(s, t, a + 1, b + 1, w) = Edits(s, t, a + 1, b, w) + 1
      BY <1>0, <2>2, OneUnaligned
    <3>2. z <= Edits(s, t, a + 1, b, w) /\ Edits(s, t, a + 1, b, w) \in Int
      BY <1>0, <2>2, AlignmentFinite DEF Dist
    <3>3. d <= z + 1
      BY <1>1
    <3> QED
      BY <1>0, <1>2, <3>1, <3>2, <3>3
  <2>3. ASSUME NEW m \in Alignments(a, b), w = m \union {<<a + 1, b + 1>>}
        PROVE  d <= Edits(s, t, a + 1, b + 1, w)
    <3>1. Edits(s, t, a + 1, b + 1, w) = Edits(s, t, a, b, m) + cost
      BY <2>3, LastAligned DEF cost
    <3>2. x <= Edits(s, t, a, b, m) /\ Edits(s, t, a, b, m) \in Int
      BY AlignmentFinite DEF Dist
    <3>3. d <= x + cost
      BY <1>1
    <3> QED
      BY <1>0, <1>2, <3>1, <3>2, <3>3
  <2> QED
    BY <2>1, <2>2, <2>3, AlignedHow
<1>6. Dist(s, t, a + 1, b + 1, d)
  BY <1>2, <1>4, <1>5 DEF Dist
<1> QED
  BY <1>3, <1>6 DEF cost

\* The sizes that the instance speaks of are sizes.
LEMMA SameSize == \A S : Distances!Cardinality(S) = Cardinality(S)
  BY Zenon DEF Cardinality, Distances!Cardinality

\* The distance is the one of the documentation.
LEMMA DistanceFewest ==
    ASSUME NEW C, NEW s \in Seq(C), NEW t \in Seq(C),
           NEW a \in 0 .. Len(s), NEW b \in 0 .. Len(t), NEW d, Dist(s, t, a, b, d)
    PROVE  Distances!Fewest(SubSeq(s, 1, a), SubSeq(t, 1, b)) = d
<1> DEFINE u == SubSeq(s, 1, a)
           v == SubSeq(t, 1, b)
           Changes(m) == Len(u) + Len(v) - 2 * Cardinality(m)
                        + Cardinality({p \in m : u[p[1]] # v[p[2]]})
           M == {m \in SUBSET ((DOMAIN u) \X (DOMAIN v)) : Distances!Aligned(m)}
<1>1. /\ Len(u) = a /\ DOMAIN u = 1 .. a /\ \A k \in 1 .. a : u[k] = s[k]
      /\ Len(v) = b /\ DOMAIN v = 1 .. b /\ \A k \in 1 .. b : v[k] = t[k]
  OBVIOUS
<1>2. a \in Nat /\ b \in Nat /\ d \in Nat
  BY DEF Dist
<1> HIDE DEF u, v
<1>3. M = Alignments(a, b)
  BY <1>1 DEF Alignments
<1>4. ASSUME NEW m \in M PROVE Changes(m) = Edits(s, t, a, b, m)
  <2>1. \A p \in m : p[1] \in 1 .. a /\ p[2] \in 1 .. b
    BY <1>1
  <2>2. {p \in m : u[p[1]] # v[p[2]]} = Replaced(s, t, m)
    BY <1>1, <2>1 DEF Replaced
  <2> QED
    BY <1>1, <2>2 DEF Edits
<1> HIDE DEF M, Changes
<1>5. \A m \in M : Changes(m) \in Int
  BY <1>2, <1>3, <1>4, AlignmentFinite
<1>6. d \in {Changes(m) : m \in M} /\ \A e \in {Changes(m) : m \in M} : d <= e
  BY <1>3, <1>4 DEF Dist
<1>7. Distances!Least({Changes(m) : m \in M}) = d
  BY <1>5, <1>6, LeastIs
<1>8. Distances!Fewest(u, v) = Distances!Least({Changes(m) : m \in M})
  <2> DEFINE Count(m) == Len(u) + Len(v) - 2 * Distances!Cardinality(m)
                         + Distances!Cardinality({p \in m : u[p[1]] # v[p[2]]})
  <2>1. Distances!Fewest(u, v) = Distances!Least({Count(m) : m \in M})
    BY Zenon DEF Distances!Fewest, M
  <2>2. \A m : Count(m) = Changes(m)
    BY SameSize, Zenon DEF Changes
  <2> HIDE DEF Count
  <2> QED
    BY <2>1, <2>2
<1> QED
  BY <1>7, <1>8 DEF u, v

\* The row: what is rewritten is the distance from one character of big more.
DistInv ==
    /\ \E C : small \in Seq(C) /\ big \in Seq(C)
    /\ row \in 0 .. Len(big) /\ column \in 0 .. Len(small)
    /\ DOMAIN buffer = 0 .. Len(small)
    /\ small = <<>> => row = 0
    /\ row = 0 => column = Len(small)
    /\ \A k \in 0 .. Len(small) :
         Dist(small, big, k, IF k <= column THEN row ELSE row - 1, buffer[k])
    /\ column < Len(small) => Dist(small, big, column, row - 1, previous)

\* The row of the empty prefix.
LEMMA DistInit == Inputs \subseteq (Seq(STRING) \X Seq(STRING)) /\ Distances!Init => DistInv
<1> SUFFICES ASSUME Inputs \subseteq (Seq(STRING) \X Seq(STRING)), Distances!Init PROVE DistInv
  OBVIOUS
<1>1. /\ small \in Seq(STRING) /\ big \in Seq(STRING)
      /\ buffer = [k \in 0 .. Len(small) |-> k] /\ row = 0 /\ column = Len(small)
  BY DEF Distances!Init
<1>2. Len(small) \in Nat /\ Len(big) \in Nat
  BY <1>1
<1>3. \A k \in 0 .. Len(small) : Dist(small, big, k, 0, buffer[k])
  <2> SUFFICES ASSUME NEW k \in 0 .. Len(small) PROVE Dist(small, big, k, 0, buffer[k])
    OBVIOUS
  <2>1. k \in Nat /\ 0 \in Nat /\ k + 0 = k /\ buffer[k] = k
    BY <1>1, <1>2
  <2>2. Dist(small, big, k, 0, k + 0)
    BY <2>1, EmptyPrefix, Zenon
  <2> QED
    BY <2>1, <2>2
<1> QED
  BY <1>1, <1>2, <1>3 DEF DistInv

\* Each step of the loop keeps the row.
LEMMA DistStep == DistInv /\ [Distances!Next]_(Distances!vars) => DistInv'
<1> SUFFICES ASSUME DistInv, [Distances!Next]_(Distances!vars) PROVE DistInv'
  OBVIOUS
<1>0. Len(small) \in Nat /\ Len(big) \in Nat /\ row \in Nat /\ column \in Nat
  BY DEF DistInv
<1>1. CASE UNCHANGED Distances!vars
  BY <1>1 DEF DistInv, Distances!vars
<1>2. CASE Distances!NextRow
  <2>1. /\ row' = row + 1 /\ column' = 0 /\ previous' = buffer[0] /\ small' = small /\ big' = big
        /\ buffer' = [buffer EXCEPT ![0] = row + 1] /\ column = Len(small)
        /\ row < Len(big) /\ small # <<>>
    BY <1>2 DEF Distances!NextRow
  <2>2. \A k \in 0 .. Len(small) : Dist(small, big, k, row, buffer[k])
    BY <1>0, <2>1 DEF DistInv
  <2>3. Dist(small, big, 0, row + 1, row + 1)
    <3>1. 0 + (row + 1) = row + 1 /\ 0 \in Nat /\ row + 1 \in Nat
      BY <1>0
    <3>2. Dist(small, big, 0, row + 1, 0 + (row + 1))
      BY <3>1, EmptyPrefix, Zenon
    <3> QED
      BY <3>1, <3>2
  <2>4. 0 \in DOMAIN buffer /\ DOMAIN buffer' = DOMAIN buffer /\ buffer'[0] = row + 1
        /\ \A k \in 1 .. Len(small) : buffer'[k] = buffer[k]
    BY <1>0, <2>1 DEF DistInv
  <2>5. \A k \in 0 .. Len(small) : Dist(small, big, k, IF k <= 0 THEN row + 1 ELSE row, buffer'[k])
    BY <1>0, <2>2, <2>3, <2>4
  <2>6. \A k \in 0 .. Len(small) : (IF k <= column' THEN row' ELSE row' - 1) = IF k <= 0 THEN row + 1 ELSE row
    BY <1>0, <2>1
  <2>7. row' \in 0 .. Len(big) /\ column' \in 0 .. Len(small) /\ row' # 0 /\ row' - 1 = row
    BY <1>0, <2>1
  <2>8. Dist(small, big, 0, row, previous')
    BY <1>0, <2>1, <2>2
  <2> QED
    BY <2>1, <2>4, <2>5, <2>6, <2>7, <2>8 DEF DistInv
<1>3. CASE Distances!NextEntry
  <2>1. /\ column' = column + 1 /\ row' = row /\ previous' = buffer[column + 1] /\ small' = small /\ big' = big
        /\ buffer' = [buffer EXCEPT ![column + 1] = Distances!Cheapest]
        /\ row > 0 /\ column < Len(small)
    BY <1>3 DEF Distances!NextEntry
  <2>2. column + 1 \in 0 .. Len(small) /\ column \in 0 .. Len(small) /\ row - 1 \in Nat /\ (row - 1) + 1 = row
        /\ column <= column /\ ~ (column + 1 <= column)
    BY <1>0, <2>1
  <2>3. /\ Dist(small, big, column, row - 1, previous)
        /\ Dist(small, big, column, row, buffer[column])
        /\ Dist(small, big, column + 1, row - 1, buffer[column + 1])
    BY <2>1, <2>2 DEF DistInv
  <2>4. Dist(small, big, column + 1, (row - 1) + 1, Distances!Least({buffer[column] + 1, buffer[column + 1] + 1,
            previous + Cost(small, big, column + 1, (row - 1) + 1)}))
    <3>1. Dist(small, big, column, (row - 1) + 1, buffer[column])
      BY <2>2, <2>3
    <3> QED
      BY <1>0, <2>2, <2>3, <3>1, NextDistance
  <2>5. Dist(small, big, column + 1, row, Distances!Cheapest)
    <3> DEFINE n == row - 1
    <3>1. n + 1 = row
      BY <2>2
    <3>2. Dist(small, big, column + 1, n + 1, Distances!Least({buffer[column] + 1, buffer[column + 1] + 1,
              previous + Cost(small, big, column + 1, n + 1)}))
      BY <2>4
    <3> HIDE DEF n
    <3> QED
      BY <3>1, <3>2 DEF Distances!Cheapest, Cost
  <2>6. /\ DOMAIN buffer' = DOMAIN buffer /\ buffer'[column + 1] = Distances!Cheapest
        /\ \A k \in 0 .. Len(small) : k # column + 1 => buffer'[k] = buffer[k]
    BY <2>1, <2>2 DEF DistInv
  <2>7. ASSUME NEW k \in 0 .. Len(small)
        PROVE  Dist(small, big, k, IF k <= column + 1 THEN row ELSE row - 1, buffer'[k])
    <3>1. CASE k = column + 1
      BY <1>0, <2>5, <2>6, <3>1
    <3>2. CASE k # column + 1
      <4>1. (k <= column + 1) = (k <= column)
        BY <1>0, <3>2
      <4>2. Dist(small, big, k, IF k <= column THEN row ELSE row - 1, buffer[k])
        BY DEF DistInv
      <4> QED
        BY <2>6, <3>2, <4>1, <4>2
    <3> QED
      BY <3>1, <3>2
  <2>8. row' \in 0 .. Len(big) /\ column' \in 0 .. Len(small) /\ row' # 0 /\ small # <<>>
    BY <1>0, <2>1, <2>2 DEF DistInv
  <2>9. Dist(small, big, column', row' - 1, previous')
    BY <2>1, <2>3
  <2> QED
    BY <2>1, <2>6, <2>7, <2>8, <2>9 DEF DistInv
<1> QED
  BY <1>1, <1>2, <1>3 DEF Distances!Next

\* And the row says the distances.
LEMMA DistRight == DistInv => Distances!DistanceExact
<1> SUFFICES ASSUME DistInv PROVE Distances!DistanceExact
  OBVIOUS
<1>0. Len(small) \in Nat /\ Len(big) \in Nat /\ row \in Nat /\ column \in Nat
  BY DEF DistInv
<1>1. PICK C : small \in Seq(C) /\ big \in Seq(C)
  BY DEF DistInv
<1>2. Dist(small, big, column, row, buffer[column])
  BY <1>0 DEF DistInv
<1>3. Distances!Fewest(SubSeq(small, 1, column), SubSeq(big, 1, row)) = buffer[column]
  BY <1>0, <1>1, <1>2, DistanceFewest DEF DistInv
<1>4. SubSeq(small, 1, Len(small)) = small /\ SubSeq(big, 1, Len(big)) = big
  BY <1>1
<1>5. ASSUME Distances!Returned PROVE Distances!Distance = Distances!Fewest(small, big)
  <2>1. CASE small = <<>>
    <3>1. Len(small) = 0
      BY <2>1
    <3>2. Dist(small, big, 0, Len(big), Len(big))
      <4>1. 0 + Len(big) = Len(big) /\ 0 \in Nat
        BY <1>0
      <4>2. Dist(small, big, 0, Len(big), 0 + Len(big))
        BY <1>0, <4>1, EmptyPrefix, Zenon
      <4> QED
        BY <4>1, <4>2
    <3>3. Distances!Fewest(SubSeq(small, 1, 0), SubSeq(big, 1, Len(big))) = Len(big)
      BY <1>0, <1>1, <3>2, DistanceFewest
    <3> QED
      BY <1>4, <2>1, <3>1, <3>3 DEF Distances!Distance
  <2>2. CASE small # <<>>
    <3>1. row = Len(big) /\ column = Len(small)
      BY <1>5, <2>2 DEF Distances!Returned
    <3> QED
      BY <1>3, <1>4, <2>2, <3>1 DEF Distances!Distance
  <2> QED
    BY <2>1, <2>2
<1> QED
  BY <1>3, <1>5 DEF Distances!DistanceExact

-----------------------------------------------------------------------------
(* LineBreak, for texts of any characters and lines of any width.          *)
(*                                                                         *)
(* In a call, the words seen so far fit and the last of them ends where    *)
(* last_word_end says (InCall), so that the next word either fits too or   *)
(* is the first that does not.                                             *)

\* Of natural numbers one is the least.
LEMMA LeastOf ==
    ASSUME NEW S, S \subseteq Nat, S # {}
    PROVE  \E x \in S : \A y \in S : x <= y
<1>1. PICK R : R = {ss \in Nat \X Nat : ss[1] < ss[2]}
  BY Zenon
<1>2. IsWellFoundedOn(R, Nat)
  BY <1>1, NatLessThanWellFounded DEF OpToRel
<1>3. PICK x \in S : \A y \in S : ~ (<<y, x>> \in R)
  BY <1>2, WFMin, Zenon
<1>4. ASSUME NEW y \in S PROVE x <= y
  <2>1. x \in Nat /\ y \in Nat /\ <<y, x>> \in Nat \X Nat
    OBVIOUS
  <2>2. <<y, x>>[1] = y /\ <<y, x>>[2] = x
    OBVIOUS
  <2>3. ~ (y < x)
    BY <1>1, <1>3, <2>1, <2>2
  <2> QED
    BY <2>1, <2>3
<1> QED
  BY <1>4

\* The least and the greatest of a set, when one is known to be it.
LEMMA LineLeast ==
    ASSUME NEW S, S \subseteq Int, NEW d \in S, \A e \in S : d <= e
    PROVE  Lines!Least(S) = d
<1>1. Lines!Least(S) \in S /\ \A y \in S : Lines!Least(S) <= y
  BY DEF Lines!Least
<1>2. Lines!Least(S) <= d /\ d <= Lines!Least(S) /\ Lines!Least(S) \in Int /\ d \in Int
  BY <1>1
<1> QED
  BY <1>2

LEMMA LineGreatest ==
    ASSUME NEW S, S \subseteq Int, NEW d \in S, \A e \in S : e <= d
    PROVE  Lines!Greatest(S) = d
<1>1. Lines!Greatest(S) \in S /\ \A y \in S : y <= Lines!Greatest(S)
  BY DEF Lines!Greatest
<1>2. Lines!Greatest(S) <= d /\ d <= Lines!Greatest(S) /\ Lines!Greatest(S) \in Int /\ d \in Int
  BY <1>1
<1> QED
  BY <1>2

\* Where whitespace and where a word is skipped to.
LEMMA SpaceSkipped ==
    ASSUME Len(text) \in Nat, NEW b \in 0 .. Len(text)
    PROVE  /\ Lines!SkipSpace(b) \in b .. Len(text)
           /\ Lines!SkipSpace(b) = Len(text) \/ text[Lines!SkipSpace(b) + 1] # " "
           /\ \A k \in b + 1 .. Lines!SkipSpace(b) : text[k] = " "
<1> DEFINE S == {q \in b .. Len(text) : q = Len(text) \/ ~Lines!isspace(q)}
<1>1. S \subseteq Nat /\ Len(text) \in S
  OBVIOUS
<1>2. PICK q \in S : \A e \in S : q <= e
  BY <1>1, LeastOf
<1>3. Lines!SkipSpace(b) = q
  <2>1. S \subseteq Int
    OBVIOUS
  <2>2. Lines!SkipSpace(b) = Lines!Least(S)
    BY DEF Lines!SkipSpace
  <2> HIDE DEF S
  <2> QED
    BY <1>2, <2>1, <2>2, LineLeast
<1>4. ASSUME NEW k \in b + 1 .. q PROVE text[k] = " "
  <2>1. k - 1 \in b .. Len(text) /\ k - 1 # Len(text) /\ (k - 1) + 1 = k /\ ~ (q <= k - 1)
    BY <1>1, <1>2
  <2>2. k - 1 \notin S
    BY <1>2, <2>1
  <2>3. Lines!isspace(k - 1)
    BY <2>1, <2>2
  <2> QED
    BY <2>1, <2>3 DEF Lines!isspace
<1>5. q \in b .. Len(text) /\ (q = Len(text) \/ text[q + 1] # " ")
  BY <1>2 DEF Lines!isspace
<1> QED
  BY <1>3, <1>4, <1>5

LEMMA WordSkipped ==
    ASSUME Len(text) \in Nat, NEW b \in 0 .. Len(text)
    PROVE  /\ Lines!SkipWord(b) \in b .. Len(text)
           /\ Lines!SkipWord(b) = Len(text) \/ text[Lines!SkipWord(b) + 1] = " "
           /\ \A k \in b + 1 .. Lines!SkipWord(b) : text[k] # " "
<1> DEFINE S == {q \in b .. Len(text) : q = Len(text) \/ Lines!isspace(q)}
<1>1. S \subseteq Nat /\ Len(text) \in S
  OBVIOUS
<1>2. PICK q \in S : \A e \in S : q <= e
  BY <1>1, LeastOf
<1>3. Lines!SkipWord(b) = q
  <2>1. S \subseteq Int
    OBVIOUS
  <2>2. Lines!SkipWord(b) = Lines!Least(S)
    BY DEF Lines!SkipWord
  <2> HIDE DEF S
  <2> QED
    BY <1>2, <2>1, <2>2, LineLeast
<1>4. ASSUME NEW k \in b + 1 .. q PROVE text[k] # " "
  <2>1. k - 1 \in b .. Len(text) /\ k - 1 # Len(text) /\ (k - 1) + 1 = k /\ ~ (q <= k - 1)
    BY <1>1, <1>2
  <2>2. k - 1 \notin S
    BY <1>2, <2>1
  <2>3. ~ Lines!isspace(k - 1)
    BY <2>1, <2>2
  <2> QED
    BY <2>1, <2>3 DEF Lines!isspace
<1>5. q \in b .. Len(text) /\ (q = Len(text) \/ text[q + 1] = " ")
  BY <1>2 DEF Lines!isspace
<1> QED
  BY <1>3, <1>4, <1>5

\* How much of the original is gone.
Gone == Len(original) - Len(text)

\* What is left is the end of the original.
Suffix ==
    /\ \E C : original \in Seq(C) /\ text \in Seq(C)
    /\ line_width \in Nat
    /\ Len(text) <= Len(original)
    /\ \A k \in 1 .. Len(text) : text[k] = original[Gone + k]

\* In a call, from its first word to the start of another: the last word on the
\* line ends where a word does, and only whitespace is behind it.
InCall ==
    /\ 0 <= first_word_start /\ first_word_start <= last_word_start
    /\ last_word_start < Len(text)
    /\ first_word_start \in Nat /\ last_word_end \in Nat /\ last_word_start \in Nat
    /\ Lines!Blank(Gone, Gone + first_word_start)
    /\ ~Lines!Space(Gone + first_word_start + 1) /\ ~Lines!Space(Gone + last_word_start + 1)
    /\ IF last_word_end = first_word_start THEN last_word_start = first_word_start
       ELSE /\ first_word_start < last_word_end /\ last_word_end <= last_word_start
            /\ Gone + last_word_end \in Lines!WordEnds
            /\ last_word_end - first_word_start <= line_width
            /\ Lines!Blank(Gone + last_word_end, Gone + last_word_start)

\* The lines that were returned are right, and nothing of a call is lost.
LineInv ==
    /\ Suffix
    /\ running \in BOOLEAN /\ running => InCall
    /\ textLines \in Seq([from : Nat, to : Nat])
    /\ textLines = <<>> => text = original
    /\ Lines!LinesExact

\* The same, of offsets in the original.
LEMMA Skipped ==
    ASSUME Suffix, NEW b \in 0 .. Len(text)
    PROVE  /\ Lines!SkipSpace(b) \in b .. Len(text) /\ Lines!SkipWord(b) \in b .. Len(text)
           /\ Lines!SkipSpace(b) = Len(text) \/ ~Lines!Space(Gone + Lines!SkipSpace(b) + 1)
           /\ Lines!SkipWord(b) = Len(text) \/ Lines!Space(Gone + Lines!SkipWord(b) + 1)
           /\ Lines!Blank(Gone + b, Gone + Lines!SkipSpace(b))
           /\ \A k \in Gone + b + 1 .. Gone + Lines!SkipWord(b) : ~Lines!Space(k)
<1> DEFINE g == Gone
           n == Len(text)
           q == Lines!SkipSpace(b)
           w == Lines!SkipWord(b)
<1>1. n \in Nat /\ Len(original) \in Nat /\ g \in Nat
  BY DEF Suffix, Gone
<1>2. \A k \in 1 .. n : text[k] = original[g + k]
  BY DEF Suffix
<1>3. /\ q \in b .. n /\ (q = n \/ text[q + 1] # " ") /\ \A k \in b + 1 .. q : text[k] = " "
      /\ w \in b .. n /\ (w = n \/ text[w + 1] = " ") /\ \A k \in b + 1 .. w : text[k] # " "
  BY <1>1, SpaceSkipped, WordSkipped
<1>9. q \in b .. n /\ w \in b .. n /\ b \in 0 .. n
  BY <1>3
<1> HIDE DEF g, n, q, w
<1>4. b \in Nat /\ q \in Nat /\ w \in Nat /\ b <= q /\ q <= n /\ b <= w /\ w <= n
  BY <1>1, <1>9
<1>5. q = n \/ ~Lines!Space(g + q + 1)
  <2>1. SUFFICES ASSUME q # n PROVE ~Lines!Space(g + q + 1)
    OBVIOUS
  <2>2. q + 1 \in 1 .. n /\ g + (q + 1) = g + q + 1
    BY <1>1, <1>4, <2>1
  <2> QED
    BY <1>2, <1>3, <2>1, <2>2 DEF Lines!Space
<1>6. w = n \/ Lines!Space(g + w + 1)
  <2>1. SUFFICES ASSUME w # n PROVE Lines!Space(g + w + 1)
    OBVIOUS
  <2>2. w + 1 \in 1 .. n /\ g + (w + 1) = g + w + 1
    BY <1>1, <1>4, <2>1
  <2> QED
    BY <1>2, <1>3, <2>1, <2>2 DEF Lines!Space
<1>7. ASSUME NEW k \in g + b + 1 .. g + q PROVE Lines!Space(k)
  <2>1. k - g \in b + 1 .. q /\ k - g \in 1 .. n /\ g + (k - g) = k
    BY <1>1, <1>4
  <2> QED
    BY <1>2, <1>3, <2>1 DEF Lines!Space
<1>8. ASSUME NEW k \in g + b + 1 .. g + w PROVE ~Lines!Space(k)
  <2>1. k - g \in b + 1 .. w /\ k - g \in 1 .. n /\ g + (k - g) = k
    BY <1>1, <1>4
  <2> QED
    BY <1>2, <1>3, <2>1 DEF Lines!Space
<1> QED
  BY <1>3, <1>5, <1>6, <1>7, <1>8 DEF g, n, q, w, Lines!Blank

\* What is left when a call leaves what is behind `rest`, where no whitespace is.
LEMMA LeftBehind ==
    ASSUME Suffix, NEW rest \in 0 .. Len(text), text' = SubSeq(text, rest + 1, Len(text)),
           UNCHANGED <<original, line_width>>
    PROVE  /\ Suffix' /\ Gone' = Gone + rest /\ Gone \in Nat /\ Gone + rest <= Len(original)
           /\ text' # <<>> => rest < Len(text) /\ Head(text') = original[Gone + rest + 1]
           /\ text' = <<>> => rest = Len(text)
<1> DEFINE g == Gone
           n == Len(text)
<1>0. PICK C : original \in Seq(C) /\ text \in Seq(C)
  BY DEF Suffix
<1>1. n \in Nat /\ Len(original) \in Nat /\ g \in Nat /\ g + n = Len(original)
  BY DEF Suffix, Gone
<1>2. \A k \in 1 .. n : text[k] = original[g + k]
  BY DEF Suffix
<1>3. /\ text' \in Seq(C) /\ Len(text') = n - rest
      /\ \A k \in 1 .. n - rest : text'[k] = text[rest + k]
  BY <1>0
<1>4. Gone' = g + rest
  <2>1. Gone' = Len(original) - Len(text')
    BY DEF Gone
  <2> HIDE DEF g, n
  <2> QED
    BY <1>1, <1>3, <2>1
<1>7. rest \in 0 .. n
  OBVIOUS
<1> HIDE DEF g, n
<1>5. ASSUME NEW k \in 1 .. n - rest PROVE text'[k] = original[g + rest + k]
  <2>1. rest + k \in 1 .. n /\ g + (rest + k) = g + rest + k
    BY <1>1, <1>7
  <2> QED
    BY <1>2, <1>3, <2>1
<1>6. Suffix'
  <2>1. \E D : original' \in Seq(D) /\ text' \in Seq(D)
    BY <1>0, <1>3
  <2>2. Len(text') <= Len(original)
    BY <1>1, <1>3, <1>7
  <2>3. \A k \in 1 .. Len(text') : text'[k] = original'[Gone' + k]
    BY <1>3, <1>4, <1>5
  <2>4. line_width' \in Nat
    BY DEF Suffix
  <2> QED
    BY <2>1, <2>2, <2>3, <2>4 DEF Suffix
<1>8. ASSUME text' # <<>> PROVE rest < n /\ Head(text') = original[g + rest + 1]
  <2>1. Len(text') # 0 /\ Head(text') = text'[1]
    BY <1>3, <1>8
  <2>2. rest < n /\ 1 \in 1 .. n - rest
    BY <1>1, <1>3, <1>7, <2>1
  <2> QED
    BY <1>5, <2>1, <2>2
<1>9. ASSUME text' = <<>> PROVE rest = n
  <2>1. Len(text') = 0
    BY <1>3, <1>9
  <2> QED
    BY <1>1, <1>3, <1>7, <2>1
<1> QED
  BY <1>1, <1>4, <1>6, <1>7, <1>8, <1>9 DEF g, n

\* Only whitespace is gone since the last line.
Before == IF textLines = <<>> THEN 0 ELSE textLines[Len(textLines)].to
LEMMA GoneBlank ==
    ASSUME LineInv
    PROVE  /\ Before \in Nat /\ Gone \in Nat /\ Lines!Blank(Before, Gone)
           /\ Len(text) \in Nat /\ Len(original) \in Nat /\ Gone + Len(text) = Len(original)
<1>1. /\ Len(text) \in Nat /\ Len(original) \in Nat /\ Gone \in Nat
      /\ Gone + Len(text) = Len(original)
  BY DEF LineInv, Suffix, Gone
<1>2. CASE textLines = <<>>
  <2>1. Gone = 0
    BY <1>1, <1>2 DEF LineInv, Gone
  <2>2. 0 + 1 .. 0 = {}
    OBVIOUS
  <2> QED
    BY <1>1, <1>2, <2>1, <2>2 DEF Before, Lines!Blank
<1>3. CASE textLines # <<>>
  <2>0. Len(textLines) \in 1 .. Len(textLines) /\ textLines \in Seq([from : Nat, to : Nat])
    BY <1>3 DEF LineInv
  <2> DEFINE R == [from : Nat, to : Nat]
  <2>1. textLines[Len(textLines)] \in R
    <3>1. textLines \in Seq(R)
      BY <2>0
    <3> HIDE DEF R
    <3> QED
      BY <2>0, <3>1
  <2> QED
    BY <1>1, <1>3, <2>1 DEF LineInv, Lines!LinesExact, Before, Gone
<1> QED
  BY <1>2, <1>3

\* A line is added.
LEMMA LineAdded ==
    ASSUME LineInv, NEW from \in Nat, NEW to \in Nat, NEW rest \in 0 .. Len(text),
           Lines!Return(from, to, rest),
           Lines!LineExact([from |-> Gone + from, to |-> Gone + to], Before),
           Lines!Blank(Gone + to, Gone + rest),
           rest = Len(text) \/ ~Lines!Space(Gone + rest + 1)
    PROVE  LineInv'
<1> DEFINE added == [from |-> Gone + from, to |-> Gone + to]
           n == Len(textLines)
<1>1. /\ textLines' = Append(textLines, added) /\ running' = FALSE
      /\ text' = SubSeq(text, rest + 1, Len(text))
      /\ line_width' = line_width /\ original' = original
  BY DEF Lines!Return, Gone
<1>2. /\ Suffix' /\ Gone' = Gone + rest
      /\ text' # <<>> => rest < Len(text) /\ Head(text') = original[Gone + rest + 1]
  BY <1>1, LeftBehind DEF LineInv
<1>3. Gone \in Nat /\ textLines \in Seq([from : Nat, to : Nat]) /\ n \in Nat
      /\ Len(text) \in Nat
  BY GoneBlank DEF LineInv
<1>4. added \in [from : Nat, to : Nat]
  BY <1>3
<1>5. /\ textLines' \in Seq([from : Nat, to : Nat]) /\ Len(textLines') = n + 1 /\ textLines' # <<>>
      /\ DOMAIN textLines' = 1 .. n + 1
      /\ textLines'[n + 1] = added /\ \A k \in 1 .. n : textLines'[k] = textLines[k]
  <2> HIDE DEF added
  <2> QED
    BY <1>1, <1>3, <1>4
<1>6. \A l, b : Lines!LineExact(l, b)' = Lines!LineExact(l, b)
  BY <1>1 DEF Lines!LineExact, Lines!WordEnds, Lines!Blank, Lines!Space
<1>7. ASSUME NEW k \in 1 .. n + 1
      PROVE  Lines!LineExact(textLines'[k], IF k = 1 THEN 0 ELSE textLines'[k - 1].to)
  <2>1. CASE k = n + 1
    <3>1. (IF k = 1 THEN 0 ELSE textLines'[k - 1].to) = Before
      <4>1. CASE n = 0
        <5>1. textLines = <<>>
          BY <1>3, <4>1
        <5> QED
          BY <2>1, <4>1, <5>1 DEF Before
      <4>2. CASE n # 0
        <5>1. textLines # <<>> /\ n \in 1 .. n /\ k # 1 /\ k - 1 = n
          BY <1>3, <2>1, <4>2
        <5> QED
          BY <1>5, <5>1 DEF Before
      <4> QED
        BY <4>1, <4>2
    <3> QED
      BY <1>5, <2>1, <3>1
  <2>2. CASE k # n + 1
    <3>1. k \in 1 .. n /\ (k # 1 => k - 1 \in 1 .. n) /\ DOMAIN textLines = 1 .. n
      BY <1>3, <2>2
    <3>2. Lines!LineExact(textLines[k], IF k = 1 THEN 0 ELSE textLines[k - 1].to)
      BY <3>1 DEF LineInv, Lines!LinesExact
    <3> QED
      BY <1>5, <3>1, <3>2
  <2> QED
    BY <2>1, <2>2
<1>8. textLines'[Len(textLines')].to = Gone + to
  <2>1. added.to = Gone + to
    OBVIOUS
  <2> HIDE DEF added
  <2> QED
    BY <1>5, <2>1
<1>9. Lines!Blank(textLines[Len(textLines)].to, Gone)'
  <2>1. \A x, y : Lines!Blank(x, y)' = Lines!Blank(x, y)
    BY <1>1 DEF Lines!Blank, Lines!Space
  <2>2. Lines!Blank(textLines[Len(textLines)].to, Gone)' = Lines!Blank(textLines'[Len(textLines')].to, Gone')
    BY <1>1 DEF Lines!Blank, Lines!Space
  <2> QED
    BY <1>2, <1>8, <2>2
<1>10. ASSUME text' # <<>> PROVE Head(text') # " "
  <2>1. rest < Len(text) /\ Head(text') = original[Gone + rest + 1]
    BY <1>2, <1>10
  <2>2. rest # Len(text)
    BY <1>3, <2>1
  <2> QED
    BY <2>1, <2>2 DEF Lines!Space
<1>11. Lines!LinesExact'
  <2>1. (\A k \in DOMAIN textLines :
            Lines!LineExact(textLines[k], IF k = 1 THEN 0 ELSE textLines[k - 1].to))'
    BY <1>5, <1>6, <1>7
  <2> QED
    BY <1>9, <1>10, <2>1 DEF Lines!LinesExact, Gone
<1> QED
  BY <1>1, <1>2, <1>5, <1>11 DEF LineInv

\* The word that starts at b is the next to end.
LEMMA NextEnd ==
    ASSUME Suffix, NEW b \in Nat, b < Len(text), ~Lines!Space(Gone + b + 1)
    PROVE  /\ Lines!SkipWord(b) \in b + 1 .. Len(text) /\ Gone + Lines!SkipWord(b) \in Lines!WordEnds
           /\ \A k \in Lines!WordEnds : k > Gone + b => Gone + Lines!SkipWord(b) <= k
<1> DEFINE g == Gone
           w == Lines!SkipWord(b)
           n == Len(text)
<1>1. n \in Nat /\ Len(original) \in Nat /\ g \in Nat /\ g + n = Len(original)
      /\ DOMAIN original = 1 .. Len(original)
  BY DEF Suffix, Gone
<1>2. /\ w \in b .. n /\ (w = n \/ Lines!Space(g + w + 1))
      /\ \A k \in g + b + 1 .. g + w : ~Lines!Space(k)
  <2>1. b \in 0 .. Len(text)
    BY <1>1
  <2> QED
    BY <2>1, Skipped, Zenon
<1>3. b \in Nat /\ b < n /\ ~Lines!Space(g + b + 1)
  OBVIOUS
<1> HIDE DEF g, w, n
<1>4. w # b
  BY <1>1, <1>2, <1>3
<1>5. w \in b + 1 .. n
  <2>1. w \in b .. n
    BY <1>2
  <2> QED
    BY <1>1, <1>3, <1>4, <2>1
<1>6. g + w \in Lines!WordEnds
  <2>1. g + w \in g + b + 1 .. g + w /\ g + w \in 1 .. Len(original)
    BY <1>1, <1>3, <1>5
  <2>2. w = n => g + w = Len(original)
    BY <1>1
  <2> QED
    BY <1>1, <1>2, <2>1, <2>2 DEF Lines!WordEnds
<1>7. ASSUME NEW k \in Lines!WordEnds, k > g + b, ~ (g + w <= k) PROVE FALSE
  <2>1. k \in 1 .. Len(original) /\ (k = Len(original) \/ Lines!Space(k + 1))
    BY <1>1 DEF Lines!WordEnds
  <2>2. k + 1 \in g + b + 1 .. g + w /\ k # Len(original)
    BY <1>1, <1>3, <1>5, <1>7, <2>1
  <2> QED
    BY <1>2, <2>1, <2>2
<1> QED
  BY <1>5, <1>6, <1>7 DEF g, w, n

\* No word ends in whitespace.
LEMMA NoEnd ==
    ASSUME Suffix, NEW a \in Int, NEW b \in Int, Lines!Blank(a, b), NEW k \in Lines!WordEnds, k > a
    PROVE  k > b
<1>1. k \in Int /\ ~Lines!Space(k)
  BY DEF Lines!WordEnds, Suffix
<1>2. ASSUME ~ (k > b) PROVE FALSE
  <2>1. k \in a + 1 .. b
    BY <1>1, <1>2
  <2> QED
    BY <1>1, <2>1 DEF Lines!Blank
<1> QED
  BY <1>2

\* Before the first call.
LEMMA LineInit ==
    ASSUME Lines!Init, NEW C, original \in Seq(C), line_width \in Nat
    PROVE  LineInv
<1>1. /\ text = original /\ running = FALSE /\ textLines = <<>> /\ Len(original) \in Nat
  BY DEF Lines!Init
<1>2. Gone = 0 /\ \A k \in 1 .. Len(original) : Gone + k = k
  BY <1>1 DEF Gone
<1>3. Suffix
  BY <1>1, <1>2 DEF Suffix
<1>4. Lines!LinesExact
  BY <1>1 DEF Lines!LinesExact
<1> QED
  BY <1>1, <1>3, <1>4 DEF LineInv

\* Whitespace behind whitespace.
LEMMA BlankJoins ==
    ASSUME NEW a \in Int, NEW b \in Int, NEW c \in Int, Lines!Blank(a, b), Lines!Blank(b, c)
    PROVE  Lines!Blank(a, c)
<1>1. \A k \in a + 1 .. c : k \in a + 1 .. b \/ k \in b + 1 .. c
  OBVIOUS
<1> QED
  BY <1>1 DEF Lines!Blank

\* A line that is returned from a call.
LEMMA LineReturned ==
    ASSUME LineInv, InCall, NEW to \in Nat, NEW rest \in 0 .. Len(text),
           first_word_start < to,
           Lines!Return(first_word_start, to, rest),
           LET behind == {k \in Lines!WordEnds : k > Gone + first_word_start}
               fitting == {k \in behind : k - (Gone + first_word_start) <= line_width}
           IN  Gone + to = IF fitting # {} THEN Lines!Greatest(fitting) ELSE Lines!Least(behind),
           Lines!Blank(Gone + to, Gone + rest),
           rest = Len(text) \/ ~Lines!Space(Gone + rest + 1)
    PROVE  LineInv'
<1> DEFINE from == Gone + first_word_start
           added == [from |-> from, to |-> Gone + to]
<1>1. Before \in Nat /\ Gone \in Nat /\ Lines!Blank(Before, Gone) /\ first_word_start \in Nat
  BY GoneBlank DEF InCall
<1>2. Lines!Blank(Before, from)
  BY <1>1, BlankJoins DEF InCall
<1>3. from # Gone + to /\ ~Lines!Space(from + 1)
  BY <1>1 DEF InCall
<1>4. added.from = from /\ added.to = Gone + to
  OBVIOUS
<1>5. Lines!LineExact(added, Before)
  <2> HIDE DEF added
  <2> QED
    BY <1>2, <1>3, <1>4 DEF Lines!LineExact
<1> QED
  BY <1>1, <1>5, LineAdded

\* The text and the lines stay.
LEMMA LineSame ==
    ASSUME LineInv, UNCHANGED <<text, line_width, original, textLines>>
    PROVE  /\ Gone' = Gone /\ Len(text') = Len(text) /\ Lines!WordEnds' = Lines!WordEnds
           /\ (\A k : Lines!Space(k)' = Lines!Space(k)) /\ \A a, b : Lines!Blank(a, b)' = Lines!Blank(a, b)
           /\ Suffix' /\ Lines!LinesExact'
<1>1. /\ Gone' = Gone /\ Lines!WordEnds' = Lines!WordEnds
      /\ (\A k : Lines!Space(k)' = Lines!Space(k)) /\ \A a, b : Lines!Blank(a, b)' = Lines!Blank(a, b)
  BY DEF Gone, Lines!WordEnds, Lines!Space, Lines!Blank
<1>2. Suffix'
  BY <1>1 DEF LineInv, Suffix
<1>3. \A l, b : Lines!LineExact(l, b)' = Lines!LineExact(l, b)
  BY DEF Lines!LineExact, Lines!WordEnds, Lines!Blank, Lines!Space
<1>4. Lines!Blank(textLines[Len(textLines)].to, Len(original) - Len(text))'
        = Lines!Blank(textLines[Len(textLines)].to, Len(original) - Len(text))
  BY DEF Lines!Blank, Lines!Space
<1>5. Lines!LinesExact'
  <2>1. (\A k \in DOMAIN textLines :
            Lines!LineExact(textLines[k], IF k = 1 THEN 0 ELSE textLines[k - 1].to))'
    BY <1>3 DEF LineInv, Lines!LinesExact
  <2>2. (textLines # <<>> => /\ Lines!Blank(textLines[Len(textLines)].to, Len(original) - Len(text))
                             /\ text # <<>> => Head(text) # " ")'
    BY <1>4 DEF LineInv, Lines!LinesExact
  <2> QED
    BY <2>1, <2>2, Zenon DEF Lines!LinesExact
<1> QED
  BY <1>1, <1>2, <1>5

\* Each step of a call, and each call.
LEMMA LineStep == LineInv /\ [Lines!Next]_(Lines!vars) => LineInv'
<1> SUFFICES ASSUME LineInv, [Lines!Next]_(Lines!vars) PROVE LineInv'
  OBVIOUS
<1> DEFINE n == Len(text)
           g == Gone
           e == Lines!next_word_end
           q == Lines!next_word_start
           from == first_word_start
           behind == {k \in Lines!WordEnds : k > g + from}
           fitting == {k \in behind : k - (g + from) <= line_width}
<1>1. /\ Before \in Nat /\ g \in Nat /\ Lines!Blank(Before, g) /\ Suffix
      /\ n \in Nat /\ Len(original) \in Nat /\ g + n = Len(original)
      /\ line_width \in Nat /\ Lines!WordEnds \subseteq Nat
  BY GoneBlank DEF LineInv, Suffix, Lines!WordEnds
<1>2. CASE UNCHANGED Lines!vars
  <2>1. /\ UNCHANGED <<text, line_width, original, textLines>>
        /\ UNCHANGED <<running, first_word_start, last_word_end, last_word_start>>
    BY <1>2 DEF Lines!vars
  <2>2. running => InCall'
    BY <2>1, LineSame DEF LineInv, InCall
  <2> QED
    BY <2>1, <2>2, LineSame DEF LineInv
<1>3. CASE Lines!OnlySpace
  <2>1. ~running /\ text # <<>> /\ Lines!SkipSpace(0) = n /\ Lines!Return(n, n, n)
    BY <1>3 DEF Lines!OnlySpace
  <2>2. Lines!Blank(g, g + n)
    <3>1. 0 \in 0 .. n /\ g + 0 = g
      BY <1>1
    <3>2. Lines!Blank(g + 0, g + Lines!SkipSpace(0))
      BY <1>1, <3>1, Skipped
    <3> QED
      BY <2>1, <3>1, <3>2
  <2>3. Lines!Blank(Before, g + n)
    BY <1>1, <2>2, BlankJoins
  <2> DEFINE added == [from |-> g + n, to |-> g + n]
  <2>4. Lines!LineExact(added, Before)
    <3>1. added.from = g + n /\ added.to = g + n
      OBVIOUS
    <3> HIDE DEF added
    <3> QED
      BY <1>1, <2>3, <3>1 DEF Lines!LineExact
  <2>5. Lines!Blank(g + n, g + n)
    BY <1>1 DEF Lines!Blank
  <2> QED
    BY <1>1, <2>1, <2>4, <2>5, LineAdded
<1>4. CASE Lines!GreedyLineBreak
  <2> DEFINE f == Lines!SkipSpace(0)
  <2>1. /\ f # n /\ running' = TRUE /\ first_word_start' = f /\ last_word_end' = f
        /\ last_word_start' = f
        /\ UNCHANGED <<text, line_width, original, textLines>>
    BY <1>4 DEF Lines!GreedyLineBreak
  <2>2. 0 \in 0 .. n /\ g + 0 = g
    BY <1>1
  <2>3. f \in 0 .. n /\ (f = n \/ ~Lines!Space(g + f + 1)) /\ Lines!Blank(g + 0, g + f)
    BY <1>1, <2>2, Skipped
  <2>4. f \in Nat /\ f < n /\ ~Lines!Space(g + f + 1) /\ Lines!Blank(g, g + f)
    BY <1>1, <2>1, <2>2, <2>3
  <2>5. Gone' = g /\ Len(text') = n /\ (\A k : Lines!Space(k)' = Lines!Space(k))
        /\ (\A x, y : Lines!Blank(x, y)' = Lines!Blank(x, y)) /\ Lines!WordEnds' = Lines!WordEnds
    BY <2>1 DEF Gone, Lines!Space, Lines!Blank, Lines!WordEnds
  <2> HIDE DEF f, g, n
  <2>6. InCall'
    BY <2>1, <2>4, <2>5 DEF InCall
  <2>7. Suffix' /\ Lines!LinesExact'
    BY <2>1, LineSame
  <2> QED
    BY <2>1, <2>6, <2>7 DEF LineInv
<1>5. ASSUME running
      PROVE  /\ InCall /\ e \in last_word_start + 1 .. n /\ q \in e .. n
             /\ g + e \in Lines!WordEnds
             /\ \A k \in Lines!WordEnds : k > g + last_word_start => g + e <= k
             /\ Lines!Blank(g + e, g + q) /\ (q = n \/ ~Lines!Space(g + q + 1))
             /\ from \in Nat /\ last_word_end \in Nat /\ last_word_start \in Nat
             /\ from <= last_word_start
  <2>1. InCall
    BY <1>5 DEF LineInv
  <2>2. /\ e \in last_word_start + 1 .. n /\ g + e \in Lines!WordEnds
        /\ \A k \in Lines!WordEnds : k > g + last_word_start => g + e <= k
    BY <1>1, <2>1, NextEnd DEF InCall, Lines!next_word_end
  <2>3. e \in 0 .. n
    BY <1>1, <2>1, <2>2 DEF InCall
  <2>4. q \in e .. n /\ Lines!Blank(g + e, g + q) /\ (q = n \/ ~Lines!Space(g + q + 1))
    BY <1>1, <2>3, Skipped DEF Lines!next_word_start
  <2> QED
    BY <2>1, <2>2, <2>4 DEF InCall
<1>6. CASE Lines!NextWord
  <2>1. /\ running /\ e - from <= line_width /\ q # n
        /\ last_word_end' = e /\ last_word_start' = q
        /\ UNCHANGED <<text, line_width, running, first_word_start, original, textLines>>
    BY <1>6 DEF Lines!NextWord, Lines!Fits
  <2>2. Gone' = g /\ Len(text') = n /\ (\A k : Lines!Space(k)' = Lines!Space(k))
        /\ (\A x, y : Lines!Blank(x, y)' = Lines!Blank(x, y)) /\ Lines!WordEnds' = Lines!WordEnds
    BY <2>1 DEF Gone, Lines!Space, Lines!Blank, Lines!WordEnds
  <2>3. /\ e \in last_word_start + 1 .. n /\ q \in e .. n /\ g + e \in Lines!WordEnds
        /\ Lines!Blank(g + e, g + q) /\ ~Lines!Space(g + q + 1) /\ from \in Nat
        /\ last_word_start \in Nat /\ from <= last_word_start
        /\ Lines!Blank(g, g + from) /\ ~Lines!Space(g + from + 1)
    BY <1>5, <2>1 DEF InCall
  <2>4. e \in Nat /\ q \in Nat /\ from < e /\ e <= q /\ q < n /\ e # from
    BY <1>1, <2>1, <2>3
  <2>5. Suffix' /\ Lines!LinesExact'
    BY <2>1, LineSame
  <2> HIDE DEF g, n, e, q
  <2>6. InCall'
    BY <2>1, <2>2, <2>3, <2>4 DEF InCall
  <2> QED
    BY <2>1, <2>5, <2>6 DEF LineInv
<1>7. CASE Lines!Full
  <2>1. running /\ ~ (e - from <= line_width)
    BY <1>7 DEF Lines!Full, Lines!Fits
  <2>2. CASE last_word_end = from
    <3>1. Lines!Return(from, e, q)
      BY <1>7, <2>2 DEF Lines!Full
    <3>2. last_word_start = from
      BY <1>5, <2>1, <2>2 DEF InCall
    <3>3. e \in Nat /\ q \in 0 .. n /\ from < e
      BY <1>1, <1>5, <2>1
    <3>5. behind \subseteq Int /\ g + e \in behind /\ \A k \in behind : g + e <= k
      <4>1. g + e \in Lines!WordEnds /\ \A k \in Lines!WordEnds : k > g + from => g + e <= k
        BY <1>5, <2>1, <3>2
      <4>2. g + e > g + from
        BY <1>1, <1>5, <2>1, <3>3
      <4>3. Lines!WordEnds \subseteq Int /\ \A k \in behind : k \in Lines!WordEnds /\ k > g + from
        BY <1>1
      <4>4. g + e \in behind
        BY <4>1, <4>2
      <4> HIDE DEF behind
      <4> QED
        BY <4>1, <4>3, <4>4
    <3>4. fitting = {}
      <4>1. from \in Nat
        BY <1>5, <2>1
      <4>2. ASSUME NEW k \in behind PROVE ~ (k - (g + from) <= line_width)
        <5>1. k \in Int /\ g + e <= k
          BY <3>5
        <5> HIDE DEF g, e, from, behind
        <5> QED
          BY <1>1, <2>1, <3>3, <4>1, <5>1
      <4> HIDE DEF behind
      <4> QED
        BY <4>2
    <3>6. Lines!Least(behind) = g + e
      <4> HIDE DEF behind, e, g
      <4> QED
        BY <3>5, LineLeast
    <3>7. g + e = IF fitting # {} THEN Lines!Greatest(fitting) ELSE Lines!Least(behind)
      BY <3>4, <3>6
    <3> QED
      BY <1>5, <2>1, <3>1, <3>3, <3>7, LineReturned
  <2>3. CASE last_word_end # from
    <3> DEFINE l == last_word_end
               r == last_word_start
    <3>1. Lines!Return(from, l, r)
      BY <1>7, <2>3 DEF Lines!Full
    <3>2. /\ l \in Nat /\ r \in 0 .. n /\ from < l /\ l <= r /\ g + l \in Lines!WordEnds
          /\ l - from <= line_width /\ Lines!Blank(g + l, g + r) /\ ~Lines!Space(g + r + 1)
      BY <1>1, <1>5, <2>1, <2>3 DEF InCall
    <3>3. fitting \subseteq Int /\ g + l \in fitting
      <4>1. from \in Nat
        BY <1>5, <2>1
      <4>2. g + l > g + from /\ (g + l) - (g + from) <= line_width
        <5> HIDE DEF g, l, from
        <5> QED
          BY <1>1, <3>2, <4>1
      <4>3. g + l \in behind
        BY <3>2, <4>2
      <4>4. Lines!WordEnds \subseteq Int /\ \A k \in fitting : k \in Lines!WordEnds
        BY <1>1
      <4>5. g + l \in fitting
        BY <4>2, <4>3
      <4> QED
        BY <4>4, <4>5
    <3>4. ASSUME NEW k \in fitting PROVE k <= g + l
      <4>1. k \in Lines!WordEnds /\ k \in Nat /\ k - (g + from) <= line_width
        BY <1>1
      <4>2. SUFFICES ASSUME k > g + l PROVE FALSE
        BY <1>1, <3>2, <4>1
      <4>3. k > g + r
        BY <1>1, <3>2, <4>1, <4>2, NoEnd
      <4>4. g + e <= k
        BY <1>5, <2>1, <4>1, <4>3
      <4> QED
        BY <1>1, <1>5, <2>1, <4>1, <4>4
    <3>5. Lines!Greatest(fitting) = g + l
      <4> HIDE DEF fitting, g
      <4> QED
        BY <3>3, <3>4, LineGreatest
    <3>6. g + l = IF fitting # {} THEN Lines!Greatest(fitting) ELSE Lines!Least(behind)
      BY <3>3, <3>5
    <3> QED
      BY <1>5, <2>1, <3>1, <3>2, <3>6, LineReturned
  <2> QED
    BY <2>2, <2>3
<1>8. CASE Lines!End
  <2>1. running /\ e - from <= line_width /\ q = n /\ Lines!Return(from, e, n)
    BY <1>8 DEF Lines!End, Lines!Fits
  <2>2. e \in Nat /\ from < e /\ Lines!Blank(g + e, g + n) /\ n \in 0 .. n
    BY <1>1, <1>5, <2>1
  <2>3. fitting \subseteq Int /\ g + e \in fitting
    <3>1. from \in Nat /\ g + e \in Lines!WordEnds
      BY <1>5, <2>1
    <3>2. g + e > g + from /\ (g + e) - (g + from) <= line_width
      <4> HIDE DEF g, e, from
      <4> QED
        BY <1>1, <2>1, <2>2, <3>1
    <3>3. g + e \in behind
      BY <3>1, <3>2
    <3>4. Lines!WordEnds \subseteq Int /\ \A k \in fitting : k \in Lines!WordEnds
      BY <1>1
    <3>5. g + e \in fitting
      BY <3>2, <3>3
    <3> QED
      BY <3>4, <3>5
  <2>4. ASSUME NEW k \in fitting PROVE k <= g + e
    <3>1. k \in Lines!WordEnds /\ k \in Nat /\ k <= Len(original)
      BY <1>1 DEF Lines!WordEnds, Suffix
    <3>2. SUFFICES ASSUME k > g + e PROVE FALSE
      BY <1>1, <2>2, <3>1
    <3>3. k > g + n
      BY <1>1, <2>2, <3>1, <3>2, NoEnd
    <3> QED
      BY <1>1, <3>1, <3>3
  <2>5. Lines!Greatest(fitting) = g + e
    <3> HIDE DEF fitting, g, e
    <3> QED
      BY <2>3, <2>4, LineGreatest
  <2>6. g + e = IF fitting # {} THEN Lines!Greatest(fitting) ELSE Lines!Least(behind)
    BY <2>3, <2>5
  <2> QED
    BY <1>5, <2>1, <2>2, <2>6, LineReturned
<1> QED
  BY <1>2, <1>3, <1>4, <1>6, <1>7, <1>8 DEF Lines!Next

-----------------------------------------------------------------------------
(* FilePath, for texts of any characters.                                  *)
(*                                                                         *)
(* What is read of the text is a way through directories, and the path is  *)
(* the last of them (PathInv); every directory is the one before with a    *)
(* name, in which there is no slash, so that the last slash of the path is *)
(* where the directory before ends (LastSlash).                            *)

\* Extremes that are known.
LEMMA PathLeast ==
    ASSUME NEW S, S \subseteq Int, NEW d \in S, \A e \in S : d <= e
    PROVE  FilePaths!Least(S) = d
<1>1. FilePaths!Least(S) \in S /\ \A y \in S : FilePaths!Least(S) <= y
  BY DEF FilePaths!Least
<1>2. FilePaths!Least(S) <= d /\ d <= FilePaths!Least(S) /\ FilePaths!Least(S) \in Int /\ d \in Int
  BY <1>1
<1> QED
  BY <1>2

LEMMA PathGreatest ==
    ASSUME NEW S, S \subseteq Int, NEW d \in S, \A e \in S : e <= d
    PROVE  FilePaths!Greatest(S) = d
<1>1. FilePaths!Greatest(S) \in S /\ \A y \in S : y <= FilePaths!Greatest(S)
  BY DEF FilePaths!Greatest
<1>2. FilePaths!Greatest(S) <= d /\ d <= FilePaths!Greatest(S) /\ FilePaths!Greatest(S) \in Int /\ d \in Int
  BY <1>1
<1> QED
  BY <1>2

\* The way: what a step of it makes of the state before.
WayStart == [ok |-> TRUE, part |-> <<>>, dirs |-> <<IF FilePaths!absolute THEN <<"/">> ELSE <<>>>>]
WayStep(k, w, w0) ==
    IF given[k] # "/" THEN [w EXCEPT !.part = Append(@, given[k])]
    ELSE IF k = 1 THEN w0 ELSE FilePaths!Entered(w)
Goes(f, m) == f = [k \in 0 .. m |-> IF k = 0 THEN WayStart ELSE WayStep(k, f[k - 1], f[0])]

\* There is a way through all of the text.
LEMMA WayGoes == ASSUME Len(given) \in Nat PROVE Goes(FilePaths!Way, Len(given))
<1> DEFINE n == Len(given)
           Has(m) == \E f : Goes(f, m)
           Fail == {m \in 0 .. n : ~ Has(m)}
<1>1. n \in Nat /\ Fail \subseteq Nat
  OBVIOUS
<1>2. Has(0)
  <2> DEFINE f == [k \in 0 .. 0 |-> WayStart]
  <2>1. f = [k \in 0 .. 0 |-> IF k = 0 THEN WayStart ELSE WayStep(k, f[k - 1], f[0])]
    OBVIOUS
  <2> QED
    BY <2>1 DEF Goes
<1>3. ASSUME NEW m \in 1 .. n, Has(m - 1) PROVE Has(m)
  <2>1. PICK g : Goes(g, m - 1)
    BY <1>3
  <2> DEFINE f == [k \in 0 .. m |-> IF k = m THEN WayStep(m, g[m - 1], g[0]) ELSE g[k]]
             h == [k \in 0 .. m |-> IF k = 0 THEN WayStart ELSE WayStep(k, f[k - 1], f[0])]
  <2>2. m \in Nat /\ m - 1 \in Nat /\ m # 0 /\ m - 1 \in 0 .. m /\ m - 1 # m /\ 0 \in 0 .. m
    BY <1>1
  <2>3. /\ g = [k \in 0 .. m - 1 |-> IF k = 0 THEN WayStart ELSE WayStep(k, g[k - 1], g[0])]
    BY <2>1 DEF Goes
  <2>4. f[0] = g[0] /\ f[m - 1] = g[m - 1] /\ f[m] = WayStep(m, g[m - 1], g[0])
    BY <2>2
  <2>5. ASSUME NEW k \in 0 .. m PROVE f[k] = h[k]
    <3>1. CASE k = m
      <4>1. h[m] = WayStep(m, f[m - 1], f[0])
        BY <2>2
      <4> QED
        BY <2>4, <3>1, <4>1
    <3>2. CASE k # m
      <4>1. k \in 0 .. m - 1 /\ (k # 0 => k - 1 \in 0 .. m /\ k - 1 # m)
        BY <2>2, <3>2
      <4>2. f[k] = g[k] /\ (k # 0 => f[k - 1] = g[k - 1])
        BY <3>2, <4>1
      <4>3. g[k] = IF k = 0 THEN WayStart ELSE WayStep(k, g[k - 1], g[0])
        BY <2>3, <4>1
      <4>4. h[k] = IF k = 0 THEN WayStart ELSE WayStep(k, f[k - 1], f[0])
        OBVIOUS
      <4> QED
        BY <2>4, <4>2, <4>3, <4>4
    <3> QED
      BY <3>1, <3>2
  <2>6. f = h
    BY <2>5
  <2> QED
    BY <2>6, Zenon DEF Goes
<1>4. Fail = {}
  <2>1. SUFFICES ASSUME Fail # {} PROVE FALSE
    OBVIOUS
  <2>2. PICK m \in Fail : \A x \in Fail : m <= x
    BY <1>1, <2>1, LeastOf, Zenon
  <2>3. m \in 0 .. n /\ ~ Has(m)
    BY <2>2
  <2> HIDE DEF Has
  <2>4. m # 0
    BY <1>2, <2>3
  <2>5. m \in 1 .. n /\ m - 1 \in 0 .. n /\ ~ (m <= m - 1)
    BY <1>1, <2>3, <2>4
  <2>6. Has(m - 1)
    BY <2>2, <2>5
  <2> QED
    BY <1>3, <2>3, <2>5, <2>6
<1>5. PICK f : Goes(f, n)
  BY <1>1, <1>4
<1>6. FilePaths!Way = CHOOSE f2 : Goes(f2, n)
  BY DEF FilePaths!Way, Goes, WayStart, WayStep
<1> QED
  BY <1>5, <1>6, Zenon

\* What it is after each character.
Ways(C) == [ok : BOOLEAN, part : Seq(C), dirs : Seq(Seq(C)) \ {<<>>}]

\* A directory that is entered makes a way of a way.
LEMMA EnteredType ==
    ASSUME NEW C, "/" \in C, NEW w \in Ways(C)
    PROVE  /\ FilePaths!Entered(w) \in Ways(C) /\ (~ w.ok => ~ FilePaths!Entered(w).ok)
           /\ (FilePaths!Refused(w) => ~ FilePaths!Entered(w).ok)
           /\ (~ FilePaths!Refused(w) => FilePaths!Entered(w).part = <<>> /\ FilePaths!Entered(w).ok = w.ok)
<1> DEFINE n == Len(w.dirs)
           last == w.dirs[n]
<1>1. /\ w.ok \in BOOLEAN /\ w.part \in Seq(C) /\ w.dirs \in Seq(Seq(C)) /\ w.dirs # <<>>
      /\ w = [ok |-> w.ok, part |-> w.part, dirs |-> w.dirs]
  BY DEF Ways
<1>2. n \in Nat \ {0} /\ last \in Seq(C)
  BY <1>1
<1>3. FilePaths!Separated(last) \o w.part \in Seq(C)
  <2>1. FilePaths!Separated(last) \in Seq(C)
    BY <1>2 DEF FilePaths!Separated
  <2> QED
    BY <1>1, <2>1
<1>4. Append(w.dirs, FilePaths!Separated(last) \o w.part) \in Seq(Seq(C)) \ {<<>>}
  <2> DEFINE x == FilePaths!Separated(last) \o w.part
  <2>1. x \in Seq(C)
    BY <1>3
  <2> HIDE DEF x
  <2>2. Append(w.dirs, x) \in Seq(Seq(C)) /\ Len(Append(w.dirs, x)) = n + 1
    BY <1>1, <2>1
  <2>3. Append(w.dirs, x) # <<>>
    <3>1. Len(Append(w.dirs, x)) # 0
      BY <1>2, <2>2
    <3> QED
      BY <2>2, <3>1, EmptySeq, Zenon
  <2> QED
    BY <2>2, <2>3 DEF x
<1>5. CASE FilePaths!Refused(w)
  <2>1. FilePaths!Entered(w) = [w EXCEPT !.ok = FALSE]
    BY <1>5 DEF FilePaths!Entered
  <2>2. FilePaths!Entered(w) = [ok |-> FALSE, part |-> w.part, dirs |-> w.dirs]
    BY <1>1, <2>1
  <2> QED
    BY <1>1, <1>5, <2>2 DEF Ways
<1>6. CASE ~ FilePaths!Refused(w)
  <2> DEFINE d == IF w.part = <<".">> THEN w.dirs
                  ELSE IF w.part = <<".", ".">> THEN SubSeq(w.dirs, 1, n - 1)
                  ELSE Append(w.dirs, FilePaths!Separated(last) \o w.part)
  <2>1. FilePaths!Entered(w) = [ok |-> w.ok, part |-> <<>>, dirs |-> d]
    BY <1>6 DEF FilePaths!Entered
  <2>2. d \in Seq(Seq(C)) \ {<<>>}
    <3>1. CASE w.part = <<".">>
      BY <1>1, <3>1
    <3>2. CASE w.part = <<".", ".">>
      <4>1. n # 1
        BY <1>6, <3>2 DEF FilePaths!Refused
      <4>2. w.part # <<".">>
        BY <3>2
      <4>3. d = SubSeq(w.dirs, 1, n - 1)
        BY <3>2, <4>2
      <4>4. n - 1 \in 1 .. n /\ 1 \in 1 .. n
        <5>1. n \in Nat /\ n # 0
          BY <1>2
        <5> HIDE DEF n
        <5> QED
          BY <4>1, <5>1
      <4>5. SubSeq(w.dirs, 1, n - 1) \in Seq(Seq(C)) /\ Len(SubSeq(w.dirs, 1, n - 1)) = n - 1
        BY <1>1, <1>2, <4>4
      <4>6. SubSeq(w.dirs, 1, n - 1) # <<>>
        <5>1. Len(SubSeq(w.dirs, 1, n - 1)) # 0
          BY <1>2, <4>4, <4>5
        <5> QED
          BY <4>5, <5>1, EmptySeq, Zenon
      <4> HIDE DEF d
      <4> QED
        BY <4>3, <4>5, <4>6
    <3>3. CASE w.part # <<".">> /\ w.part # <<".", ".">>
      BY <1>4, <3>3
    <3> QED
      BY <3>1, <3>2, <3>3
  <2> HIDE DEF d
  <2> QED
    BY <1>1, <1>6, <2>1, <2>2 DEF Ways
<1> QED
  BY <1>5, <1>6

\* Every character makes a way of a way.
LEMMA WayAt ==
    ASSUME NEW C, "/" \in C, given \in Seq(C)
    PROVE  /\ FilePaths!Way[0] = WayStart
           /\ \A k \in 1 .. Len(given) : FilePaths!Way[k] = WayStep(k, FilePaths!Way[k - 1], FilePaths!Way[0])
           /\ \A k \in 0 .. Len(given) : FilePaths!Way[k] \in Ways(C)
<1> DEFINE n == Len(given)
           Fail == {m \in 0 .. n : FilePaths!Way[m] \notin Ways(C)}
<1>1. n \in Nat /\ Fail \subseteq Nat
  OBVIOUS
<1>2. /\ FilePaths!Way[0] = WayStart
      /\ \A k \in 1 .. n : FilePaths!Way[k] = WayStep(k, FilePaths!Way[k - 1], FilePaths!Way[0])
  <2>1. FilePaths!Way = [k \in 0 .. n |-> IF k = 0 THEN WayStart
                                         ELSE WayStep(k, FilePaths!Way[k - 1], FilePaths!Way[0])]
    BY <1>1, WayGoes DEF Goes
  <2>2. 0 \in 0 .. n /\ \A k \in 1 .. n : k \in 0 .. n /\ k # 0
    BY <1>1
  <2> HIDE DEF n
  <2> QED
    BY <2>1, <2>2
<1>3. FilePaths!Way[0] \in Ways(C)
  <2>1. <<>> \in Seq(C) /\ <<"/">> \in Seq(C)
    OBVIOUS
  <2>2. \A x \in Seq(C) : <<x>> \in Seq(Seq(C)) \ {<<>>}
    OBVIOUS
  <2> QED
    BY <1>2, <2>1, <2>2 DEF WayStart, Ways
<1>4. ASSUME NEW m \in 1 .. n, FilePaths!Way[m - 1] \in Ways(C) PROVE FilePaths!Way[m] \in Ways(C)
  <2> DEFINE w == FilePaths!Way[m - 1]
  <2>1. FilePaths!Way[m] = WayStep(m, w, FilePaths!Way[0]) /\ given[m] \in C
    BY <1>1, <1>2
  <2>2. [w EXCEPT !.part = Append(@, given[m])] \in Ways(C)
    <3>1. w \in Ways(C)
      BY <1>4
    <3> HIDE DEF w
    <3>2. Append(w.part, given[m]) \in Seq(C)
      BY <2>1, <3>1 DEF Ways
    <3> QED
      BY <3>1, <3>2 DEF Ways
  <2> HIDE DEF w
  <2>3. w \in Ways(C)
    BY <1>4 DEF w
  <2> QED
    BY <1>3, <2>1, <2>2, <2>3, EnteredType DEF WayStep
<1>5. Fail = {}
  <2>1. SUFFICES ASSUME Fail # {} PROVE FALSE
    OBVIOUS
  <2>2. PICK m \in Fail : \A x \in Fail : m <= x
    BY <1>1, <2>1, LeastOf, Zenon
  <2>3. m \in 0 .. n /\ FilePaths!Way[m] \notin Ways(C)
    BY <2>2
  <2>4. m # 0
    BY <1>3, <2>3
  <2>5. m \in 1 .. n /\ m - 1 \in 0 .. n /\ ~ (m <= m - 1)
    BY <1>1, <2>3, <2>4
  <2>6. FilePaths!Way[m - 1] \in Ways(C)
    BY <2>2, <2>5
  <2> QED
    BY <1>4, <2>3, <2>5, <2>6
<1> QED
  BY <1>2, <1>5

\* A way that is refused stays so.
LEMMA Lost ==
    ASSUME NEW C, "/" \in C, given \in Seq(C), NEW k \in 0 .. Len(given), ~ FilePaths!Way[k].ok
    PROVE  ~ FilePaths!Arrived.ok
<1> DEFINE n == Len(given)
           Fail == {m \in k .. n : FilePaths!Way[m].ok}
<1>1. n \in Nat /\ k \in Nat /\ k <= n /\ Fail \subseteq Nat
  OBVIOUS
<1>2. ASSUME NEW m \in k + 1 .. n, ~ FilePaths!Way[m - 1].ok PROVE ~ FilePaths!Way[m].ok
  <2> DEFINE w == FilePaths!Way[m - 1]
  <2>1. m \in 1 .. n /\ m - 1 \in 0 .. n
    BY <1>1
  <2>2. w \in Ways(C) /\ ~ w.ok /\ FilePaths!Way[m] = WayStep(m, w, FilePaths!Way[0])
    BY <1>2, <2>1, WayAt
  <2>3. m = 1 => w = FilePaths!Way[0]
    OBVIOUS
  <2> HIDE DEF w
  <2>4. ~ ([w EXCEPT !.part = Append(@, given[m])]).ok
    BY <2>2 DEF Ways
  <2> QED
    BY <2>2, <2>3, <2>4, EnteredType DEF WayStep
<1>3. Fail = {}
  <2>1. SUFFICES ASSUME Fail # {} PROVE FALSE
    OBVIOUS
  <2>2. PICK m \in Fail : \A x \in Fail : m <= x
    BY <1>1, <2>1, LeastOf, Zenon
  <2>3. m \in k .. n /\ FilePaths!Way[m].ok
    BY <2>2
  <2>4. m # k
    BY <2>3
  <2>5. m \in k + 1 .. n /\ m - 1 \in k .. n /\ ~ (m <= m - 1)
    BY <1>1, <2>3, <2>4
  <2>6. ~ FilePaths!Way[m - 1].ok
    BY <2>2, <2>5
  <2> QED
    BY <1>2, <2>3, <2>5, <2>6
<1>4. n \in k .. n /\ n \in 0 .. n
  BY <1>1
<1>5. ~ FilePaths!Way[n].ok /\ FilePaths!Way[n] \in Ways(C)
  BY <1>3, <1>4, WayAt
<1> QED
  BY <1>5, EnteredType DEF FilePaths!Arrived

\* The characters of a part.
LEMMA PartRead ==
    ASSUME NEW C, "/" \in C, given \in Seq(C), NEW k \in 0 .. Len(given), NEW l \in Nat,
           k + l <= Len(given), \A j \in 1 .. l : given[k + j] # "/", FilePaths!Way[k].part = <<>>
    PROVE  FilePaths!Way[k + l] = [FilePaths!Way[k] EXCEPT !.part = SubSeq(given, k + 1, k + l)]
<1> DEFINE n == Len(given)
           w == FilePaths!Way[k]
           At(j) == FilePaths!Way[k + j] = [w EXCEPT !.part = SubSeq(given, k + 1, k + j)]
           Fail == {j \in 0 .. l : ~ At(j)}
<1>1. n \in Nat /\ k \in Nat /\ k <= n /\ Fail \subseteq Nat
  OBVIOUS
<1>2. w \in Ways(C) /\ w.part = <<>>
  BY WayAt
<1>3. At(0)
  <2>1. SubSeq(given, k + 1, k + 0) = <<>> /\ k + 0 = k
    BY <1>1
  <2>2. FilePaths!Way[k + 0] = w
    BY <2>1
  <2> HIDE DEF w
  <2>3. w = [w EXCEPT !.part = <<>>]
    BY <1>2 DEF Ways
  <2> QED
    BY <2>1, <2>2, <2>3
<1>4. ASSUME NEW j \in 1 .. l, At(j - 1) PROVE At(j)
  <2> DEFINE a == SubSeq(given, k + 1, k + (j - 1))
             b == SubSeq(given, k + 1, k + j)
             u == FilePaths!Way[k + (j - 1)]
  <2>1. /\ k + j \in 1 .. n /\ (k + j) - 1 = k + (j - 1) /\ k + (j - 1) \in 0 .. n
        /\ k + 1 \in 1 .. n
    BY <1>1
  <2>2. given[k + j] # "/" /\ given[k + j] \in C
    BY <2>1
  <2>3. FilePaths!Way[k + j] = WayStep(k + j, u, FilePaths!Way[0])
    BY <2>1, WayAt
  <2>4. u = [w EXCEPT !.part = a]
    BY <1>4
  <2>5. b = Append(a, given[k + j])
    <3>1. k + j \in k + 1 .. n /\ k + 1 \in 1 .. Len(given) /\ k + j \in k + 1 .. Len(given)
      BY <1>1, <2>1
    <3>2. b = SubSeq(given, k + 1, (k + j) - 1) \o <<given[k + j]>>
      BY <3>1, SubSeqRecursiveSecond, Zenon DEF b
    <3>3. SubSeq(given, k + 1, (k + j) - 1) = a
      BY <2>1
    <3>4. a \in Seq(C)
      <4>1. \A i \in k + 1 .. k + (j - 1) : given[i] \in C
        BY <1>1, <2>1
      <4> QED
        BY <1>1, <2>1, <4>1, SubSeqProperties
    <3>5. Append(a, given[k + j]) = a \o <<given[k + j]>>
      BY <2>2, <3>4, AppendIsConcat, Zenon
    <3> HIDE DEF a, b
    <3> QED
      BY <3>2, <3>3, <3>5
  <2>6. FilePaths!Way[k + j] = [u EXCEPT !.part = Append(@, given[k + j])]
    BY <2>2, <2>3 DEF WayStep
  <2> HIDE DEF a, b, u, w
  <2>7. FilePaths!Way[k + j] = [w EXCEPT !.part = b]
    BY <1>2, <2>4, <2>5, <2>6 DEF Ways
  <2> QED
    BY <2>7 DEF b
<1>5. Fail = {}
  <2>1. SUFFICES ASSUME Fail # {} PROVE FALSE
    OBVIOUS
  <2>2. PICK m \in Fail : \A x \in Fail : m <= x
    BY <1>1, <2>1, LeastOf, Zenon
  <2>3. m \in 0 .. l /\ ~ At(m)
    BY <2>2
  <2> HIDE DEF At
  <2>4. m # 0
    BY <1>3, <2>3
  <2>5. m \in 1 .. l /\ m - 1 \in 0 .. l /\ ~ (m <= m - 1)
    BY <1>1, <2>3, <2>4
  <2>6. At(m - 1)
    BY <2>2, <2>5
  <2> QED
    BY <1>4, <2>3, <2>5, <2>6
<1>6. l \in 0 .. l
  OBVIOUS
<1> QED
  BY <1>5, <1>6

\* A name is in no way special, and every directory is the one before with one.
IsName(a, C) == a \in Seq(C) /\ a # <<>> /\ \A k \in 1 .. Len(a) : a[k] # "/"
DirsRight(d, C) ==
    /\ d \in Seq(Seq(C)) /\ d # <<>>
    /\ d[1] = <<>> \/ d[1] = <<"/">>
    /\ \A m \in 2 .. Len(d) : \E a : IsName(a, C) /\ d[m] = FilePaths!Separated(d[m - 1]) \o a

\* The slashes of such a text.
LEMMA LastSlash ==
    ASSUME NEW C, "/" \in C, NEW b \in Seq(C), NEW a, IsName(a, C)
    PROVE  LET x == FilePaths!Separated(b) \o a
           IN  /\ b = <<>> => FilePaths!Slashes(x) = {} /\ x # <<>>
               /\ b # <<>> => /\ FilePaths!Slashes(x) # {} /\ FilePaths!Greatest(FilePaths!Slashes(x)) = Len(b) + 1
                              /\ FilePaths!Greatest(FilePaths!Slashes(x)) # 1
                              /\ SubSeq(x, 1, FilePaths!Greatest(FilePaths!Slashes(x)) - 1) = b
<1> DEFINE x == FilePaths!Separated(b) \o a
           s == FilePaths!Slashes(x)
           n == Len(b)
<1>1. /\ a \in Seq(C) /\ a # <<>> /\ Len(a) \in Nat \ {0} /\ n \in Nat
      /\ \A k \in 1 .. Len(a) : a[k] # "/"
  BY EmptySeq DEF IsName
<1>2. CASE b = <<>>
  <2>1. x = a
    BY <1>1, <1>2, ConcatEmptySeq DEF FilePaths!Separated
  <2>2. s = {}
    BY <1>1, <2>1 DEF FilePaths!Slashes
  <2> QED
    BY <1>1, <1>2, <2>1, <2>2
<1>3. CASE b # <<>>
  <2> DEFINE c == Append(b, "/")
  <2>1. x = c \o a
    BY <1>3 DEF FilePaths!Separated
  <2>2. /\ c \in Seq(C) /\ Len(c) = n + 1 /\ c[n + 1] = "/" /\ \A k \in 1 .. n : c[k] = b[k]
        /\ n # 0
    BY <1>1, <1>3
  <2> HIDE DEF c, n
  <2>3. /\ x \in Seq(C) /\ Len(x) = n + 1 + Len(a) /\ DOMAIN x = 1 .. n + 1 + Len(a)
        /\ \A k \in 1 .. n + 1 : x[k] = c[k]
        /\ \A k \in n + 2 .. n + 1 + Len(a) : x[k] = a[k - (n + 1)]
    <3>1. /\ Len(c \o a) = Len(c) + Len(a) /\ c \o a \in Seq(C)
          /\ \A k \in 1 .. Len(c) + Len(a) :
               (c \o a)[k] = IF k <= Len(c) THEN c[k] ELSE a[k - Len(c)]
      BY <1>1, <2>2, ConcatProperties, Zenon
    <3> HIDE DEF x
    <3> QED
      BY <1>1, <2>1, <2>2, <3>1
  <2> HIDE DEF x
  <2>4. n + 1 \in s /\ s \subseteq Int
    BY <1>1, <2>2, <2>3 DEF FilePaths!Slashes
  <2>5. ASSUME NEW k \in s PROVE k <= n + 1
    <3>1. k \in 1 .. n + 1 + Len(a) /\ x[k] = "/"
      BY <2>3 DEF FilePaths!Slashes
    <3>2. SUFFICES ASSUME k \in n + 2 .. n + 1 + Len(a) PROVE FALSE
      BY <1>1, <3>1
    <3>3. k - (n + 1) \in 1 .. Len(a)
      BY <1>1, <3>2
    <3> QED
      BY <1>1, <2>3, <3>1, <3>2, <3>3
  <2>6. FilePaths!Greatest(s) = n + 1
    <3> HIDE DEF s
    <3> QED
      BY <2>4, <2>5, PathGreatest
  <2>7. SubSeq(x, 1, n) = b
    <3>1. \A k \in 1 .. n : x[k] = b[k] /\ x[k] \in C
      BY <1>1, <2>2, <2>3 DEF n
    <3>2. /\ SubSeq(x, 1, n) \in Seq(C) /\ Len(SubSeq(x, 1, n)) = n
          /\ \A k \in 1 .. n : SubSeq(x, 1, n)[k] = x[k]
      BY <1>1, <2>3
    <3> QED
      BY <3>1, <3>2, SeqEqual DEF n
  <2>8. (n + 1) - 1 = n /\ n + 1 # 1
    BY <1>1, <2>2
  <2> QED
    BY <1>3, <2>4, <2>6, <2>7, <2>8 DEF x, n
<1> QED
  BY <1>2, <1>3

\* The part of a path that is next.
LEMMA PartIs ==
    ASSUME NEW C, name \in Seq(C)
    PROVE  \E l \in 0 .. Len(name) :
             /\ Len(name) \in Nat
             /\ FilePaths!Part = SubSeq(name, 1, l) /\ Len(FilePaths!Part) = l
             /\ \A k \in 1 .. l : name[k] # "/"
             /\ \/ l = Len(name) /\ FilePaths!Rest = <<>>
                \/ l < Len(name) /\ name[l + 1] = "/" /\ FilePaths!Rest = SubSeq(name, l + 2, Len(name))
<1> DEFINE n == Len(name)
           s == FilePaths!Slashes(name)
           l == IF s = {} THEN n ELSE FilePaths!Least(s) - 1
<1>1. n \in Nat /\ DOMAIN name = 1 .. n /\ s \subseteq 1 .. n /\ s \subseteq Nat
  BY DEF FilePaths!Slashes
<1>2. FilePaths!Part = SubSeq(name, 1, l)
  BY DEF FilePaths!Part
<1>3. CASE s = {}
  <2>1. l = n /\ n \in 0 .. n /\ FilePaths!Part = name
    BY <1>1, <1>2, <1>3
  <2>2. \A k \in 1 .. n : name[k] # "/"
    BY <1>1, <1>3 DEF FilePaths!Slashes
  <2>3. {n + 1, n} \subseteq Int /\ n \in {n + 1, n} /\ \A e \in {n + 1, n} : n <= e
    BY <1>1
  <2>4. FilePaths!Least({n + 1, n}) = n
    <3> DEFINE T == {n + 1, n}
    <3>1. T \subseteq Int /\ n \in T /\ \A e \in T : n <= e
      BY <2>3
    <3> HIDE DEF T
    <3>2. FilePaths!Least(T) = n
      BY <3>1, PathLeast
    <3> QED
      BY <3>2 DEF T
  <2>5. FilePaths!Rest = SubSeq(name, n + 1, n)
    BY <2>1, <2>4 DEF FilePaths!Rest
  <2>6. FilePaths!Rest = <<>>
    BY <1>1, <2>5, SubSeqEmpty
  <2> QED
    BY <1>1, <1>2, <2>1, <2>2, <2>6
<1>4. CASE s # {}
  <2>1. PICK m \in s : \A y \in s : m <= y
    BY <1>1, <1>4, LeastOf, Zenon
  <2>2. FilePaths!Least(s) = m
    BY <1>1, <2>1, PathLeast
  <2>3. /\ m \in 1 .. n /\ l = m - 1 /\ l \in 0 .. n /\ l + 1 = m /\ l < n /\ name[m] = "/"
        /\ l \in Nat
    BY <1>1, <1>4, <2>1, <2>2 DEF FilePaths!Slashes
  <2>4. ASSUME NEW k \in 1 .. l PROVE name[k] # "/"
    <3>1. k \in 1 .. n /\ ~ (m <= k)
      BY <1>1, <2>3
    <3> QED
      BY <1>1, <2>1, <3>1 DEF FilePaths!Slashes
  <2>5. Len(FilePaths!Part) = l
    <3> HIDE DEF l
    <3> QED
      BY <1>1, <1>2, <2>3
  <2>6. {l + 1, n} \subseteq Int /\ l + 1 \in {l + 1, n} /\ \A e \in {l + 1, n} : l + 1 <= e
    <3>1. l \in Nat /\ l < n /\ l + 1 <= n
      BY <1>1, <2>3
    <3> HIDE DEF l, n
    <3> QED
      BY <1>1, <3>1
  <2>7. FilePaths!Least({l + 1, n}) = l + 1
    <3> DEFINE T == {l + 1, n}
    <3>1. T \subseteq Int /\ l + 1 \in T /\ \A e \in T : l + 1 <= e
      BY <2>6
    <3> HIDE DEF T, l
    <3>2. FilePaths!Least(T) = l + 1
      BY <3>1, PathLeast
    <3> QED
      BY <3>2 DEF T
  <2>8. (l + 1) + 1 = l + 2
    BY <2>3
  <2>9. FilePaths!Rest = SubSeq(name, l + 2, n)
    BY <2>5, <2>7, <2>8 DEF FilePaths!Rest
  <2> QED
    BY <1>1, <1>2, <2>3, <2>4, <2>5, <2>9
<1> QED
  BY <1>3, <1>4

\* How many characters are read, and the way so far, were it to end there.
Taken == Len(given) - Len(name)
Here == LET w == FilePaths!Way[Taken] IN IF w.part = <<>> THEN w ELSE FilePaths!Entered(w)

\* As long as no part was refused the path is the directory the way led to.
PathInv ==
    /\ \E C :
         /\ "/" \in C /\ given \in Seq(C) /\ name \in Seq(C)
         /\ valid => DirsRight(Here.dirs, C)
    /\ Len(name) <= Len(given)
    /\ \A k \in 1 .. Len(name) : name[k] = given[Taken + k]
    /\ FilePaths!absolute => Taken # 0
    /\ valid \in BOOLEAN
    /\ valid => /\ Here.ok /\ filePath = Here.dirs[Len(Here.dirs)]
                /\ name # <<>> => FilePaths!Way[Taken].part = <<>>
    /\ ~ valid => ~ FilePaths!Arrived.ok

\* A slash in front is the first directory.
LEMMA PathInit ==
    ASSUME FilePaths!Init, NEW D, given \in Seq(D)
    PROVE  PathInv
<1> DEFINE C == D \union {"/"}
           n == Len(given)
<1>1. "/" \in C /\ given \in Seq(C) /\ n \in Nat /\ valid = TRUE
  <2>1. D \subseteq C
    OBVIOUS
  <2> QED
    BY <2>1, SeqMonotonic DEF FilePaths!Init
<1>2. /\ FilePaths!Way[0] = WayStart
      /\ \A k \in 1 .. n :
           FilePaths!Way[k] = WayStep(k, FilePaths!Way[k - 1], FilePaths!Way[0])
  BY <1>1, WayAt
<1>3. CASE FilePaths!absolute
  <2>1. given # <<>> /\ Head(given) = "/" /\ filePath = <<"/">> /\ name = Tail(given)
    BY <1>3 DEF FilePaths!absolute, FilePaths!Init
  <2>2. /\ n # 0 /\ 1 \in 1 .. n /\ given[1] = "/" /\ name \in Seq(C) /\ Len(name) = n - 1
        /\ \A k \in 1 .. n - 1 : name[k] = given[1 + k]
    BY <1>1, <2>1
  <2>3. Taken = 1
    BY <1>1, <2>2 DEF Taken
  <2>4. FilePaths!Way[1] = WayStart
    BY <1>2, <2>2 DEF WayStep
  <2>5. WayStart.ok /\ WayStart.part = <<>> /\ WayStart.dirs = <<<<"/">>>>
    BY <1>3 DEF WayStart
  <2>6. Here = WayStart
    BY <2>3, <2>4, <2>5 DEF Here
  <2>7. DirsRight(<<<<"/">>>>, C)
    <3> DEFINE d == <<"/">>
    <3>1. d \in Seq(C) /\ d = <<"/">>
      BY <1>1
    <3> HIDE DEF d
    <3>2. <<d>> \in Seq(Seq(C)) /\ <<d>> # <<>> /\ <<d>>[1] = d /\ Len(<<d>>) = 1
      BY <3>1
    <3>3. 2 .. 1 = {}
      OBVIOUS
    <3>4. DirsRight(<<d>>, C)
      BY <3>1, <3>2, <3>3 DEF DirsRight
    <3> QED
      BY <3>4, Zenon DEF d
  <2>8. Here.dirs[Len(Here.dirs)] = <<"/">>
    <3> DEFINE d == <<"/">>
    <3>1. Here.dirs = <<d>>
      BY <2>5, <2>6
    <3> HIDE DEF d
    <3>2. Here.dirs[Len(Here.dirs)] = d
      BY <3>1
    <3> QED
      BY <3>2 DEF d
  <2>9. Len(name) <= Len(given) /\ \A k \in 1 .. Len(name) : name[k] = given[Taken + k]
    BY <1>1, <2>2, <2>3
  <2> QED
    BY <1>1, <2>1, <2>2, <2>3, <2>4, <2>5, <2>6, <2>7, <2>8, <2>9 DEF PathInv
<1>4. CASE ~ FilePaths!absolute
  <2>1. filePath = <<>> /\ name = given
    BY <1>4 DEF FilePaths!absolute, FilePaths!Init
  <2>3. Taken = 0
    BY <1>1, <2>1 DEF Taken
  <2>5. WayStart.ok /\ WayStart.part = <<>> /\ WayStart.dirs = <<<<>>>>
    BY <1>4 DEF WayStart
  <2>6. Here = WayStart
    BY <1>2, <2>3, <2>5 DEF Here
  <2>7. DirsRight(<<<<>>>>, C)
    BY <1>1 DEF DirsRight
  <2>8. Here.dirs[Len(Here.dirs)] = <<>>
    <3> DEFINE d == <<>>
    <3>1. Here.dirs = <<d>>
      BY <2>5, <2>6
    <3> HIDE DEF d
    <3>2. Here.dirs[Len(Here.dirs)] = d
      BY <3>1
    <3> QED
      BY <3>2 DEF d
  <2>9. Len(name) <= Len(given) /\ \A k \in 1 .. Len(name) : name[k] = given[Taken + k]
    BY <1>1, <2>1, <2>3
  <2> QED
    BY <1>1, <1>2, <1>4, <2>1, <2>3, <2>5, <2>6, <2>7, <2>8, <2>9 DEF PathInv
<1> QED
  BY <1>3, <1>4

\* The way through the next part.
LEMMA PartWay ==
    ASSUME PathInv, valid, name # <<>>,
           NEW C, "/" \in C, given \in Seq(C), name \in Seq(C)
    PROVE  LET w == [FilePaths!Way[Taken] EXCEPT !.part = FilePaths!Part]
           IN  /\ FilePaths!Way[Taken] \in Ways(C) /\ w \in Ways(C)
               /\ Here = FilePaths!Way[Taken] /\ FilePaths!Part \in Seq(C)
               /\ FilePaths!Refused(w) => ~ FilePaths!Arrived.ok
               /\ FilePaths!Rest \in Seq(C) /\ Len(FilePaths!Rest) <= Len(given)
               /\ LET t == Len(given) - Len(FilePaths!Rest)
                      h == IF FilePaths!Way[t].part = <<>> THEN FilePaths!Way[t]
                           ELSE FilePaths!Entered(FilePaths!Way[t])
                  IN  /\ t # 0
                      /\ \A k \in 1 .. Len(FilePaths!Rest) : FilePaths!Rest[k] = given[t + k]
                      /\ ~ FilePaths!Refused(w) => /\ h = FilePaths!Entered(w)
                                                   /\ FilePaths!Rest # <<>> => FilePaths!Way[t].part = <<>>
<1> DEFINE n == Len(given)
           k0 == Taken
           v == FilePaths!Way[k0]
           w == [v EXCEPT !.part = FilePaths!Part]
<1>1. /\ n \in Nat /\ Len(name) \in Nat /\ Len(name) <= n /\ k0 \in 0 .. n
      /\ Len(name) # 0 /\ k0 + Len(name) = n /\ k0 \in Nat
  <2>1. n \in Nat /\ Len(name) \in Nat /\ Len(name) <= n /\ Len(name) # 0
    BY EmptySeq DEF PathInv
  <2> QED
    BY <2>1 DEF Taken
<1>2. v \in Ways(C) /\ v.part = <<>> /\ Here = v
  <2>1. v \in Ways(C)
    BY <1>1, WayAt
  <2>2. v.part = <<>>
    BY DEF PathInv
  <2> QED
    BY <2>1, <2>2 DEF Here
<1>3. PICK l \in 0 .. Len(name) :
             /\ FilePaths!Part = SubSeq(name, 1, l) /\ Len(FilePaths!Part) = l
             /\ \A k \in 1 .. l : name[k] # "/"
             /\ \/ l = Len(name) /\ FilePaths!Rest = <<>>
                \/ l < Len(name) /\ name[l + 1] = "/" /\ FilePaths!Rest = SubSeq(name, l + 2, Len(name))
  BY PartIs
<1>4. \A k \in 1 .. Len(name) : name[k] = given[k0 + k]
  BY DEF PathInv
<1>5. l \in Nat /\ l <= Len(name) /\ k0 + l <= n /\ k0 + l \in 0 .. n
  BY <1>1
<1>6. FilePaths!Part = SubSeq(given, k0 + 1, k0 + l) /\ FilePaths!Part \in Seq(C)
  <2>1. /\ FilePaths!Part \in Seq(C) /\ \A k \in 1 .. l : FilePaths!Part[k] = name[k]
    BY <1>1, <1>3, <1>5
  <2>2. \A k \in k0 + 1 .. k0 + l : given[k] \in C
    BY <1>1, <1>5
  <2>3. /\ SubSeq(given, k0 + 1, k0 + l) \in Seq(C) /\ Len(SubSeq(given, k0 + 1, k0 + l)) = l
        /\ \A k \in 1 .. l : SubSeq(given, k0 + 1, k0 + l)[k] = given[k0 + k]
    <3>1. k0 + 1 \in Int /\ k0 + l \in Int
      BY <1>1, <1>5
    <3>2. /\ SubSeq(given, k0 + 1, k0 + l) \in Seq(C)
          /\ Len(SubSeq(given, k0 + 1, k0 + l))
               = IF k0 + 1 <= k0 + l THEN (k0 + l) - (k0 + 1) + 1 ELSE 0
          /\ \A k \in 1 .. (k0 + l) - (k0 + 1) + 1 :
               SubSeq(given, k0 + 1, k0 + l)[k] = given[(k0 + 1) + k - 1]
      BY <2>2, <3>1, SubSeqProperties
    <3>3. (k0 + l) - (k0 + 1) + 1 = l /\ \A k \in 1 .. l : (k0 + 1) + k - 1 = k0 + k
      BY <1>1, <1>5
    <3>4. (IF k0 + 1 <= k0 + l THEN l ELSE 0) = l
      BY <1>1, <1>5
    <3> QED
      BY <3>2, <3>3, <3>4
  <2>4. \A k \in 1 .. l : k \in 1 .. Len(name)
    BY <1>1, <1>5
  <2>5. \A k \in 1 .. l : FilePaths!Part[k] = SubSeq(given, k0 + 1, k0 + l)[k]
    BY <1>4, <2>1, <2>3, <2>4
  <2>6. Len(FilePaths!Part) = l
    BY <1>3
  <2>7. FilePaths!Part = SubSeq(given, k0 + 1, k0 + l)
    BY <2>1, <2>3, <2>5, <2>6, SeqEqual
  <2> QED
    BY <2>1, <2>7
<1> HIDE DEF n, k0
<1>7. FilePaths!Way[k0 + l] = w
  <2>1. \A j \in 1 .. l : given[k0 + j] # "/"
    <3>1. \A j \in 1 .. l : j \in 1 .. Len(name)
      BY <1>1, <1>5
    <3> QED
      BY <1>3, <1>4, <3>1
  <2>2. FilePaths!Way[k0 + l] = [v EXCEPT !.part = SubSeq(given, k0 + 1, k0 + l)]
    BY <1>1, <1>2, <1>5, <2>1, PartRead DEF n
  <2> QED
    BY <1>6, <2>2
<1>8. w \in Ways(C) /\ w.part = FilePaths!Part
  <2> HIDE DEF v
  <2> QED
    BY <1>2, <1>6 DEF Ways
<1> HIDE DEF v, w
<1>9. CASE l = Len(name) /\ FilePaths!Rest = <<>>
  <2>1. Len(FilePaths!Rest) = 0 /\ FilePaths!Rest \in Seq(C) /\ k0 + l = n /\ n - Len(FilePaths!Rest) = n
    BY <1>1, <1>9
  <2>2. FilePaths!Part # <<>> /\ FilePaths!Way[n] = w /\ n # 0
    BY <1>1, <1>3, <1>7, <1>9, <2>1
  <2>3. FilePaths!Arrived = FilePaths!Entered(w)
    BY <1>8, <2>2 DEF FilePaths!Arrived, n
  <2>4. FilePaths!Refused(w) => ~ FilePaths!Arrived.ok
    BY <1>8, <2>3, EnteredType
  <2>5. \A k \in 1 .. Len(FilePaths!Rest) : FilePaths!Rest[k] = given[n + k]
    BY <2>1
  <2>6. 0 <= n
    BY <1>1
  <2> QED
    BY <1>2, <1>6, <1>8, <1>9, <2>1, <2>2, <2>4, <2>5, <2>6 DEF n, k0, v, w
<1>10. CASE l < Len(name) /\ name[l + 1] = "/" /\ FilePaths!Rest = SubSeq(name, l + 2, Len(name))
  <2> DEFINE t == k0 + l + 1
             r == Len(name) - (l + 1)
  <2>1. /\ t \in 1 .. n /\ t \in 0 .. n /\ t - 1 = k0 + l /\ n - r = t /\ r \in Nat /\ r <= n
        /\ t # 0 /\ l + 1 \in 1 .. Len(name) /\ k0 + (l + 1) = t
    <3>1. l + 1 <= Len(name) /\ Len(name) \in Nat /\ l \in Nat /\ k0 \in Nat /\ n \in Nat
          /\ k0 + Len(name) = n
      BY <1>1, <1>5, <1>10
    <3> QED
      BY <3>1
  <2>2. given[t] = "/"
    BY <1>4, <1>10, <2>1
  <2>3. t # 1
    <3>1. SUFFICES ASSUME t = 1 PROVE FALSE
      OBVIOUS
    <3>2. k0 = 0 /\ given[1] = "/" /\ given # <<>> /\ Head(given) = given[1]
      BY <1>1, <1>5, <2>1, <2>2, <3>1, EmptySeq DEF n
    <3> QED
      BY <3>2 DEF FilePaths!absolute, PathInv, k0
  <2>4. FilePaths!Way[t] = FilePaths!Entered(w)
    BY <1>7, <2>1, <2>2, <2>3, WayAt DEF WayStep, n
  <2>5. FilePaths!Refused(w) => ~ FilePaths!Arrived.ok
    BY <1>8, <2>1, <2>4, EnteredType, Lost DEF n
  <2>6. ~ FilePaths!Refused(w) => FilePaths!Way[t].part = <<>>
    BY <1>8, <2>4, EnteredType
  <2>7. /\ FilePaths!Rest \in Seq(C) /\ Len(FilePaths!Rest) = r
        /\ \A k \in 1 .. r : FilePaths!Rest[k] = name[l + 1 + k]
    <3>1. \A k \in l + 2 .. Len(name) : name[k] \in C
      BY <1>1, <1>5
    <3>2. /\ FilePaths!Rest \in Seq(C)
          /\ Len(FilePaths!Rest) = IF l + 2 <= Len(name) THEN Len(name) - (l + 2) + 1 ELSE 0
          /\ \A k \in 1 .. Len(name) - (l + 2) + 1 : FilePaths!Rest[k] = name[(l + 2) + k - 1]
      BY <1>1, <1>5, <1>10, <3>1, SubSeqProperties
    <3>3. /\ Len(name) - (l + 2) + 1 = r /\ \A k \in 1 .. r : (l + 2) + k - 1 = l + 1 + k
          /\ (IF l + 2 <= Len(name) THEN r ELSE 0) = r
      BY <1>1, <1>5, <1>10
    <3> QED
      BY <3>2, <3>3
  <2>8. ASSUME NEW k \in 1 .. r PROVE FilePaths!Rest[k] = given[t + k]
    <3>1. l + 1 + k \in 1 .. Len(name) /\ k0 + (l + 1 + k) = t + k
      BY <1>1, <1>5, <2>1
    <3> QED
      BY <1>4, <2>7, <3>1
  <2>9. n - Len(FilePaths!Rest) = t /\ Len(FilePaths!Rest) <= n
    BY <2>1, <2>7
  <2> HIDE DEF t, r
  <2> QED
    BY <1>2, <1>6, <1>8, <2>1, <2>4, <2>5, <2>6, <2>7, <2>8, <2>9 DEF n, k0, v, w
<1> QED
  BY <1>3, <1>9, <1>10

\* The way is that of the text.
LEMMA WaySame ==
    ASSUME given' = given
    PROVE  /\ FilePaths!Way' = FilePaths!Way /\ FilePaths!absolute' = FilePaths!absolute
           /\ FilePaths!Arrived' = FilePaths!Arrived
<1>1. FilePaths!absolute' = FilePaths!absolute
  BY DEF FilePaths!absolute
<1>2. FilePaths!Way' = FilePaths!Way
  BY <1>1 DEF FilePaths!Way, FilePaths!Entered, FilePaths!Refused, FilePaths!Separated
<1>3. FilePaths!Arrived' = FilePaths!Arrived
  BY <1>2 DEF FilePaths!Arrived, FilePaths!Entered, FilePaths!Refused, FilePaths!Separated
<1> QED
  BY <1>1, <1>2, <1>3

\* A part that is refused.
LEMMA PathRefused ==
    ASSUME PathInv, valid, name # <<>>, FilePaths!Refuse,
           FilePaths!Refused([FilePaths!Way[Taken] EXCEPT !.part = FilePaths!Part])
    PROVE  PathInv'
<1>1. PICK C : "/" \in C /\ given \in Seq(C) /\ name \in Seq(C)
  BY DEF PathInv
<1>2. ~ FilePaths!Arrived.ok
  BY <1>1, PartWay
<1>3. valid' = FALSE /\ given' = given /\ name' = name
  BY DEF FilePaths!Refuse
<1>4. FilePaths!Arrived' = FilePaths!Arrived /\ FilePaths!absolute' = FilePaths!absolute /\ Taken' = Taken
  BY <1>3, WaySame DEF Taken
<1> QED
  BY <1>1, <1>2, <1>3, <1>4 DEF PathInv

\* A part that is followed.
LEMMA PathNamed ==
    ASSUME PathInv, valid, name # <<>>, NEW p2, FilePaths!Named(p2),
           NEW C, "/" \in C, given \in Seq(C), name \in Seq(C),
           ~ FilePaths!Refused([FilePaths!Way[Taken] EXCEPT !.part = FilePaths!Part]),
           DirsRight(FilePaths!Entered([FilePaths!Way[Taken] EXCEPT !.part = FilePaths!Part]).dirs, C),
           p2 = FilePaths!Entered([FilePaths!Way[Taken] EXCEPT !.part = FilePaths!Part]).dirs
                  [Len(FilePaths!Entered([FilePaths!Way[Taken] EXCEPT !.part = FilePaths!Part]).dirs)]
    PROVE  PathInv'
<1> DEFINE w == [FilePaths!Way[Taken] EXCEPT !.part = FilePaths!Part]
           t == Len(given) - Len(FilePaths!Rest)
           h == IF FilePaths!Way[t].part = <<>> THEN FilePaths!Way[t]
                ELSE FilePaths!Entered(FilePaths!Way[t])
<1>1. /\ FilePaths!Way[Taken] \in Ways(C) /\ w \in Ways(C) /\ Here = FilePaths!Way[Taken]
      /\ FilePaths!Rest \in Seq(C) /\ Len(FilePaths!Rest) <= Len(given)
      /\ t # 0 /\ \A k \in 1 .. Len(FilePaths!Rest) : FilePaths!Rest[k] = given[t + k]
      /\ h = FilePaths!Entered(w) /\ (FilePaths!Rest # <<>> => FilePaths!Way[t].part = <<>>)
  BY PartWay
<1>2. filePath' = p2 /\ name' = FilePaths!Rest /\ given' = given /\ valid' = valid
  BY DEF FilePaths!Named
<1>3. FilePaths!Way' = FilePaths!Way /\ FilePaths!absolute' = FilePaths!absolute /\ Taken' = t
  BY <1>2, WaySame DEF Taken
<1>4. Here' = h
  BY <1>3 DEF Here, FilePaths!Entered, FilePaths!Refused, FilePaths!Separated
<1>5. FilePaths!Entered(w).ok
  <2> HIDE DEF w
  <2>1. FilePaths!Entered(w).ok = w.ok
    BY <1>1, EnteredType DEF w
  <2>2. w.ok = FilePaths!Way[Taken].ok
    BY <1>1 DEF w, Ways
  <2>3. FilePaths!Way[Taken].ok
    BY <1>1 DEF PathInv
  <2> QED
    BY <2>1, <2>2, <2>3
<1>6. FilePaths!Entered(w) = Here'
  BY <1>1, <1>4
<1>7. /\ DirsRight(FilePaths!Entered(w).dirs, C) /\ p2 = FilePaths!Entered(w).dirs[Len(FilePaths!Entered(w).dirs)]
      /\ valid = TRUE
  BY DEF PathInv
<1> HIDE DEF w, t, h
<1>8. DirsRight(Here.dirs, C)'
  BY <1>6, <1>7 DEF DirsRight, IsName, FilePaths!Separated
<1> QED
  BY <1>1, <1>2, <1>3, <1>4, <1>5, <1>6, <1>7, <1>8 DEF PathInv

\* Each part keeps to the way.
LEMMA PathStep == PathInv /\ [FilePaths!Next]_(FilePaths!vars) => PathInv'
<1> SUFFICES ASSUME PathInv, [FilePaths!Next]_(FilePaths!vars) PROVE PathInv'
  OBVIOUS
<1> DEFINE v == FilePaths!Way[Taken]
           w == [v EXCEPT !.part = FilePaths!Part]
           n == Len(v.dirs)
<1>1. PICK C : /\ "/" \in C /\ given \in Seq(C) /\ name \in Seq(C)
               /\ valid => DirsRight(Here.dirs, C)
  BY DEF PathInv
<1>2. CASE UNCHANGED FilePaths!vars
  <2>1. given' = given /\ name' = name /\ filePath' = filePath /\ valid' = valid
    BY <1>2 DEF FilePaths!vars
  <2>2. FilePaths!Way' = FilePaths!Way /\ FilePaths!absolute' = FilePaths!absolute /\ Taken' = Taken
    BY <2>1, WaySame DEF Taken
  <2>3. Here' = Here /\ FilePaths!Arrived' = FilePaths!Arrived
    BY <2>1, <2>2, WaySame DEF Here, FilePaths!Entered, FilePaths!Refused, FilePaths!Separated
  <2>4. \A x : DirsRight(Here.dirs, x)' = DirsRight(Here.dirs, x)
    BY <2>3 DEF DirsRight, IsName, FilePaths!Separated
  <2> QED
    BY <2>1, <2>2, <2>3, <2>4 DEF PathInv
<1>3. FilePaths!Part # <<>> => name # <<>>
  <2>1. SUFFICES ASSUME name = <<>> PROVE FilePaths!Part = <<>>
    OBVIOUS
  <2>2. PICK l \in 0 .. Len(name) : FilePaths!Part = SubSeq(name, 1, l) /\ Len(FilePaths!Part) = l
    BY <1>1, PartIs
  <2>3. l = 0
    BY <2>1, <2>2
  <2> QED
    BY <2>1, <2>2, <2>3
<1>4. ASSUME valid, name # <<>>
      PROVE  /\ v \in Ways(C) /\ w \in Ways(C) /\ v = Here /\ FilePaths!Part \in Seq(C)
             /\ w.part = FilePaths!Part /\ w.dirs = v.dirs
             /\ filePath = v.dirs[n] /\ DirsRight(v.dirs, C) /\ v.dirs \in Seq(Seq(C))
             /\ n \in Nat \ {0} /\ filePath \in Seq(C)
  <2>1. v \in Ways(C) /\ w \in Ways(C) /\ Here = v /\ FilePaths!Part \in Seq(C)
    BY <1>1, <1>4, PartWay
  <2>2. filePath = v.dirs[n] /\ DirsRight(v.dirs, C)
    BY <1>1, <1>4, <2>1 DEF PathInv
  <2>3. v.dirs \in Seq(Seq(C)) /\ v.dirs # <<>>
    BY <2>1 DEF Ways
  <2> HIDE DEF v
  <2>4. w.part = FilePaths!Part /\ w.dirs = v.dirs
    BY <2>1 DEF Ways
  <2>5. n \in Nat \ {0} /\ v.dirs[n] \in Seq(C)
    BY <2>3
  <2> QED
    BY <2>1, <2>2, <2>3, <2>4, <2>5 DEF v
<1> HIDE DEF v, w, n
<1>5. CASE FilePaths!Empty
  <2>1. valid /\ name # <<>> /\ FilePaths!Part = <<>> /\ FilePaths!Refuse
    BY <1>5 DEF FilePaths!Empty
  <2>2. FilePaths!Refused(w)
    BY <1>4, <2>1 DEF FilePaths!Refused
  <2> QED
    BY <2>1, <2>2, PathRefused DEF w, v
<1>6. CASE FilePaths!Dot
  <2>1. valid /\ FilePaths!Part = <<".">> /\ FilePaths!Named(filePath) /\ name # <<>>
    BY <1>3, <1>6 DEF FilePaths!Dot
  <2>2. ~ FilePaths!Refused(w)
    <3>1. <<".">> # <<>> /\ <<".">> # <<".", ".">>
      OBVIOUS
    <3>2. w.part = <<".">>
      BY <1>4, <2>1
    <3> QED
      BY <3>1, <3>2, Zenon DEF FilePaths!Refused
  <2>3. FilePaths!Entered(w).dirs = v.dirs
    BY <1>4, <2>1, <2>2 DEF FilePaths!Entered
  <2>4. /\ DirsRight(FilePaths!Entered(w).dirs, C)
        /\ filePath = FilePaths!Entered(w).dirs[Len(FilePaths!Entered(w).dirs)]
    BY <1>4, <2>1, <2>3 DEF n
  <2> QED
    BY <1>1, <2>1, <2>2, <2>4, PathNamed DEF w, v
<1>7. CASE FilePaths!DotDot
  <2> DEFINE g == FilePaths!Greatest(FilePaths!Slashes(filePath))
  <2>1. /\ valid /\ FilePaths!Part = <<".", ".">> /\ name # <<>>
        /\ IF FilePaths!Slashes(filePath) = {}
             THEN IF filePath = <<>> THEN FilePaths!Refuse ELSE FilePaths!Named(<<>>)
           ELSE IF g = 1 THEN FilePaths!Refuse ELSE FilePaths!Named(SubSeq(filePath, 1, g - 1))
    BY <1>3, <1>7 DEF FilePaths!DotDot
  <2>2. CASE n = 1
    <3>1. FilePaths!Refused(w)
      BY <1>4, <2>1, <2>2 DEF FilePaths!Refused, n
    <3>2. filePath = <<>> \/ filePath = <<"/">>
      BY <1>4, <2>1, <2>2 DEF DirsRight
    <3>3. FilePaths!Refuse
      <4>1. CASE filePath = <<>>
        <5>1. FilePaths!Slashes(filePath) = {}
          BY <4>1 DEF FilePaths!Slashes
        <5> QED
          BY <2>1, <4>1, <5>1
      <4>2. CASE filePath = <<"/">>
        <5>1. FilePaths!Slashes(filePath) = {1}
          BY <4>2 DEF FilePaths!Slashes
        <5> DEFINE s == FilePaths!Slashes(filePath)
        <5>2. s \subseteq Int /\ 1 \in s /\ \A e \in s : e <= 1
          BY <5>1
        <5>3. g = 1
          <6> HIDE DEF s
          <6>1. FilePaths!Greatest(s) = 1
            BY <5>2, PathGreatest
          <6> QED
            BY <6>1 DEF s
        <5> QED
          BY <2>1, <5>1, <5>3
      <4> QED
        BY <3>2, <4>1, <4>2
    <3> QED
      BY <2>1, <3>1, <3>3, PathRefused DEF w, v
  <2>3. CASE n # 1
    <3> DEFINE b == v.dirs[n - 1]
               d == SubSeq(v.dirs, 1, n - 1)
    <3>1. /\ n \in Nat /\ n \in 2 .. n /\ n - 1 \in 1 .. n /\ n - 1 \in Nat
          /\ v.dirs \in Seq(Seq(C)) /\ n = Len(v.dirs)
      <4>1. n \in Nat \ {0} /\ v.dirs \in Seq(Seq(C)) /\ n = Len(v.dirs)
        BY <1>4, <2>1 DEF n
      <4>2. n \in Nat /\ n # 0 /\ n # 1
        BY <2>3, <4>1
      <4>3. n \in 2 .. n /\ n - 1 \in 1 .. n /\ n - 1 \in Nat
        BY <4>2
      <4> QED
        BY <4>1, <4>2, <4>3
    <3>2. PICK a : IsName(a, C) /\ filePath = FilePaths!Separated(b) \o a
      BY <1>4, <2>1, <3>1 DEF DirsRight
    <3>3. b \in Seq(C)
      BY <3>1
    <3>4. ~ FilePaths!Refused(w) /\ w.part # <<".">> /\ w.part = <<".", ".">>
      <4>1. <<".", ".">> # <<>> /\ <<".">> # <<".", ".">>
        OBVIOUS
      <4>2. w.part = <<".", ".">> /\ Len(w.dirs) # 1
        BY <1>4, <2>1, <2>3 DEF n
      <4> QED
        BY <4>1, <4>2, Zenon DEF FilePaths!Refused
    <3>5. FilePaths!Entered(w).dirs = d
      BY <1>4, <2>1, <3>4 DEF FilePaths!Entered, n
    <3>6. /\ d \in Seq(Seq(C)) /\ Len(d) = n - 1 /\ \A k \in 1 .. n - 1 : d[k] = v.dirs[k]
          /\ d # <<>>
      <4>1. d \in Seq(Seq(C)) /\ Len(d) = n - 1 /\ \A k \in 1 .. n - 1 : d[k] = v.dirs[k]
        BY <3>1
      <4>2. Len(d) # 0
        BY <3>1, <4>1
      <4> QED
        BY <4>1, <4>2, EmptySeq, Zenon
    <3> HIDE DEF d
    <3>7. DirsRight(d, C)
      <4>1. 1 \in 1 .. n - 1 /\ \A m \in 2 .. n - 1 : /\ m \in 2 .. n /\ m \in 1 .. n - 1
                                                   /\ m - 1 \in 1 .. n - 1
        BY <3>1
      <4>2. v.dirs[1] = <<>> \/ v.dirs[1] = <<"/">>
        BY <1>4, <2>1 DEF DirsRight
      <4>3. \A m \in 2 .. n : \E x : IsName(x, C) /\ v.dirs[m] = FilePaths!Separated(v.dirs[m - 1]) \o x
        BY <1>4, <2>1, <3>1 DEF DirsRight
      <4> QED
        BY <3>6, <4>1, <4>2, <4>3 DEF DirsRight
    <3>8. d[Len(d)] = b
      <4>1. n - 1 \in 1 .. n - 1
        BY <3>1
      <4> QED
        BY <3>6, <4>1
    <3>9. FilePaths!Named(b)
      <4>1. CASE b = <<>>
        <5>1. FilePaths!Slashes(filePath) = {} /\ filePath # <<>>
          BY <1>1, <3>2, <3>3, <4>1, LastSlash
        <5> QED
          BY <2>1, <4>1, <5>1
      <4>2. CASE b # <<>>
        <5>1. FilePaths!Slashes(filePath) # {} /\ g # 1 /\ SubSeq(filePath, 1, g - 1) = b
          BY <1>1, <3>2, <3>3, <4>2, LastSlash
        <5> QED
          BY <2>1, <5>1
      <4> QED
        BY <4>1, <4>2
    <3> QED
      BY <1>1, <2>1, <3>4, <3>5, <3>7, <3>8, <3>9, PathNamed DEF w, v
  <2> QED
    BY <2>2, <2>3
<1>8. CASE FilePaths!AppendName
  <2> DEFINE q == filePath \o (IF filePath # <<>> THEN <<"/">> ELSE <<>>) \o FilePaths!Part
             d == Append(v.dirs, FilePaths!Separated(filePath) \o FilePaths!Part)
  <2>1. /\ valid /\ FilePaths!Part # <<>> /\ FilePaths!Part # <<".">>
        /\ FilePaths!Part # <<".", ".">> /\ FilePaths!Named(q) /\ name # <<>>
    BY <1>3, <1>8 DEF FilePaths!AppendName
  <2>2. ~ FilePaths!Refused(w)
    BY <1>4, <2>1 DEF FilePaths!Refused
  <2>3. FilePaths!Entered(w).dirs = d
    BY <1>4, <2>1, <2>2 DEF FilePaths!Entered, n
  <2>4. filePath \in Seq(C) /\ FilePaths!Part \in Seq(C) /\ FilePaths!Separated(filePath) \in Seq(C)
        /\ FilePaths!Separated(filePath) \o FilePaths!Part \in Seq(C)
    <3>1. filePath \in Seq(C) /\ FilePaths!Part \in Seq(C)
      BY <1>4, <2>1
    <3>2. FilePaths!Separated(filePath) \in Seq(C)
      BY <1>1, <3>1 DEF FilePaths!Separated
    <3> QED
      BY <3>1, <3>2
  <2>5. q = FilePaths!Separated(filePath) \o FilePaths!Part
    <3>1. CASE filePath = <<>>
      <4>1. q = <<>> \o <<>> \o FilePaths!Part /\ <<>> \o <<>> = <<>>
        BY <3>1, <2>4
      <4> QED
        BY <2>4, <3>1, <4>1 DEF FilePaths!Separated
    <3>2. CASE filePath # <<>>
      <4>1. filePath \o <<"/">> = Append(filePath, "/")
        BY <1>1, <2>4, AppendIsConcat, Zenon
      <4>2. q = (filePath \o <<"/">>) \o FilePaths!Part
        BY <1>1, <2>4, <3>2
      <4> QED
        BY <3>2, <4>1, <4>2 DEF FilePaths!Separated
    <3> QED
      BY <3>1, <3>2
  <2>6. IsName(FilePaths!Part, C)
    <3>1. PICK l \in 0 .. Len(name) : /\ FilePaths!Part = SubSeq(name, 1, l) /\ Len(FilePaths!Part) = l
                                      /\ \A k \in 1 .. l : name[k] # "/"
                                      /\ Len(name) \in Nat
      BY <1>1, PartIs
    <3>2. \A k \in 1 .. l : FilePaths!Part[k] = name[k]
      BY <1>1, <3>1
    <3> QED
      BY <2>1, <2>4, <3>1, <3>2 DEF IsName
  <2> DEFINE x == FilePaths!Separated(filePath) \o FilePaths!Part
  <2>7. /\ d \in Seq(Seq(C)) /\ Len(d) = n + 1 /\ d[n + 1] = x
        /\ \A k \in 1 .. n : d[k] = v.dirs[k]
        /\ d # <<>> /\ n \in Nat /\ 1 \in 1 .. n
    <3>1. x \in Seq(C) /\ v.dirs \in Seq(Seq(C)) /\ n = Len(v.dirs) /\ n \in Nat \ {0}
          /\ d = Append(v.dirs, x)
      BY <1>4, <2>1, <2>4 DEF n
    <3> HIDE DEF x, d
    <3>2. /\ d \in Seq(Seq(C)) /\ Len(d) = n + 1 /\ d[n + 1] = x
          /\ \A k \in 1 .. n : d[k] = v.dirs[k]
      BY <3>1
    <3>3. Len(d) # 0
      BY <3>1, <3>2
    <3> QED
      BY <3>1, <3>2, <3>3, EmptySeq
  <2> HIDE DEF d
  <2>8. DirsRight(d, C)
    <3>1. v.dirs[1] = <<>> \/ v.dirs[1] = <<"/">>
      BY <1>4, <2>1 DEF DirsRight
    <3>2. \A m \in 2 .. n : \E y : IsName(y, C) /\ v.dirs[m] = FilePaths!Separated(v.dirs[m - 1]) \o y
      BY <1>4, <2>1 DEF DirsRight, n
    <3>3. filePath = v.dirs[n] /\ n \in 1 .. n
      BY <1>4, <2>1, <2>7
    <3>4. ASSUME NEW m \in 2 .. n + 1
          PROVE  \E y : IsName(y, C) /\ d[m] = FilePaths!Separated(d[m - 1]) \o y
      <4>1. CASE m = n + 1
        <5>1. m - 1 = n /\ d[m] = x /\ d[m - 1] = filePath
          BY <2>7, <3>3, <4>1
        <5> QED
          BY <2>6, <5>1
      <4>2. CASE m # n + 1
        <5>1. m \in 2 .. n /\ m \in 1 .. n /\ m - 1 \in 1 .. n
          BY <2>7, <4>2
        <5>2. d[m] = v.dirs[m] /\ d[m - 1] = v.dirs[m - 1]
          BY <2>7, <5>1
        <5> QED
          BY <3>2, <5>1, <5>2
      <4> QED
        BY <4>1, <4>2
    <3> QED
      BY <2>7, <3>1, <3>4 DEF DirsRight
  <2>9. q = d[Len(d)]
    BY <2>5, <2>7
  <2> HIDE DEF q, x
  <2> QED
    BY <1>1, <2>1, <2>2, <2>3, <2>8, <2>9, PathNamed DEF w, v
<1> QED
  BY <1>2, <1>5, <1>6, <1>7, <1>8 DEF FilePaths!Next

\* At the end of the text the way has arrived.
LEMMA PathRight == PathInv => FilePaths!PathExact
<1> SUFFICES ASSUME PathInv, FilePaths!Done
             PROVE  /\ valid <=> FilePaths!Arrived.ok
                    /\ valid => filePath = FilePaths!Arrived.dirs[Len(FilePaths!Arrived.dirs)]
  BY DEF FilePaths!PathExact
<1>1. CASE ~ valid
  BY <1>1 DEF PathInv
<1>2. CASE valid
  <2>1. name = <<>> /\ Len(given) \in Nat
    BY <1>2 DEF FilePaths!Done, PathInv
  <2>2. Taken = Len(given)
    BY <2>1 DEF Taken
  <2>3. Here = FilePaths!Arrived
    BY <2>2 DEF Here, FilePaths!Arrived
  <2> QED
    BY <1>2, <2>3 DEF PathInv
<1> QED
  BY <1>1, <1>2

-----------------------------------------------------------------------------
(* The three in MCText, where a behaviour has one component and leaves the *)
(* variables of the others as they are.                                    *)
TextInv ==
    /\ component = "edit_distance" => DistInv
    /\ component = "line_break" => LineInv
    /\ component = "file_path" => PathInv

LEMMA TextInit == AnyInit => TextInv
<1> SUFFICES ASSUME AnyInit PROVE TextInv
  OBVIOUS
<1>1. ASSUME component = "edit_distance" PROVE DistInv
  <2>1. Distances!Init
    BY <1>1 DEF AnyInit, Begins
  <2>2. Inputs \subseteq Seq(STRING) \X Seq(STRING)
    BY TextsAssumption
  <2> QED
    BY <2>1, <2>2, DistInit
<1>2. ASSUME component = "line_break" PROVE LineInv
  <2>1. Lines!Init
    BY <1>2 DEF AnyInit, Begins
  <2>2. original \in Seq(STRING) /\ line_width \in Nat
    BY <2>1, TextsAssumption DEF Lines!Init
  <2> QED
    BY <2>1, <2>2, LineInit
<1>3. ASSUME component = "file_path" PROVE PathInv
  <2>1. FilePaths!Init
    BY <1>3 DEF AnyInit, Begins
  <2>2. given \in Seq(STRING)
    BY <2>1, TextsAssumption DEF FilePaths!Init
  <2> QED
    BY <2>1, <2>2, PathInit
<1> QED
  BY <1>1, <1>2, <1>3 DEF TextInv

LEMMA TextStep == TextInv /\ [AnyNext]_allVars => TextInv'
<1> SUFFICES ASSUME TextInv, [AnyNext]_allVars PROVE TextInv'
  OBVIOUS
<1>1. component' = component
  BY DEF AnyNext, Only, allVars
<1>2. ASSUME component = "edit_distance" PROVE [Distances!Next]_(Distances!vars)
  BY <1>2 DEF AnyNext, Only, allVars, distanceVars, Distances!vars
<1>3. ASSUME component = "line_break" PROVE [Lines!Next]_(Lines!vars)
  BY <1>3 DEF AnyNext, Only, allVars, lineVars, Lines!vars
<1>4. ASSUME component = "file_path" PROVE [FilePaths!Next]_(FilePaths!vars)
  BY <1>4 DEF AnyNext, Only, allVars, pathVars, FilePaths!vars
<1> QED
  BY <1>1, <1>2, <1>3, <1>4, DistStep, LineStep, PathStep DEF TextInv

\* However long the texts and however many: edit distances are the least,
\* lines are broken where they may be and as late as they can be, and a path
\* of a file is refused or names the place that its text goes to.
THEOREM TextExactHolds == AnySpec => []TextExact
<1>1. TextInv => TextExact
  BY DistRight, PathRight DEF TextInv, TextExact, LineInv
<1> QED
  BY TextInit, TextStep, <1>1, PTL DEF AnySpec
=============================================================================
