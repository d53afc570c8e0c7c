-------------------------------- MODULE Glob --------------------------------
(***************************************************************************)
(* nth::GlobMatches (strings/glob.h, strings/internal/glob.h): whether a   *)
(* glob matches a '/'-separated path.  Verbosity paths, contract modes and *)
(* test names are all selected by it.                                      *)
(*                                                                         *)
(* The glob is consumed part by part.  `toCheck` is the word of bits       *)
(* to_check, as the set of the positions of its set bits: bit i says that  *)
(* the parts consumed so far match the first i chunks of the path.  The    *)
(* word has Width bits, 32 in the code, and a path may have as many chunks.*)
(***************************************************************************)
EXTENDS Integers, Sequences

CONSTANTS
    Characters, \* what globs and paths are written with, but for '/'
    Width,      \* bits of to_check and entries of chunk_starts: 32 in the code
    Globs,      \* the globs given: sequences of parts, what '/' separates
    Paths       \* the paths given: sequences of chunks, likewise

\* A part or a chunk is a sequence of characters; the empty string is <<(<<>>)>>.
ASSUME WidthAssumption == Width \in Nat \ {0}
ASSUME InputAssumption ==
    /\ \A g \in Globs : g \in Seq(Seq(Characters)) /\ g # <<>>
    /\ \A p \in Paths : p \in Seq(Seq(Characters)) /\ p # <<>>

VARIABLES
    glob,       \* the argument `glob`
    path,       \* the argument `path`
    part,       \* parts of `glob` removed from its front
    toCheck,    \* to_check
    result      \* "running", "aborted", or what is returned: "yes" or "no"

globVars == <<glob, path, part, toCheck, result>>

EmptyString == << <<>> >>
GlobStar == <<"*", "*">>

\* Mutant of Consumed: an empty last part is looked at, too.
ConsumedWhole(g, k) == k = Len(g)

\* glob.empty(): a '/' at the very end is followed by nothing, so that the
\* empty part after it is never looked at.
Consumed(g, k) == k = Len(g) \/ (k = Len(g) - 1 /\ g[Len(g)] = <<>>)

IsWildcard(p) == \E i \in DOMAIN p : p[i] \in {"?", "*", "["}

\* How much of pattern p is compared with the text, character by character:
\* all of it, or what stands before its first '*' or '['.
Stops(p) == {i \in DOMAIN p : p[i] \in {"*", "["}}
Compared(p) ==
    IF Stops(p) = {} THEN Len(p)
    ELSE (CHOOSE i \in Stops(p) : \A j \in Stops(p) : i <= j) - 1

\* '?' is any one character.
Agrees(p, c) ==
    /\ Compared(p) <= Len(c)
    /\ \A i \in 1 .. Compared(p) : p[i] \in {"?", c[i]}

\* GlobChunkMatches: the first '*' ends the comparison with success.
GlobChunkMatches(p, c) == Agrees(p, c) /\ (Stops(p) = {} => Len(p) = Len(c))

\* ... and a '[' that the comparison comes to ends the program.
Unsupported(p, c) ==
    Stops(p) # {} /\ p[Compared(p) + 1] = "[" /\ Agrees(p, c)

\* What one part says of one chunk.
ChunkMatches(p, c) ==
    IF IsWildcard(p) THEN GlobChunkMatches(p, c) ELSE p = c

GlobInit ==
    /\ glob \in Globs
    /\ path \in Paths
    /\ part = 0
    /\ toCheck = {0}
    /\ result = "running"

Halt(r) ==
    /\ result' = r
    /\ UNCHANGED <<glob, path, part, toCheck>>

Answer(b) == IF b THEN "yes" ELSE "no"
Running == result = "running"

\* An empty glob, and a path with more chunks than chunk_starts has entries.
EmptyGlob ==
    /\ Running /\ glob = EmptyString
    /\ Halt(Answer(path = EmptyString))

TooManyChunks ==
    /\ Running /\ glob # EmptyString /\ Len(path) > Width
    /\ Halt("aborted")

InLoop == Running /\ glob # EmptyString /\ Len(path) <= Width

NothingToCheck ==
    /\ InLoop /\ ~ Consumed(glob, part) /\ toCheck = {}
    /\ Halt("no")

\* Mutant of MatchGlobStar: '**' has to match at least one chunk.
MatchGlobStarStrict ==
    /\ InLoop /\ ~ Consumed(glob, part) /\ toCheck # {}
    /\ glob[part + 1] = GlobStar
    /\ toCheck' = {i \in 0 .. Len(path) : i < Width /\ \E j \in toCheck : j < i}
    /\ part' = part + 1
    /\ UNCHANGED <<glob, path, result>>

\* Mutant of MatchGlobStar: the word is as wide as the path is long.
MatchGlobStarUnmasked ==
    /\ InLoop /\ ~ Consumed(glob, part) /\ toCheck # {}
    /\ glob[part + 1] = GlobStar
    /\ toCheck' = {i \in 0 .. Len(path) : \E j \in toCheck : j <= i}
    /\ part' = part + 1
    /\ UNCHANGED <<glob, path, result>>

\* '**': every position from the least one on, cut off at Width bits.
MatchGlobStar ==
    /\ InLoop /\ ~ Consumed(glob, part) /\ toCheck # {}
    /\ glob[part + 1] = GlobStar
    /\ toCheck' = {i \in 0 .. Len(path) : i < Width /\ \E j \in toCheck : j <= i}
    /\ part' = part + 1
    /\ UNCHANGED <<glob, path, result>>

\* Any other part is compared with the chunk at each position; bit Width - 1
\* has no successor in the word, and its chunk is not looked at.
Candidates == {j \in toCheck : j < Len(path) /\ j # Width - 1}

MatchPart ==
    /\ InLoop /\ ~ Consumed(glob, part) /\ toCheck # {}
    /\ glob[part + 1] # GlobStar
    /\ \A j \in Candidates : ~ Unsupported(glob[part + 1], path[j + 1])
    /\ toCheck' = {j + 1 : j \in {k \in Candidates :
                                   ChunkMatches(glob[part + 1], path[k + 1])}}
    /\ part' = part + 1
    /\ UNCHANGED <<glob, path, result>>

UnsupportedPart ==
    /\ InLoop /\ ~ Consumed(glob, part)
    /\ glob[part + 1] # GlobStar
    /\ \E j \in Candidates : Unsupported(glob[part + 1], path[j + 1])
    /\ Halt("aborted")

\* Mutant of Finish: any bit of the word is a match.
FinishAnyBit ==
    /\ InLoop /\ Consumed(glob, part)
    /\ Halt(Answer(toCheck # {}))

\* to_check & (1 << chunk_count)
Finish ==
    /\ InLoop /\ Consumed(glob, part)
    /\ Halt(Answer(Len(path) \in toCheck))

GlobNext ==
    \/ EmptyGlob \/ TooManyChunks
    \/ NothingToCheck \/ MatchGlobStar \/ MatchPart \/ UnsupportedPart \/ Finish

GlobSpec == GlobInit /\ [][GlobNext]_globVars

-----------------------------------------------------------------------------
(* The meaning of a glob, without words and bits: the path can be cut into *)
(* one piece for every part, of any number of chunks for a '**' and of one *)
(* matching chunk for any other part.                                      *)

PieceMatches(p, c, from, to) ==
    IF p = GlobStar THEN from <= to
    ELSE to = from + 1 /\ ChunkMatches(p, c[to])

\* The first k parts of g match the first i chunks of c.
Cuts(g, c, k, i) ==
    {cut \in [0 .. k -> 0 .. Len(c)] :
        /\ cut[0] = 0
        /\ cut[k] = i
        /\ \A j \in 1 .. k : PieceMatches(g[j], c, cut[j - 1], cut[j])}

Matches(g, c, k, i) == Cuts(g, c, k, i) # {}

\* The parts that are looked at: an empty one at the end is not.
Parts(g) == IF g[Len(g)] = <<>> THEN Len(g) - 1 ELSE Len(g)

Means(g, c) ==
    IF g = EmptyString THEN c = EmptyString ELSE Matches(g, c, Parts(g), Len(c))

\* Types, and the word never holds a bit beyond the end of the path.
GlobTypeOK ==
    /\ glob \in Globs
    /\ path \in Paths
    /\ part \in 0 .. Len(glob)
    /\ toCheck \in SUBSET {i \in 0 .. Len(path) : i < Width}
    /\ result \in {"running", "aborted", "yes", "no"}

\* While a glob is being consumed, the bits of the word are exactly the
\* numbers of chunks that the consumed parts can match.
WordIsExact ==
    InLoop => \A i \in 0 .. Len(path) :
                 i < Width => (i \in toCheck <=> Matches(glob, path, part, i))

\* GlobMatches returns what the glob means, for every path that leaves a bit
\* of the word for its end: one of less than Width chunks.
Correct ==
    result \in {"yes", "no"} /\ Len(path) < Width
    => (result = "yes" <=> Means(glob, path))

\* The inductive invariant: a glob is also never consumed beyond its parts.
GlobInv ==
    /\ GlobTypeOK
    /\ WordIsExact
    /\ Correct
    /\ glob # EmptyString => part <= Parts(glob)

=============================================================================
