---------------------------- MODULE IntegerSpec ----------------------------
(***************************************************************************)
(* What an integer (numeric/integer.h) promises: objects that hold whole   *)
(* numbers of any magnitude, and calls that do arithmetic with them.  Some *)
(* calls may leave an object of which nothing is promised until it is      *)
(* given another number; the others keep what there is.                    *)
(***************************************************************************)
EXTENDS Integers

CONSTANTS
    Objects, Numbers,
    Limit       \* numbers below it, and above its negative, are copied as they are

VARIABLES
    value,      \* the number each object stands for
    sure,       \* the objects that stand for theirs
    call        \* the last call: its name, the object it sets, its arguments

vars == <<value, sure, call>>

Init == value = [x \in Objects |-> 0] /\ sure = Objects /\ call = <<>>

Called(op, x, y, n) == call' = [op |-> op, to |-> x, of |-> y, by |-> n]

\* x is given the number n, which is made of those of the objects `of`.  It is
\* sure only if they are, and then it is, if the call is one that keeps numbers.
Becomes(x, of, n, keeps) ==
    /\ x \in sure' => of \subseteq sure /\ value'[x] = n
    /\ (keeps /\ of \subseteq sure) => x \in sure'

\* All objects but those of S are as they were.
Others(S) ==
    /\ value' = [z \in Objects |-> value'[z]] /\ sure' \subseteq Objects
    /\ \A z \in Objects \ S : value'[z] = value[z] /\ (z \in sure' <=> z \in sure)
Stores(x, of, n, keeps) == Becomes(x, of, n, keeps) /\ Others({x})

\* The number that a call is given is the one in its record.
Given == IF call' = <<>> THEN 0 ELSE call'.by

\* The constructors, and an assignment of what they construct.
Construct(x) ==
    Called("construct", x, x, Given) /\ Given \in Numbers /\ Stores(x, {}, Given, TRUE)
ConstructDefault(x) == Called("default", x, x, 0) /\ Stores(x, {}, 0, FALSE)
ConstructFromWords(x) ==
    Called("from_words", x, x, Given) /\ Given \in Numbers /\ Stores(x, {}, Given, FALSE)

Assign(x, y) ==
    /\ Called("assign", x, y, 0)
    /\ Stores(x, {y}, value[y], - Limit < value[y] /\ value[y] < Limit)

\* What is moved from is 0, surely if it was not negative.
Move(x, y) ==
    /\ Called("move", x, y, 0)
    /\ x # y => Becomes(x, {y}, value[y], TRUE)
    /\ Becomes(y, {}, 0, x # y /\ y \in sure /\ value[y] >= 0)
    /\ Others({x, y})

\* Numbers of which none is negative, or none positive.
Alike(m, n) == (m >= 0 /\ n >= 0) \/ (m <= 0 /\ n <= 0)
Add(x, y, z) ==
    /\ Called("add", x, y, z)
    /\ Stores(x, {y, z}, value[y] + value[z], Alike(value[y], value[z]))
Negate(x, y) == Called("negate", x, y, 0) /\ Stores(x, {y}, - value[y], TRUE)
Increment(x) == Called("increment", x, x, 0) /\ Stores(x, {x}, value[x] + 1, TRUE)
PostIncrement(x, y) ==
    /\ Called("post_increment", x, y, 0)
    /\ Becomes(x, {y}, value[y], TRUE) /\ Becomes(y, {y}, value[y] + 1, TRUE)
    /\ Others({x, y})
Multiply(x, y) ==
    /\ Called("multiply", x, y, Given) /\ Given \in Numbers
    /\ Stores(x, {y}, value[y] * Given, Given >= -1)

Next ==
    \E x, y \in Objects :
       \/ Construct(x) \/ ConstructDefault(x) \/ ConstructFromWords(x) \/ Increment(x)
       \/ Assign(x, y) \/ Move(x, y) \/ Negate(x, y) \/ Multiply(x, y)
       \/ x # y /\ PostIncrement(x, y)
       \/ \E z \in Objects : Add(x, y, z)

Spec == Init /\ [][Next]_vars
=============================================================================
