------------------------------ MODULE Integer ------------------------------
(***************************************************************************)
(* nth::integer (numeric/integer.h, integer.cc): a sign and the words of a *)
(* magnitude, least significant first.  Up to two words lie in the object; *)
(* more lie in a buffer, whose capacity takes the second word's place.     *)
(*                                                                         *)
(* A word has Base = 2^64 values in the code.  Here a word is a pair of    *)
(* digits, and Base is small, so that every carry happens.                 *)
(***************************************************************************)
EXTENDS Integers, Sequences

CONSTANTS
    Objects,      \* the objects
    Digit,        \* the values of a digit of a word, two at least: 16 in the code
    Memory,       \* bound: words that fresh memory may hold
    MaxWords,     \* bound: words given to from_words
    MaxCalls      \* bound: calls

Base == Digit * Digit
Word == 0 .. Base - 1
Signed == - (Base \div 2) .. Base \div 2 - 1

VARIABLES
    rep,        \* sign_, words() and the room for them: what an object holds
    aborted,    \* NTH_REQUIRE or NTH_UNIMPLEMENTED ended the process
    calls,      \* calls made
    call,       \* the last call
    sure        \* history: the objects that no call the code gets wrong has set

vars == <<rep, aborted, calls, call, sure>>

Max(S) == CHOOSE x \in S : \A y \in S : x >= y
Size(n) == Len(n.words)
Number(bit, words, room) == [sign |-> bit, words |-> words, room |-> room]
Zero == Number(0, <<>>, 2)
RoomFor(words) == IF Len(words) > 2 THEN Len(words) ELSE 2

-----------------------------------------------------------------------------
(* Arithmetic on words.  carry[i] is what goes from word i into the next.  *)

\* AddWord: stops at the first word that does not wrap.
AddWord(words, first) ==
    LET carry[i \in 0 .. Len(words)] ==
            IF i = 0 THEN first ELSE (words[i] + carry[i - 1]) \div Base
    IN  [words |-> [i \in DOMAIN words |-> (words[i] + carry[i - 1]) % Base],
         carry |-> carry[Len(words)]]

\* Mutant of AddWords: the carry does not outlive the words that are added.
AddWordsShort(words, out) ==
    LET carry[i \in 0 .. Len(words)] ==
            IF i = 0 THEN 0 ELSE (words[i] + out[i] + carry[i - 1]) \div Base
    IN  [words |-> [i \in DOMAIN out |->
                      IF i > Len(words) THEN out[i]
                      ELSE (words[i] + out[i] + carry[i - 1]) % Base],
         carry |-> carry[Len(words)]]

\* AddWords: a word and a carry that come to 0 leave the carry as it was.
AddWords(words, out) ==
    LET carry[i \in 0 .. Len(words)] ==
            IF i = 0 THEN 0
            ELSE LET more == (words[i] + carry[i - 1]) % Base
                 IN  CASE more = 0 -> carry[i - 1]
                       [] more # 0 -> IF (out[i] + more) % Base < out[i] THEN 1 ELSE 0
        low == [i \in DOMAIN words |-> (out[i] + words[i] + carry[i - 1]) % Base]
        high == SubSeq(out, Len(words) + 1, Len(out))
        rest == AddWord(high, 1)
    IN  IF carry[Len(words)] = 1 THEN [words |-> low \o rest.words, carry |-> rest.carry]
                                 ELSE [words |-> low \o high, carry |-> 0]

\* SubWord: `end` is the pointer it returns, as a number of words.  When the
\* last word becomes 0 it returns where the borrow came from, not behind it.
SubWord(words, first) ==
    LET borrow[i \in 0 .. Len(words)] ==
            IF i = 0 THEN first ELSE IF words[i] >= borrow[i - 1] THEN 0 ELSE 1
        n == Len(words)
        ended == n > 0 /\ borrow[n - 1] # 0 /\ words[n] = borrow[n - 1]
    IN  [words |-> [i \in DOMAIN words |-> (words[i] - borrow[i - 1]) % Base],
         end |-> IF ended THEN Max({0, n - 2}) ELSE n]

\* SubWords: `word + borrow` is a word too, and may be 0 for a borrow.
Borrows(words, out) ==
    LET borrow[i \in 0 .. Len(words)] ==
            IF i = 0 THEN 0
            ELSE IF out[i] >= (words[i] + borrow[i - 1]) % Base THEN 0 ELSE 1
    IN  borrow
SubWords(words, out) ==
    LET borrow == Borrows(words, out)
        n == Len(words)
        low == [i \in DOMAIN words |-> (out[i] - words[i] - borrow[i - 1]) % Base]
        high == SubSeq(out, n + 1, Len(out))
        rest == SubWord(high, 1)
    IN  CASE borrow[n] = 1 -> [words |-> low \o rest.words, end |-> n + rest.end]
          [] borrow[n] = 0 /\ n = Len(out) ->
                [words |-> low, end |-> Max({0} \union {i \in 1 .. n : low[i] # 0})]
          [] OTHER -> [words |-> low \o high, end |-> Len(out)]

\* What SubWord refuses in a debug build: words of which the last one is 0.
Trailing(words) == words # <<>> /\ words[Len(words)] = 0

-----------------------------------------------------------------------------
(* Arithmetic on numbers.                                                  *)

sign(n) == IF n.sign = 1 THEN "negative" ELSE IF Size(n) = 0 THEN "zero" ELSE "positive"

\* The copy constructor allocates no more than it needs.
Copy(n) == [n EXCEPT !.room = RoomFor(n.words)]

\* One word more: in the object, in a buffer of four words, or in one twice
\* as large as it was (MoveToHeap, UncheckedResize).
Extended(n, words, word) ==
    Number(n.sign, Append(words, word),
           CASE Len(words) < 2 -> 2
             [] Len(words) = 2 -> 4
             [] OTHER -> IF Len(words) = n.room THEN 2 * n.room ELSE n.room)

\* ResizeTo
Resized(n, words, end) ==
    Number(IF end = 0 THEN 0 ELSE n.sign, SubSeq(words, 1, end),
           IF end <= 2 THEN 2 ELSE n.room)

Increased(n) ==
    LET sum == AddWord(n.words, 1)
    IN  IF sum.carry = 0 THEN [n EXCEPT !.words = sum.words]
                         ELSE Extended(n, sum.words, 1)

\* Mutant of Reduced: a number of one word keeps its sign.
ReducedSigned(n) ==
    LET rest == SubWord(n.words, 1)
    IN  IF rest.end = Size(n) THEN [n EXCEPT !.words = rest.words]
        ELSE Number(n.sign, SubSeq(rest.words, 1, Size(n) - 1),
                    IF Size(n) = 3 THEN 2 ELSE n.room)

\* One word is dropped, wherever SubWord says that they end.
Reduced(n) ==
    LET rest == SubWord(n.words, 1)
    IN  CASE rest.end = Size(n) -> [n EXCEPT !.words = rest.words]
          [] rest.end # Size(n) /\ Size(n) = 1 -> Zero
          [] OTHER -> Number(n.sign, SubSeq(rest.words, 1, Size(n) - 1),
                             IF Size(n) = 3 THEN 2 ELSE n.room)

Incremented(n) == IF n.sign = 1 THEN Reduced(n) ELSE Increased(n)

Negated(n) == IF Size(n) = 0 THEN n ELSE [n EXCEPT !.sign = 1 - @]

SameSign(lhs, rhs) ==
    LET result == Copy(lhs)
        sum == AddWords(rhs.words, lhs.words)
    IN  IF sum.carry = 0 THEN [result EXCEPT !.words = sum.words]
                         ELSE Extended(result, sum.words, 1)

\* The magnitude of rhs may be the larger one, if it has as many words: the
\* last word has grown, and the result is the complement plus one.
UnlikeSigns(lhs, rhs) ==
    LET result == Copy(lhs)
        rest == SubWords(rhs.words, lhs.words)
        complement == [i \in DOMAIN rest.words |-> Base - 1 - rest.words[i]]
        end == Max({0} \union {i \in DOMAIN complement : complement[i] # 0})
    IN  IF rest.end # Size(lhs) THEN Resized(result, rest.words, rest.end)
        ELSE IF rest.words[Size(lhs)] <= lhs.words[Size(lhs)]
               THEN [result EXCEPT !.words = rest.words]
        ELSE [Increased(Resized([result EXCEPT !.sign = 0], complement, end))
                 EXCEPT !.sign = rhs.sign]

\* operator+
Sum(x, y) ==
    LET lhs == IF Size(x) < Size(y) THEN y ELSE x
        rhs == IF Size(x) < Size(y) THEN x ELSE y
    IN  CASE Size(rhs) = 0 -> Copy(lhs)
          [] Size(rhs) # 0 /\ sign(lhs) = sign(rhs) -> SameSign(lhs, rhs)
          [] OTHER -> UnlikeSigns(lhs, rhs)

\* SlowMul: refused, in a debug build, when the carry of a number of two words
\* is written, for it looks at the capacity before size_ says there is one.
MulCarry(n, k) ==
    LET carry[i \in 0 .. Size(n)] ==
            IF i = 0 THEN 0 ELSE (n.words[i] * k + carry[i - 1]) \div Base
    IN  carry
Refused(n, k) == Size(n) = 2 /\ MulCarry(n, k)[2] # 0
SlowMul(n, k) ==
    LET carry == MulCarry(n, k)
        words == [i \in DOMAIN n.words |-> (n.words[i] * k + carry[i - 1]) % Base]
    IN  IF carry[Size(n)] = 0 THEN [n EXCEPT !.words = words]
                              ELSE Extended(n, words, carry[Size(n)])

\* operator* with an unsigned and with a signed number, which is multiplied by
\* as the unsigned number of the same bits.
TimesUnsigned(n, k) == CASE k = 0 -> Zero [] k = 1 -> Copy(n) [] OTHER -> SlowMul(Copy(n), k)
TimesSigned(n, k) ==
    LET result == IF k < 0 THEN [n EXCEPT !.sign = 1 - @] ELSE n
    IN  CASE k = 0 -> Zero
          [] k = 1 -> Copy(n)
          [] k = -1 -> Negated(Copy(n))
          [] OTHER -> SlowMul(Copy(result), k % Base)

\* operator== and operator<=
Equal(x, y) == x.sign = y.sign /\ x.words = y.words
LessEqual(x, y) ==
    LET negative == x.sign = 1
        differ == {i \in 1 .. Size(x) : x.words[i] # y.words[i]}
    IN  CASE x.sign # y.sign -> negative
          [] x.sign = y.sign /\ Size(x) < Size(y) -> ~ negative
          [] x.sign = y.sign /\ Size(x) > Size(y) -> negative
          [] OTHER -> IF differ = {} THEN TRUE
                      ELSE (x.words[Max(differ)] < y.words[Max(differ)]) = ~ negative

\* NthFormat, PrintUsingBuffer: the digits of the last word without leading
\* zeros, and all those of the others, from the upper ones on.
Digits(word) == <<word \div Digit, word % Digit>>
Printed(n) ==
    IF Size(n) = 0 THEN <<0>>
    ELSE LET top == Digits(n.words[Size(n)])
             first == IF top[1] # 0 THEN top ELSE IF top[2] # 0 THEN <<top[2]>> ELSE <<>>
             text[k \in 0 .. Size(n) - 1] ==
                IF k = 0 THEN first ELSE text[k - 1] \o Digits(n.words[Size(n) - k])
         IN  text[Size(n) - 1]

\* operator N() of a signed type: the lowest word, or the pointer to the words.
\* `-` of the lowest number of the type is undefined, and may be any number.
ToSigned(n) ==
    LET word == CASE Size(n) = 0 -> {0} [] Size(n) \in {1, 2} -> {n.words[1]} [] OTHER -> Word
        low == {IF w >= Base \div 2 THEN w - Base ELSE w : w \in word}
    IN  IF n.sign = 0 THEN low
        ELSE IF - (Base \div 2) \in low THEN Signed ELSE {- l : l \in low}

\* A number has one representation: no leading word is 0, 0 is not negative,
\* and words that do not fit in the object have room where they are.  On this
\* rest ==, which compares sizes, signs and words, <=, printing and the cast.
Canonical(n) ==
    /\ n.words # <<>> => n.words[Size(n)] # 0
    /\ n.words = <<>> => n.sign = 0
    /\ Size(n) <= n.room
    /\ Size(n) <= 2 <=> n.room = 2

-----------------------------------------------------------------------------
Init ==
    /\ rep = [x \in Objects |-> Zero]
    /\ aborted = FALSE /\ calls = 0 /\ call = <<>> /\ sure = Objects

Called(op, x, y, n) ==
    /\ ~ aborted /\ calls < MaxCalls
    /\ calls' = calls + 1
    /\ call' = [op |-> op, to |-> x, of |-> y, by |-> n]

\* `exact`: the number stored is the one that arithmetic says.
Sure(x, exact) == IF exact THEN sure \union {x} ELSE sure \ {x}
Stores(x, n, exact) ==
    rep' = [rep EXCEPT ![x] = n] /\ sure' = Sure(x, exact) /\ UNCHANGED aborted
Abort ==
    /\ ~ aborted /\ calls < MaxCalls
    /\ aborted' = TRUE /\ calls' = calls + 1 /\ UNCHANGED <<rep, call, sure>>

\* What words are worth, from the upper ones on.
Magnitude(words) ==
    LET upper[k \in 0 .. Len(words)] ==
            IF k = 0 THEN 0 ELSE upper[k - 1] * Base + words[Len(words) + 1 - k]
    IN  upper[Len(words)]
ValueOf(n) == IF n.sign = 1 THEN - Magnitude(n.words) ELSE Magnitude(n.words)

\* integer(long long) and integer(unsigned long long); `-n` does not exist for
\* the lowest number, whose magnitude is written out.
FromNumber(n) ==
    LET magnitude == IF n >= 0 THEN n ELSE - n
    IN  Number(IF n < 0 THEN 1 ELSE 0, IF n = 0 THEN <<>> ELSE <<magnitude>>, 2)
Construct(x) ==
    \E n \in Signed \union Word :
       Called("construct", x, x, n) /\ Stores(x, FromNumber(n), TRUE)

\* integer() leaves sign_ as the memory was: wrong when the bit was set.
ConstructDefault(x) ==
    \E bit \in {0, 1} :
       Called("default", x, x, 0) /\ Stores(x, Number(bit, <<>>, 2), bit = 0)

\* from_words: one word is a number, more are taken as they are: wrong when the
\* last one given is 0.
FromWords(words) ==
    CASE words = <<>> -> Zero
      [] Len(words) = 1 -> FromNumber(words[1])
      [] OTHER -> Number(0, words, RoomFor(words))
ConstructFromWords(x) ==
    \E m \in 0 .. MaxWords : \E words \in [1 .. m -> Word] :
       /\ Called("from_words", x, x, Magnitude(words))
       /\ Stores(x, FromWords(words), Canonical(FromWords(words)))

\* operator=(integer const &): the words of a buffer are copied from the new
\* buffer to itself.
Copied(words) == IF Len(words) <= 2 THEN {words} ELSE [DOMAIN words -> Memory]
CopyAssign(x, y) ==
    \E words \in Copied(rep[y].words) :
       /\ Called("assign", x, y, 0)
       /\ Stores(x, Copy([rep[y] EXCEPT !.words = words]), y \in sure /\ Size(rep[y]) <= 2)

\* The move constructor and operator=(integer &&): the sign stays, a negative
\* number leaves a negative 0.  What is moved to itself keeps its lowest word.
MoveAssign(x, y) ==
    /\ Called("move", x, y, 0)
    /\ rep' = [rep EXCEPT ![x] = rep[y], ![y] = Number(rep[y].sign, <<>>, 2)]
    /\ sure' = {z \in Objects : IF z = y THEN x # y /\ rep[y].sign = 0
                                         ELSE IF z = x THEN y \in sure ELSE z \in sure}
    /\ UNCHANGED aborted

\* The additions that come out right: of numbers of one sign, of 0, and those
\* in which no `word + borrow` wraps and no borrow passes more than one word.
Exact(lhs, rhs) == \/ lhs.sign = rhs.sign \/ Size(rhs) = 0
                   \/ ( /\ \A i \in DOMAIN rhs.words : rhs.words[i] # Base - 1
                        /\ Size(lhs) <= Size(rhs) + 1 )
ExactSum(x, y) == IF Size(x) < Size(y) THEN Exact(y, x) ELSE Exact(x, y)

\* A borrow out of the words of rhs goes to those above, which SubWord refuses.
RefusedSum(lhs, rhs) ==
    /\ Size(rhs) \in 1 .. Size(lhs) - 1 /\ sign(lhs) # sign(rhs)
    /\ Borrows(rhs.words, lhs.words)[Size(rhs)] = 1
    /\ Trailing(lhs.words)

\* The results of operators, assigned by move.
Add(x, y, z) ==
    IF RefusedSum(rep[y], rep[z]) \/ RefusedSum(rep[z], rep[y]) THEN Abort
    ELSE /\ Called("add", x, y, z)
         /\ Stores(x, Sum(rep[y], rep[z]), {y, z} \subseteq sure /\ ExactSum(rep[y], rep[z]))
Negate(x, y) == Called("negate", x, y, 0) /\ Stores(x, Negated(Copy(rep[y])), y \in sure)
RefusedIncrement(n) == n.sign = 1 /\ Trailing(n.words)
Increment(x) ==
    IF RefusedIncrement(rep[x]) THEN Abort
    ELSE Called("increment", x, x, 0) /\ Stores(x, Incremented(rep[x]), x \in sure)
PostIncrement(x, y) ==
    IF RefusedIncrement(rep[y]) THEN Abort
    ELSE /\ Called("post_increment", x, y, 0)
         /\ rep' = [rep EXCEPT ![y] = Incremented(@), ![x] = Copy(rep[y])]
         /\ sure' = Sure(x, y \in sure)
         /\ UNCHANGED aborted

MultiplyUnsigned(x, y) ==
    \E k \in Word :
       IF k > 1 /\ Refused(rep[y], k) THEN Abort
       ELSE Called("multiply", x, y, k) /\ Stores(x, TimesUnsigned(rep[y], k), y \in sure)

\* By a factor below -1 the product is wrong.
MultiplySigned(x, y) ==
    \E k \in Signed :
       IF k \notin {-1, 0, 1} /\ Refused(rep[y], k % Base) THEN Abort
       ELSE /\ Called("multiply", x, y, k)
            /\ Stores(x, TimesSigned(rep[y], k), y \in sure /\ k >= -1)

\* operator*=: by anything but 0 and 1, NTH_UNIMPLEMENTED, but a signed number
\* finds first that there is nothing to multiply.
MultiplyAssign(x) ==
    \/ \E k \in Signed :
          /\ k = 0 \/ Size(rep[x]) = 0
          /\ Called("multiply", x, x, k) /\ Stores(x, Zero, x \in sure)
    \/ Called("multiply", x, x, 1) /\ Stores(x, rep[x], x \in sure)
    \/ Abort

\* Every call, on whatever objects.
Next ==
    \E x \in Objects :
       \/ Construct(x) \/ ConstructDefault(x) \/ ConstructFromWords(x)
       \/ Increment(x) \/ MultiplyAssign(x)
       \/ \E y \in Objects :
             \/ CopyAssign(x, y) \/ MoveAssign(x, y) \/ Negate(x, y)
             \/ x # y /\ PostIncrement(x, y)
             \/ MultiplyUnsigned(x, y) \/ MultiplySigned(x, y)
             \/ \E z \in Objects : Add(x, y, z)

Spec == Init /\ [][Next]_vars

-----------------------------------------------------------------------------
\* Of the objects that hold what arithmetic says.
TypeOK ==
    /\ rep = [x \in Objects |-> rep[x]] /\ sure \subseteq Objects
    /\ \A x \in sure : rep[x] \in [sign : {0, 1}, words : Seq(Word), room : Nat]
    /\ aborted \in BOOLEAN /\ calls \in 0 .. MaxCalls

DigitsValue(d) ==
    LET upto[i \in 0 .. Len(d)] == IF i = 0 THEN 0 ELSE upto[i - 1] * Digit + d[i]
    IN  upto[Len(d)]

\* Equality, order, sign, the text and a cast that fits are those of the
\* numbers, whatever calls they come from, of objects that no wrong call set;
\* the cast of the lowest number of the type is undefined.
AnswersExact ==
    /\ TypeOK
    /\ \A x \in sure :
          LET n == rep[x]
          IN  /\ Canonical(n)
              /\ DigitsValue(Printed(n)) = Magnitude(n.words)
              /\ Len(Printed(n)) <= IF Size(n) = 0 THEN 1 ELSE 2 * Size(n)
              /\ Printed(n)[1] = 0 => n = Zero
              /\ (ValueOf(n) \in Signed /\ ValueOf(n) # - (Base \div 2))
                    => ToSigned(n) = {ValueOf(n)}
              /\ sign(n) = "negative" <=> ValueOf(n) < 0
              /\ sign(n) = "zero" <=> ValueOf(n) = 0
    /\ \A x, y \in sure :
          /\ Equal(rep[x], rep[y]) <=> ValueOf(rep[x]) = ValueOf(rep[y])
          /\ LessEqual(rep[x], rep[y]) <=> ValueOf(rep[x]) <= ValueOf(rep[y])

\* Every call leaves the number that arithmetic says, or an object whose number
\* is not sure where IntegerSpec allows it: the words implement whole numbers,
\* across the carries, the move to a buffer and back.
Arithmetic == INSTANCE IntegerSpec WITH
    value <- [x \in Objects |-> ValueOf(rep[x])], Numbers <- Int, Limit <- Base * Base
ImplementsSpec == Arithmetic!Spec

\* integer_test.cc and test_traits.h: "x + nonzero != x", "x + y == y + x" and
\* the like: the sum of any two numbers is their sum.
SumExact ==
    \A x, y \in Objects :
       (Canonical(rep[x]) /\ Canonical(rep[y])) =>
           ValueOf(Sum(rep[x], rep[y])) = ValueOf(rep[x]) + ValueOf(rep[y])
=============================================================================
