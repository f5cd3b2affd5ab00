----------------------------- MODULE FrElement ------------------------------
(***************************************************************************)
(* The field elements a generated witness calculator computes with when    *)
(* the circuit is compiled with --no_asm (circom,                          *)
(* code_producers/src/c_elements/generic/fr.cpp).  An element is short, a  *)
(* machine integer, or long, an array of words, and a long one is normal   *)
(* or in Montgomery form; a constant of the program is short and carries   *)
(* its Montgomery form too.  Every operation has a case for each           *)
(* combination, and its result is again one of these, so what an operation *)
(* is given is what others have made.                                      *)
(*                                                                         *)
(* fr.cpp is a template: the prime, its number of words and the shape of   *)
(* the word-level multiplication are filled in when the circuit is         *)
(* compiled.  The machine's width is filled in here too, to let TLC meet   *)
(* every element and every pair of them: a prime is given as               *)
(* <<q, W, N, S>>, where a word holds the numbers below W, a long element  *)
(* has N of them, and an int has S bits.                                   *)
(***************************************************************************)
EXTENDS Integers, Sequences, Bitwise

CONSTANT Primes

\* 2^(2*S) \leq W is what 32-bit ints and 64-bit words have: the product of
\* two ints fits a word, signed.
ASSUME PrimesAssumption ==
    \A p \in Primes : LET q == p[1]  W == p[2]  N == p[3]  S == p[4]
                      IN  /\ W ^ (N - 1) < q /\ q < W ^ N
                          /\ \A d \in 2 .. q - 1 : q % d # 0
                          /\ S > 1 /\ 2 ^ (2 * S) <= W /\ 2 ^ S < q

VARIABLES
    fr,   \* the parameters the template was filled in with
    a, b  \* two elements of the program: the next operation's operands
vars == <<fr, a, b>>

----------------------------------------------------------------------------
(* The template's parameters.                                              *)

NumBits(q) == CHOOSE k \in 1 .. 31 : 2 ^ (k - 1) <= q /\ q < 2 ^ k

Parameters(p) ==
    LET q == p[1]  W == p[2]  N == p[3]  R == (W ^ N) % q
    IN  [q |-> q, W |-> W, N |-> N, full |-> W ^ N, S |-> p[4],
         half |-> q \div 2, qbits |-> NumBits(q),
         np |-> CHOOSE x \in 0 .. W - 1 : (x * q + 1) % W = 0,
         R2 |-> (R * R) % q, R3 |-> (((R * R) % q) * R) % q,
         rinv |-> CHOOSE x \in 1 .. q - 1 : (x * R) % q = 1,
         cannotOptimize |-> q \div (W ^ (N - 1)) > (W - 1) \div 2 - 1]

Top == 2 ^ (fr.S - 1)
Ints == -Top .. Top - 1

\* The number a field value stands for, with a sign (docs: val).
Signed(x) == IF x > fr.half THEN x - fr.q ELSE x

----------------------------------------------------------------------------
(* Elements.                                                               *)

\* What the words of a short element hold is never read.
Unread == 0

Short(v)     == [type |-> "SHORT", v |-> v, l |-> Unread]
ShortM(v, l) == [type |-> "SHORTMONTGOMERY", v |-> v, l |-> l]
Long(l)      == [type |-> "LONG", v |-> 0, l |-> l]
LongM(l)     == [type |-> "LONGMONTGOMERY", v |-> 0, l |-> l]

IsLong(e)  == e.type \in {"LONG", "LONGMONTGOMERY"}
IsMont(e)  == e.type \in {"SHORTMONTGOMERY", "LONGMONTGOMERY"}
IsLongM(e) == e.type = "LONGMONTGOMERY"

\* The field value an element stands for.
Val(e) == CASE e.type = "LONG"           -> e.l
            [] e.type = "LONGMONTGOMERY" -> (e.l * fr.rinv) % fr.q
            [] OTHER                     -> e.v % fr.q

----------------------------------------------------------------------------
(* Words.                                                                  *)

\* Mutation of Reduce: the prime itself is not reduced.
ReduceAbove(x, over) == IF over \/ x > fr.q THEN (x - fr.q) % fr.full ELSE x

\* An N-word number after one conditional subtraction of q.
Reduce(x, over) == IF over \/ x >= fr.q THEN (x - fr.q) % fr.full ELSE x

RawAdd(x, y) == Reduce((x + y) % fr.full, x + y >= fr.full)
RawSub(x, y) == IF x < y THEN (x - y + fr.q) % fr.full ELSE x - y
RawNeg(x)    == IF x # 0 THEN fr.q - x ELSE 0

\* 0 - x - k
RawNegLS(x, k) == LET t == (fr.q - k) % fr.full
                  IN  IF k > fr.q \/ x > t THEN (t - x + fr.q) % fr.full ELSE t - x

CopyS2L(v) == IF v < 0 THEN (fr.full + v + fr.q) % fr.full ELSE v

Limb(x, i) == (x \div (fr.W ^ i)) % fr.W

SignedWord(x) == ((x + (fr.W \div 2)) % fr.W) - (fr.W \div 2)

\* One word is cleared: the product and the word carried out of its N+1.
ClearWord(p) == LET sum == p + fr.q * ((fr.np * p) % fr.W)
                IN  [words |-> sum % (fr.W ^ (fr.N + 1)),
                     carry |-> sum \div (fr.W ^ (fr.N + 1))]

\* Montgomery's reduction of a sum of rows, each added after one more word has
\* been cleared.  A carry out of a sum is added to the next row's top word; the
\* last counts if the prime leaves no room in its own.  If it leaves room, the
\* carries are 0: the code drops them, or adds them to another word.
Redc(rows) ==
    LET top == fr.W ^ (fr.N + 1)
        Row(i, carry) ==
            IF fr.cannotOptimize
            THEN (rows[i] % fr.full) + fr.full * (((rows[i] \div fr.full) + carry) % fr.W)
            ELSE rows[i]
        Step[i \in 0 .. fr.N - 1] ==
            IF i = 0 THEN [p |-> rows[0], c |-> 0]
            ELSE LET cleared == ClearWord(Step[i - 1].p)
                     sum     == Row(i, cleared.carry) + (cleared.words \div fr.W)
                 IN  [p |-> sum % top, c |-> sum \div top]
        last    == Step[fr.N - 1]
        cleared == ClearWord(last.p)
    IN  Reduce(cleared.words \div fr.W,
               fr.cannotOptimize /\ last.c + cleared.carry > 0)

FirstRow(x) == [i \in 0 .. fr.N - 1 |-> IF i = 0 THEN x ELSE 0]

MMul(x, y)        == Redc([i \in 0 .. fr.N - 1 |-> y * Limb(x, i)])
MMul1(x, k)       == Redc(FirstRow(x * k))
FromMontgomery(x) == Redc(FirstRow(x))
ToMontgomery(x)   == MMul(x, fr.R2)

\* Mutation of MMulS: the sign is forgotten.
MMulUnsigned(x, v) == MMul1(x, IF v < 0 THEN -v ELSE v)

\* x times a machine integer
MMulS(x, v) == IF v < 0 THEN RawNeg(MMul1(x, -v)) ELSE MMul1(x, v)

RawMask(x)    == Reduce(x % (2 ^ fr.qbits), FALSE)
RawShl(x, k)  == IF k = 0 THEN x
                 ELSE IF k >= fr.qbits THEN 0
                 ELSE RawMask((x * (2 ^ k)) % fr.full)
RawShr(x, k)  == IF k = 0 THEN x
                 ELSE IF k >= fr.qbits THEN 0
                 ELSE x \div (2 ^ k)

----------------------------------------------------------------------------
(* From one representation to another.                                     *)

LongNormal(e) == IF ~IsLong(e) THEN CopyS2L(e.v)
                 ELSE IF IsMont(e) THEN FromMontgomery(e.l)
                 ELSE e.l

MontOf(e) == IF IsMont(e) THEN e.l
             ELSE IF IsLong(e) THEN ToMontgomery(e.l)
             ELSE MMulS(fr.R2, e.v)

Fr_toMpz(e) == IF IsLong(e) THEN LongNormal(e)
               ELSE IF e.v < 0 THEN e.v + fr.q ELSE e.v

Fr_fromMpz(x) == IF x < Top THEN Short(x) ELSE Long(x)

Fr_toLongNormal(e) == Long(LongNormal(e))

\* The int of a small value; the assertions that stop at others are not
\* reached for it.
Fr_toInt(e) ==
    LET x == LongNormal(e)
    IN  IF ~IsLong(e) THEN e.v
        ELSE IF x < Top THEN x
        ELSE SignedWord(Limb(x, 0) - Limb(fr.q, 0))

----------------------------------------------------------------------------
(* Arithmetic.                                                             *)

\* The result of integer arithmetic on short elements.
OfInt(v) == IF v \in Ints THEN Short(v) ELSE Long(CopyS2L(v))

Fr_add(x, y) ==
    IF ~IsLong(x) /\ ~IsLong(y) THEN OfInt(x.v + y.v)
    ELSE IF IsLongM(x) \/ IsLongM(y) THEN LongM(RawAdd(MontOf(x), MontOf(y)))
    ELSE IF IsLong(x) /\ IsLong(y) THEN Long(RawAdd(x.l, y.l))
    ELSE LET l == IF IsLong(x) THEN x.l ELSE y.l
             v == IF IsLong(x) THEN y.v ELSE x.v
         IN  Long(IF v >= 0 THEN RawAdd(l, v) ELSE RawSub(l, -v))

Fr_sub(x, y) ==
    IF ~IsLong(x) /\ ~IsLong(y) THEN OfInt(x.v - y.v)
    ELSE IF IsLongM(x) \/ IsLongM(y) THEN LongM(RawSub(MontOf(x), MontOf(y)))
    ELSE IF IsLong(x) /\ IsLong(y) THEN Long(RawSub(x.l, y.l))
    ELSE IF IsLong(x) THEN Long(IF y.v < 0 THEN RawAdd(x.l, -y.v) ELSE RawSub(x.l, y.v))
    ELSE Long(IF x.v >= 0 THEN RawSub(x.v, y.l) ELSE RawNegLS(y.l, -x.v))

Fr_neg(x) ==
    IF IsLong(x) THEN [x EXCEPT !.l = RawNeg(x.l)] ELSE OfInt(-x.v)

\* The product's Montgomery factor: none, one or both operands bring it.
Fr_mul(x, y) ==
    IF ~IsLong(x) /\ ~IsLong(y) THEN Long(CopyS2L(x.v * y.v))
    ELSE LET p == IF x.type = "SHORT" THEN MMulS(y.l, x.v)
                  ELSE IF y.type = "SHORT" THEN MMulS(x.l, y.v)
                  ELSE MMul(x.l, y.l)
         IN  IF IsMont(x) /\ IsMont(y) THEN LongM(p)
             ELSE IF IsMont(x) \/ IsMont(y) THEN Long(p)
             ELSE LongM(MMul(p, fr.R3))

Fr_square(x) ==
    IF ~IsLong(x) THEN Long(CopyS2L(x.v * x.v))
    ELSE LongM(IF IsMont(x) THEN MMul(x.l, x.l) ELSE MMul(MMul(x.l, x.l), fr.R3))

\* The rest is GMP's, on Fr_toMpz of the operands.
PowMod[x \in Nat, k \in Nat] ==
    IF k = 0 THEN 1 ELSE (x * PowMod[x, k - 1]) % fr.q

InvMod(x) == CHOOSE y \in 1 .. fr.q - 1 : (x * y) % fr.q = 1

Fr_idiv(x, y) == Fr_fromMpz(Fr_toMpz(x) \div Fr_toMpz(y))
Fr_mod(x, y)  == Fr_fromMpz(Fr_toMpz(x) % Fr_toMpz(y))
Fr_pow(x, y)  == Fr_fromMpz(PowMod[Fr_toMpz(x), Fr_toMpz(y)])
Fr_inv(x)     == Fr_fromMpz(InvMod(Fr_toMpz(x)))
Fr_div(x, y)  == Fr_mul(x, Fr_inv(y))

----------------------------------------------------------------------------
(* Comparisons and Boolean operators, whose result is short.               *)

Bit(test) == Short(IF test THEN 1 ELSE 0)

\* Mutation of LessL: the words are compared.
LessByWords(x, y) == x < y

\* The numbers above half are the negative ones.
LessL(x, y) == IF fr.half < x THEN fr.half < y => x < y
               ELSE ~(fr.half < y) /\ x < y
GreaterL(x, y) == IF fr.half < x THEN fr.half < y /\ x > y
                  ELSE fr.half < y \/ x > y

Fr_rlt(x, y) == IF ~IsLong(x) /\ ~IsLong(y) THEN x.v < y.v
                ELSE LessL(LongNormal(x), LongNormal(y))
Fr_rgt(x, y) == IF ~IsLong(x) /\ ~IsLong(y) THEN x.v > y.v
                ELSE GreaterL(LongNormal(x), LongNormal(y))
Fr_req(x, y) == IF ~IsLong(x) /\ ~IsLong(y) THEN x.v = y.v
                ELSE IF IsLongM(x) \/ IsLongM(y) THEN MontOf(x) = MontOf(y)
                ELSE LongNormal(x) = LongNormal(y)
Fr_isTrue(x) == IF IsLong(x) THEN x.l # 0 ELSE x.v # 0

Fr_lt(x, y)   == Bit(Fr_rlt(x, y))
Fr_geq(x, y)  == Bit(~Fr_rlt(x, y))
Fr_gt(x, y)   == Bit(Fr_rgt(x, y))
Fr_leq(x, y)  == Bit(~Fr_rgt(x, y))
Fr_eq(x, y)   == Bit(Fr_req(x, y))
Fr_neq(x, y)  == Bit(~Fr_req(x, y))
Fr_land(x, y) == Bit(Fr_isTrue(x) /\ Fr_isTrue(y))
Fr_lor(x, y)  == Bit(Fr_isTrue(x) \/ Fr_isTrue(y))
Fr_lnot(x)    == Bit(~Fr_isTrue(x))

----------------------------------------------------------------------------
(* Bits.  The words are combined, what lies above the prime's bits is      *)
(* masked off, and the result is reduced once.                             *)

BothNatural(x, y) == ~IsLong(x) /\ ~IsLong(y) /\ x.v >= 0 /\ y.v >= 0

Fr_band(x, y) == IF BothNatural(x, y) THEN Short(x.v & y.v)
                 ELSE Long(RawMask(LongNormal(x) & LongNormal(y)))
Fr_bor(x, y)  == IF BothNatural(x, y) THEN Short(x.v | y.v)
                 ELSE Long(RawMask(LongNormal(x) | LongNormal(y)))
Fr_bxor(x, y) == IF BothNatural(x, y) THEN Short(x.v ^^ y.v)
                 ELSE Long(RawMask(LongNormal(x) ^^ LongNormal(y)))
Fr_bnot(x)    == Long(RawMask(fr.full - 1 - LongNormal(x)))

\* Mutation of ShiftLeft: a result that is no int is kept as one.
ShiftLeftShort(x, k) ==
    IF IsLong(x) THEN Long(RawShl(LongNormal(x), k))
    ELSE IF x.v = 0 THEN Short(0)
    ELSE IF x.v > 0 /\ k < fr.S - 1 THEN Short((x.v * (2 ^ k)) % Top)
    ELSE Long(RawShl(CopyS2L(x.v), k))

\* A short element stays short if the result is an int.
ShiftLeft(x, k) ==
    IF IsLong(x) THEN Long(RawShl(LongNormal(x), k))
    ELSE IF x.v = 0 THEN Short(0)
    ELSE IF x.v > 0 /\ k < fr.S - 1 /\ x.v * (2 ^ k) < Top THEN Short(x.v * (2 ^ k))
    ELSE Long(RawShl(CopyS2L(x.v), k))

ShiftRight(x, k) ==
    IF IsLong(x) THEN Long(RawShr(LongNormal(x), k))
    ELSE IF x.v < 0 THEN Long(RawShr(CopyS2L(x.v), k))
    ELSE IF k >= fr.S - 1 THEN Short(0)
    ELSE Short(x.v \div (2 ^ k))

\* Shifts x by y one way, or the other way if y is negative: a long y is if it
\* is no shift and q - y is one.
ShiftBy(x, k, left) == IF left THEN ShiftLeft(x, k) ELSE ShiftRight(x, k)
Shift(x, y, left) ==
    LET k == IF IsLong(y) THEN LongNormal(y) ELSE y.v
    IN  IF k \in 0 .. fr.qbits - 1 THEN ShiftBy(x, k, left)
        ELSE LET back == IF IsLong(y) THEN fr.q - k ELSE -k
             IN  IF back \in 0 .. fr.qbits - 1 THEN ShiftBy(x, back, ~left) ELSE Short(0)

Fr_shl(x, y) == Shift(x, y, TRUE)
Fr_shr(x, y) == Shift(x, y, FALSE)

----------------------------------------------------------------------------
(* A run of the calculator: two of its elements, which the next operation  *)
(* combines into one that takes the place of the first.                    *)

\* A constant of the circuit: short if its signed value is an int.
Constant(x) == LET m == (x * (fr.full % fr.q)) % fr.q
               IN  IF Signed(x) \in Ints THEN ShortM(Signed(x), m) ELSE LongM(m)

\* An input, read with Fr_str2element and reduced.
Fr_str2element(x) == Fr_fromMpz(x % fr.q)

Fresh(e) == \E x \in 0 .. fr.q - 1 : e = Constant(x) \/ e = Fr_str2element(x)

Init ==
    /\ \E p \in Primes : fr = Parameters(p)
    /\ Fresh(a)
    /\ Fresh(b)

Store(e) == a' = e /\ UNCHANGED <<fr, b>>

Other == a' = b /\ b' = a /\ UNCHANGED fr

Arithmetic ==
    \/ Store(Fr_add(a, b))
    \/ Store(Fr_sub(a, b))
    \/ Store(Fr_mul(a, b))
    \/ Store(Fr_square(a))
    \/ Store(Fr_neg(a))
    \/ Store(Fr_pow(a, b))
    \/ Fr_isTrue(b) /\ Store(Fr_idiv(a, b))
    \/ Fr_isTrue(b) /\ Store(Fr_mod(a, b))
    \/ Fr_isTrue(b) /\ Store(Fr_div(a, b))

Comparison ==
    \/ Store(Fr_lt(a, b))
    \/ Store(Fr_geq(a, b))
    \/ Store(Fr_gt(a, b))
    \/ Store(Fr_leq(a, b))
    \/ Store(Fr_eq(a, b))
    \/ Store(Fr_neq(a, b))
    \/ Store(Fr_land(a, b))
    \/ Store(Fr_lor(a, b))
    \/ Store(Fr_lnot(a))

Bits ==
    \/ Store(Fr_band(a, b))
    \/ Store(Fr_bor(a, b))
    \/ Store(Fr_bxor(a, b))
    \/ Store(Fr_bnot(a))
    \/ Store(Fr_shl(a, b))
    \/ Store(Fr_shr(a, b))

\* The witness is written in normal form.
WriteWitness == Store(Fr_toLongNormal(a))

Next == Arithmetic \/ Comparison \/ Bits \/ WriteWitness \/ Other

Spec == Init /\ [][Next]_vars

----------------------------------------------------------------------------
(* Properties.                                                             *)

\* Whatever the representations of the operands, arithmetic is the field's:
\* sums, differences and products modulo the prime, and integer division of the
\* values between 0 and the prime.  Each operation has a case for every
\* combination of representations, some of them only met at an int's limits.
ArithmeticIsExact ==
    LET x == Val(a)  y == Val(b)
    IN  /\ Val(Fr_add(a, b)) = (x + y) % fr.q
        /\ Val(Fr_sub(a, b)) = (x - y) % fr.q
        /\ Val(Fr_mul(a, b)) = (x * y) % fr.q
        /\ Val(Fr_square(a)) = (x * x) % fr.q
        /\ Val(Fr_neg(a)) = (-x) % fr.q
        /\ Val(Fr_pow(a, b)) = PowMod[x, y]
        /\ y # 0 => /\ Val(Fr_idiv(a, b)) = x \div y
                    /\ Val(Fr_mod(a, b)) = x % y
                    /\ (Val(Fr_div(a, b)) * y) % fr.q = x

\* Elements are ordered by their signed values and are equal when their values
\* are, in whatever representations they meet; the six comparisons agree with
\* each other, and an element is true when it is not zero.
ComparisonsAreExact ==
    LET x == Signed(Val(a))  y == Signed(Val(b))
    IN  /\ Fr_lt(a, b) = Bit(x < y) /\ Fr_geq(a, b) = Bit(x >= y)
        /\ Fr_gt(a, b) = Bit(x > y) /\ Fr_leq(a, b) = Bit(x <= y)
        /\ Fr_eq(a, b) = Bit(x = y) /\ Fr_neq(a, b) = Bit(x # y)
        /\ Fr_land(a, b) = Bit(x # 0 /\ y # 0)
        /\ Fr_lor(a, b) = Bit(x # 0 \/ y # 0)
        /\ Fr_lnot(a) = Bit(x = 0)

\* The bits of the values are combined, and shifted within the prime's bits; a
\* negative shift goes the other way.  The result is reduced into the field.
BitsAreExact ==
    LET x == Val(a)  y == Val(b)  k == Signed(y)
        all == 2 ^ fr.qbits
        Right(n) == IF n >= fr.qbits THEN 0 ELSE x \div (2 ^ n)
        Left(n)  == IF n >= fr.qbits THEN 0 ELSE ((x * (2 ^ n)) % all) % fr.q
    IN  /\ Val(Fr_band(a, b)) = (x & y) % fr.q
        /\ Val(Fr_bor(a, b)) = (x | y) % fr.q
        /\ Val(Fr_bxor(a, b)) = (x ^^ y) % fr.q
        /\ Val(Fr_bnot(a)) = (all - 1 - x) % fr.q
        /\ Val(Fr_shl(a, b)) = IF k >= 0 THEN Left(k) ELSE Right(-k)
        /\ Val(Fr_shr(a, b)) = IF k >= 0 THEN Right(k) ELSE Left(-k)

\* Every element is canonical: a short one is an int, a long one is below the
\* prime, and the two forms of a constant stand for one value.
Canonical(e) ==
    /\ e.v \in Ints
    /\ e.l \in 0 .. fr.q - 1
    /\ e.type = "SHORTMONTGOMERY" => (e.l * fr.rinv) % fr.q = Val(e)

\* Whatever operations made it, an element is canonical, which comparing words
\* relies on, and keeps its value in each representation it is given: normal, in
\* Montgomery form, as a GMP integer, and as an int if it is small.
ConversionsAreExact ==
    LET x == Val(a)
    IN  /\ Canonical(a) /\ Canonical(b)
        /\ LongNormal(a) = x
        /\ (MontOf(a) * fr.rinv) % fr.q = x
        /\ Fr_toMpz(a) = x
        /\ Signed(x) \in Ints => Fr_toInt(a) = Signed(x)

=============================================================================
