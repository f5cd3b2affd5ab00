---------------------------- MODULE Groth16Math -----------------------------
(***************************************************************************)
(* The arithmetic of the Groth16 prover in the scalar field: Montgomery    *)
(* products, the transform of depends/ffiasm/c/fft.cpp one element at a    *)
(* time, the chunks of msm.hpp and msm.cpp, the signed digits of naf.cpp,  *)
(* and the definitions of what they are for.                               *)
(*                                                                         *)
(* An element of the field is the number its words hold, in Montgomery     *)
(* form or not as in the code.  An array of n elements is a function on    *)
(* 0..n-1.                                                                 *)
(***************************************************************************)
EXTENDS Integers, Sequences, FiniteSets, SequencesExt

CONSTANTS
  Prime,        \* the scalar field's modulus
  ByteBits,     \* bits of a byte; 8 in the code
  WordBytes,    \* bytes of the word the scalars are read by; 8 in the code
  ScalarBytes,  \* bytes of a scalar; 32 in the code
  DomainSize    \* constraints of the circuits, a power of two

ScalarBits == ScalarBytes * ByteBits

\* Two bits of a scalar's words are above the modulus, and a window of the
\* least size fits in a word wherever in a byte it begins; fft asserts that its
\* size is a power of two.
ASSUME MathAssumption ==
  /\ Prime \in Nat /\ ByteBits \in Nat \ {0} /\ DomainSize \in Nat \ {0, 1}
  /\ \E m \in 0..DomainSize : DomainSize = 2^m
  /\ WordBytes \in 1..ScalarBytes
  /\ 4 * Prime < 2^ScalarBits
  /\ WordBytes * ByteBits >= 2 + ByteBits
  /\ (Prime - 1) % (2 * DomainSize) = 0

\* Arithmetic that holds whatever the constants are: the provers know of no
\* law for powers.
ASSUME PowerAssumption == 2^0 = 1 /\ \A k \in 0..DomainSize : 2^(k+1) = 2 * 2^k

Field == 0..Prime-1
Arrays == [0..DomainSize-1 -> Field]

SumOf(n, term(_)) ==
  FoldLeft(LAMBDA sum, i : (sum + term(i)) % Prime, 0, [i \in 1..n |-> i - 1])

-----------------------------------------------------------------------------
(* The field *)

Radix    == 2^ScalarBits
RadixInv == CHOOSE x \in Field : (x * Radix) % Prime = 1

Add(x, y) == (x + y) % Prime
Sub(x, y) == (x - y) % Prime
Mul(x, y) == (x * y * RadixInv) % Prime
ToMontgomery(x)   == (x * Radix) % Prime
FromMontgomery(x) == (x * RadixInv) % Prime

\* RawFr::exp, of an element in Montgomery form.
Exp(x, e) == FoldLeft(LAMBDA r, i : Mul(r, x), ToMontgomery(1), [i \in 1..e |-> i])

PowMod(x, e) == FoldLeft(LAMBDA r, i : (r * x) % Prime, 1, [i \in 1..e |-> i])

InverseOf(x) == CHOOSE y \in Field : (x * y) % Prime = 1

-----------------------------------------------------------------------------
(* The tables of FFT's constructor *)

Log2(n) == CHOOSE m \in 0..n : 2^m = n

\* The prover asks for twice its domain, for the roots between.
DomainPow == Log2(2 * DomainSize)
NRoots == 2^DomainPow

\* The least number from 2 on that is no square.
Nqr == CHOOSE q \in 2..Prime-1 :
         /\ PowMod(q, (Prime - 1) \div 2) # 1
         /\ \A z \in 2..q-1 : PowMod(z, (Prime - 1) \div 2) = 1

FirstRoot == ToMontgomery(PowMod(Nqr, (Prime - 1) \div NRoots))

PowTwoInv(k) == ToMontgomery(PowMod(InverseOf(2), k))

\* The part of the table that thread id of a pool of n threads fills: from
\* BlockStart by one exponentiation, the others by products.
BlockStart(n, id) == IF id = 0 THEN 2 ELSE id * (NRoots \div n)
BlockEnd(n, id) == IF id = n - 1 THEN NRoots ELSE (id + 1) * (NRoots \div n)

RootAt(roots, i, start) ==
  IF i = start THEN Exp(roots[1], start) ELSE Mul(roots[i-1], roots[1])

\* FFT::root, for the table of the whole domain.
Root(roots, pow, i) == roots[i * 2^(DomainPow - pow)]

-----------------------------------------------------------------------------
(* The loops of the transform: the cells element i of the loop works on *)

BitOf(i, k) == (i \div 2^k) % 2

\* BR: the number whose bits are those of i from the last to the first.
BitReversed(i, bits) ==
  CHOOSE r \in 0..2^bits-1 : \A k \in 0..bits-1 : BitOf(r, k) = BitOf(i, bits - 1 - k)

\* reversePermutation exchanges each pair once, when its larger index is met.
ReversePair(i) ==
  LET r == BitReversed(i, Log2(DomainSize))
  IN  IF i > r THEN <<i, r>> ELSE <<>>

\* The two ends of butterfly i of stage s, and the index of its root.
ButterflyPair(s, i) ==
  LET half == 2^(s-1)
      lo   == (i \div half) * 2^s + (i % half)
  IN  <<lo, lo + half>>
\* Mutation of ButterflyRoot: the number of the group instead of the place in it.
ButterflyRootOfGroup(s, i) == i \div 2^(s-1)

ButterflyRoot(s, i) == i % 2^(s-1)

\* ifft turns the result of fft round, outside the first cell and the middle.
UnscramblePair(i) == <<i, DomainSize - i>>

-----------------------------------------------------------------------------
(* The digits of the multi-scalar multiplication and of nafMulByScalar *)

MinChunkSizeBits == 3
MaxChunkSizeBits == 16

ChunkCount(bits) == (ScalarBits - 1) \div bits + 1
BucketCount(bits) == 2^(bits - 1)

AddsCount(n, bits) == ChunkCount(bits) * (n + 2^bits + bits + 1)

BitsPerChunk(n) ==
  FoldLeft(LAMBDA best, k : IF AddsCount(n, k) < AddsCount(n, best) THEN k ELSE best,
           MinChunkSizeBits, [i \in 1..MaxChunkSizeBits - MinChunkSizeBits |-> MinChunkSizeBits + i])

\* Chunk j of a scalar, cut out of one word read at a byte, the last word of
\* the scalar at most.
BucketIndex(scalar, j, bits) ==
  LET bitStart  == j * bits
      byteStart == IF bitStart \div ByteBits > ScalarBytes - WordBytes
                   THEN ScalarBytes - WordBytes ELSE bitStart \div ByteBits
      effective == IF bitStart + bits > ScalarBits THEN ScalarBits - bitStart ELSE bits
      word      == (scalar \div 2^(byteStart * ByteBits)) % 2^(WordBytes * ByteBits)
  IN  (word \div 2^(bitStart - byteStart * ByteBits)) % 2^effective

\* Mutation of SliceScalar: nothing is carried into the next chunk.
SliceScalarNoCarry(scalar, bits) ==
  LET digit(index) == IF index >= BucketCount(bits) THEN index - 2 * BucketCount(bits) ELSE index
  IN  [j \in 0..ChunkCount(bits)-1 |-> digit(BucketIndex(scalar, j, bits))]

\* The signed digits of a scalar: an index in the upper half is taken from the
\* next chunk.
SliceScalar(scalar, bits) ==
  LET digit(index) == IF index >= BucketCount(bits) THEN index - 2 * BucketCount(bits) ELSE index
      step(s, j) ==
        LET index == BucketIndex(scalar, j, bits) + s.carry
        IN  [carry  |-> IF index >= BucketCount(bits) THEN 1 ELSE 0,
             digits |-> [s.digits EXCEPT ![j] = digit(index)]]
      n == ChunkCount(bits)
  IN  FoldLeft(step, [carry |-> 0, digits |-> [j \in 0..n-1 |-> 0]], [j \in 1..n |-> j - 1]).digits

\* buildNaf: digits -1, 0 and 1 from the lowest bit up, by a table of the bit
\* reached, the next one and a carry.
NafStep(last, next, carry) ==
  CASE last /\ (next <=> carry)      -> [digit |-> 1, last |-> FALSE, carry |-> next]
    [] last /\ ~(next <=> carry)     -> [digit |-> -1, last |-> FALSE, carry |-> TRUE]
    [] ~last                         -> [digit |-> 0, last |-> next # carry, carry |-> next /\ carry]

Naf(scalar) ==
  LET bit(i) == i < ScalarBits /\ (scalar \div 2^i) % 2 = 1
      step(s, i) == LET t == NafStep(s.last, bit(i + 1), s.carry)
                    IN  [last |-> t.last, carry |-> t.carry, digits |-> Append(s.digits, t.digit)]
      n == (ScalarBytes + 2) * ByteBits
  IN  FoldLeft(step, [last |-> bit(0), carry |-> FALSE, digits |-> <<>>], [i \in 1..n |-> i - 1]).digits

\* What nafMulByScalar goes through, from the highest digit that can differ
\* from zero.
NafDigits(scalar) == Reverse(SubSeq(Naf(scalar), 1, ScalarBits + 2))

-----------------------------------------------------------------------------
(* What the loops are for *)

\* The sum of the points with the given discrete logarithms, each times its
\* scalar, as such a logarithm.
DotProduct(scalars, logs, n) == SumOf(n, LAMBDA i : scalars[i] * logs[i])

\* The polynomial with the given values at the powers of the domain's root.
Coefficients(values) ==
  LET omega == FromMontgomery(Exp(FirstRoot, 2))
  IN  [k \in 0..DomainSize-1 |->
        (InverseOf(DomainSize) *
          SumOf(DomainSize, LAMBDA j : values[j] * PowMod(omega, (DomainSize - j) * k))) % Prime]

\* Its values halfway between them.
BetweenRoots(values) ==
  LET c == Coefficients(values)
      omega == FromMontgomery(FirstRoot)
  IN  [k \in 0..DomainSize-1 |->
        SumOf(DomainSize, LAMBDA j : c[j] * PowMod(omega, (2 * k + 1) * j))]

=============================================================================
