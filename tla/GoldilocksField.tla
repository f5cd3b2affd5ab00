-------------------------- MODULE GoldilocksField ---------------------------
(***************************************************************************)
(* The arithmetic of zkSTARK/field.py and the number-theoretic transform   *)
(* of zkSTARK/fft.py, over machine words.                                  *)
(*                                                                         *)
(* A word has 2 * HalfBits bits and the prime is 2^Bits - 2^HalfBits + 1,  *)
(* as in the code, where HalfBits is 32; with HalfBits 2 and 4 it is 13    *)
(* and 241, and 7, the code's generator, generates both fields.  The       *)
(* functions are compiled for unsigned words: every sum and product wraps. *)
(***************************************************************************)
EXTENDS Integers, Sequences, SequencesExt

CONSTANT HalfBits  \* half the length of a word; 32 in the code

ASSUME FieldAssumption == HalfBits \in Nat \ {0}

Bits    == 2 * HalfBits
Word    == 2^Bits
Prime   == Word - 2^HalfBits + 1
Epsilon == 2^HalfBits - 1
Field   == 0..(Prime - 1)

Generator == 7

\* The definitions below take the build as a parameter, for what the source
\* leaves to it.  What a shift by the whole length of a word leaves is not
\* defined: a build clears the word or does not shift it.  And the difference
\* of an unsigned and a signed word, the exponent of field_inv, is signed or
\* unsigned.
Builds == [shift : {"clears", "keeps"}, difference : {"signed", "unsigned"}]

-----------------------------------------------------------------------------
(* The field *)

FieldAdd(a, b) ==
  LET c == (a + b) % Word IN IF c >= Prime THEN c - Prime ELSE c

FieldSub(a, b) == IF a >= b THEN a - b ELSE (a + Prime - b) % Word

\* The product is a word already, so its upper half is whatever the shift by
\* 64 leaves.
FieldMul(build, a, b) ==
  LET product == (a * b) % Word
      hi      == IF build.shift = "clears" THEN 0 ELSE product
      reduced == (product + hi * Epsilon) % Word
  IN  IF reduced >= Prime THEN reduced - Prime ELSE reduced

\* Square and multiply, from the lowest bit of Prime - 2 up; as a signed word
\* that is negative and the loop ends before it starts.
FieldInv(build, a) ==
  FoldLeft(LAMBDA s, i :
             [result |-> IF ((Prime - 2) \div 2^i) % 2 = 1
                         THEN FieldMul(build, s.result, s.base) ELSE s.result,
              base   |-> FieldMul(build, s.base, s.base)],
           [result |-> 1, base |-> a],
           IF build.difference = "signed" THEN <<>> ELSE [i \in 1..Bits |-> i - 1]).result

-----------------------------------------------------------------------------
(* The transform.  An array of n words is a function on 0..n-1. *)

Log2(n) == CHOOSE m \in 0..n : 2^m = n

\* Powers modulo the prime, as Python's integers compute them.
PowMod(b, e) == FoldLeft(LAMBDA x, i : (x * b) % Prime, 1, [i \in 1..e |-> i])

Omega(n) == PowMod(Generator, (Prime - 1) \div n)

Twiddles(n) == [i \in 0..(n - 1) |-> PowMod(Omega(n), i)]

\* The loop counts the halvings and the result is one less.
BitLengthMinusOne(n) == Log2(n) - 1

ReverseBits(i, bits) ==
  FoldLeft(LAMBDA j, b : 2 * j + ((i \div 2^b) % 2), 0, [b \in 1..bits |-> b - 1])

\* Positions are exchanged in pairs, each when its smaller one is met.
Permute(v, n) ==
  LET bits == BitLengthMinusOne(n)
  IN  [i \in 0..(n - 1) |-> IF i < 2^bits THEN v[ReverseBits(i, bits)] ELSE v[i]]

\* One round of the loop over lengths.
Butterflies(build, r, n, twiddles, length) ==
  LET half == length \div 2
  IN  [i \in 0..(n - 1) |->
        LET k  == i % half
            lo == i - (i % length) + k
            t  == FieldMul(build, twiddles[k * (n \div length)], r[lo + half])
        IN  IF i = lo THEN FieldAdd(r[lo], t) ELSE FieldSub(r[lo], t)]

NttForward(build, v, n, twiddles) ==
  FoldLeft(LAMBDA r, m : Butterflies(build, r, n, twiddles, 2^m),
           Permute(v, n), [m \in 1..Log2(n) |-> m])

NttInverse(build, v, n, twiddles) ==
  LET inverted == [i \in 0..(n - 1) |-> FieldInv(build, twiddles[i])]
      scale    == FieldInv(build, n)
      result   == NttForward(build, v, n, inverted)
  IN  [i \in 0..(n - 1) |-> FieldMul(build, result[i], scale)]

\* compute_lde, for a column whose length n is a power of two.
ComputeLde(build, column, n, blowup) ==
  LET coeffs   == NttInverse(build, column, n, Twiddles(n))
      extended == [i \in 0..(n * blowup - 1) |-> IF i < n THEN coeffs[i] ELSE 0]
  IN  NttForward(build, extended, n * blowup, Twiddles(n * blowup))

-----------------------------------------------------------------------------
(* The reference definition *)

=============================================================================
