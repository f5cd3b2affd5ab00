--------------------------- MODULE ExtensionFields --------------------------
(***************************************************************************)
(* The fields under the pairing: the curve's base field, its quadratic     *)
(* extension (depends/ffiasm/c/f2field.cpp), the cubic one of that         *)
(* (f6field.cpp) and the quadratic one of that (f12field.cpp), product for *)
(* product as the code forms them.                                         *)
(*                                                                         *)
(* An element of the base field is the number it stands for, in whatever   *)
(* form its words hold it.  The square of the first generator is -1, as    *)
(* alt_bn128.cpp has it.                                                   *)
(***************************************************************************)
EXTENDS Integers, Sequences, SequencesExt

CONSTANTS
  BasePrime,  \* the base field's modulus
  XiReal      \* the real part of xi; 9 in the code

\* -1 is no square of the base field, and the exponents below are whole.
ASSUME BaseAssumption ==
  /\ BasePrime \in Nat /\ BasePrime % 4 = 3 /\ BasePrime % 6 = 1
  /\ XiReal \in 0..BasePrime-1

-----------------------------------------------------------------------------
(* The base field *)

F1Add(x, y) == (x + y) % BasePrime
F1Sub(x, y) == (x - y) % BasePrime
F1Mul(x, y) == (x * y) % BasePrime
F1Square(x) == F1Mul(x, x)
F1Inv(x) == CHOOSE y \in 0..BasePrime-1 : (x * y) % BasePrime = 1
F1Div(x, y) == F1Mul(x, F1Inv(y))

-----------------------------------------------------------------------------
(* F2Field: a + b i *)

F2(a, b) == [a |-> a, b |-> b]
F2Zero == F2(0, 0)
F2One  == F2(1, 0)

F2Add(x, y) == F2(F1Add(x.a, y.a), F1Add(x.b, y.b))
F2Sub(x, y) == F2(F1Sub(x.a, y.a), F1Sub(x.b, y.b))
F2Dbl(x) == F2Add(x, x)
F2Neg(x) == F2Sub(F2Zero, x)
F2Conjugate(x) == F2(x.a, F1Sub(0, x.b))
F2MulScalar(x, k) == F2(F1Mul(x.a, k), F1Mul(x.b, k))

F2Mul(x, y) ==
  LET aa == F1Mul(x.a, y.a)
      bb == F1Mul(x.b, y.b)
  IN  F2(F1Sub(aa, bb), F1Sub(F1Mul(F1Add(x.a, x.b), F1Add(y.a, y.b)), F1Add(aa, bb)))

F2Square(x) ==
  LET ab == F1Mul(x.a, x.b)
  IN  F2(F1Mul(F1Add(x.a, x.b), F1Sub(x.a, x.b)), F1Add(ab, ab))

\* The product with xi, the real part by doublings and an addition.
F2MulXi(x) == F2(F1Sub(F1Mul(XiReal, x.a), x.b), F1Add(F1Mul(XiReal, x.b), x.a))

F2Inv(x) ==
  LET t == F1Inv(F1Add(F1Mul(x.a, x.a), F1Mul(x.b, x.b)))
  IN  F2(F1Mul(x.a, t), F1Sub(0, F1Mul(x.b, t)))

F2Div(x, y) == F2Mul(x, F2Inv(y))

\* The powers of xi that the code has as literals.
XiPower(e) ==
  LET bits == CHOOSE n \in 1..e : 2^n > e /\ 2^(n-1) <= e
  IN  FoldLeft(LAMBDA r, k : LET s == F2Square(r) IN IF (e \div 2^(bits - k)) % 2 = 1 THEN F2MulXi(s) ELSE s,
               F2One, [k \in 1..bits |-> k])

xiToPMinus1Over6  == XiPower((BasePrime - 1) \div 6)
xiToPMinus1Over3  == XiPower((BasePrime - 1) \div 3)
xiToPMinus1Over2  == XiPower((BasePrime - 1) \div 2)
xiTo2PMinus2Over3 == XiPower((2 * BasePrime - 2) \div 3)
\* These are in the base field.
xiToPSquaredMinus1Over6  == XiPower((BasePrime * BasePrime - 1) \div 6).a
xiToPSquaredMinus1Over3  == XiPower((BasePrime * BasePrime - 1) \div 3).a
xiTo2PSquaredMinus2Over3 == XiPower((2 * BasePrime * BasePrime - 2) \div 3).a

-----------------------------------------------------------------------------
(* F6Field: x tau^2 + y tau + z, where tau^3 = xi *)

F6(x, y, z) == [x |-> x, y |-> y, z |-> z]
F6Zero == F6(F2Zero, F2Zero, F2Zero)
F6One  == F6(F2Zero, F2Zero, F2One)

F6Add(r, s) == F6(F2Add(r.x, s.x), F2Add(r.y, s.y), F2Add(r.z, s.z))
F6Sub(r, s) == F6(F2Sub(r.x, s.x), F2Sub(r.y, s.y), F2Sub(r.z, s.z))
F6Dbl(r) == F6Add(r, r)
F6Neg(r) == F6Sub(F6Zero, r)
F6MulScalar(r, k) == F6(F2Mul(r.x, k), F2Mul(r.y, k), F2Mul(r.z, k))
F6MulGFP(r, k) == F6(F2MulScalar(r.x, k), F2MulScalar(r.y, k), F2MulScalar(r.z, k))
F6MulTau(r) == F6(r.y, r.z, F2MulXi(r.x))

\* From the products of the coefficients with themselves, lowest first, and of
\* the sums of two.
F6Join(v0, v1, v2, xy, yz, xz) ==
  F6(F2Add(F2Sub(F2Sub(xz, v0), v2), v1),
     F2Add(F2Sub(F2Sub(yz, v0), v1), F2MulXi(v2)),
     F2Add(F2MulXi(F2Sub(F2Sub(xy, v1), v2)), v0))

F6Mul(r, s) ==
  F6Join(F2Mul(r.z, s.z), F2Mul(r.y, s.y), F2Mul(r.x, s.x),
         F2Mul(F2Add(r.x, r.y), F2Add(s.x, s.y)),
         F2Mul(F2Add(r.y, r.z), F2Add(s.y, s.z)),
         F2Mul(F2Add(r.x, r.z), F2Add(s.x, s.z)))

F6Square(r) ==
  F6Join(F2Square(r.z), F2Square(r.y), F2Square(r.x),
         F2Square(F2Add(r.x, r.y)), F2Square(F2Add(r.y, r.z)), F2Square(F2Add(r.x, r.z)))

F6Inv(r) ==
  LET A == F2Sub(F2Square(r.z), F2MulXi(F2Mul(r.x, r.y)))
      B == F2Sub(F2MulXi(F2Square(r.x)), F2Mul(r.y, r.z))
      C == F2Sub(F2Square(r.y), F2Mul(r.x, r.z))
      F == F2Inv(F2Add(F2Add(F2MulXi(F2Mul(C, r.y)), F2Mul(A, r.z)), F2MulXi(F2Mul(B, r.x))))
  IN  F6(F2Mul(C, F), F2Mul(B, F), F2Mul(A, F))

F6Frobenius(r) ==
  F6(F2Mul(F2Conjugate(r.x), xiTo2PMinus2Over3), F2Mul(F2Conjugate(r.y), xiToPMinus1Over3), F2Conjugate(r.z))
F6FrobeniusP2(r) ==
  F6(F2MulScalar(r.x, xiTo2PSquaredMinus2Over3), F2MulScalar(r.y, xiToPSquaredMinus1Over3), r.z)

-----------------------------------------------------------------------------
(* F12Field: x omega + y, where omega^2 = tau *)

F12(x, y) == [x |-> x, y |-> y]
F12One == F12(F6Zero, F6One)

F12Conjugate(r) == F12(F6Neg(r.x), r.y)

F12Mul(r, s) ==
  F12(F6Add(F6Mul(r.x, s.y), F6Mul(s.x, r.y)), F6Add(F6Mul(r.y, s.y), F6MulTau(F6Mul(r.x, s.x))))

F12Square(r) ==
  LET from(v0, ty) == F12(F6Dbl(v0), F6Sub(F6Sub(ty, v0), F6MulTau(v0)))
  IN  from(F6Mul(r.x, r.y), F6Mul(F6Add(r.x, r.y), F6Add(r.y, F6MulTau(r.x))))

F12Inv(r) ==
  LET t == F6Inv(F6Sub(F6Square(r.y), F6MulTau(F6Square(r.x))))
  IN  F12(F6Mul(F6Neg(r.x), t), F6Mul(r.y, t))

\* The bits of the exponent from the highest of the given number.
F12Exp(r, e, bits) ==
  FoldLeft(LAMBDA t, k : LET s == F12Square(t) IN IF (e \div 2^(bits - k)) % 2 = 1 THEN F12Mul(s, r) ELSE s,
           F12One, [k \in 1..bits |-> k])

F12Frobenius(r) == F12(F6MulScalar(F6Frobenius(r.x), xiToPMinus1Over6), F6Frobenius(r.y))
F12FrobeniusP2(r) == F12(F6MulGFP(F6FrobeniusP2(r.x), xiToPSquaredMinus1Over6), F6FrobeniusP2(r.y))

=============================================================================
