------------------------------- MODULE Pairing ------------------------------
(***************************************************************************)
(* The pairing check of Verifier<Engine> (rapidsnark/src/groth16.cpp) on   *)
(* the two curves of depends/ffiasm/c/alt_bn128.cpp.                       *)
(*                                                                         *)
(* In the Miller loop a point's zz and zzz are its denominator z and z^2   *)
(* (so that x/z^2 and y/z^3 are meant), not what they are in Curve; at the *)
(* point it starts from both are one.                                      *)
(***************************************************************************)
EXTENDS ExtensionFields

CONSTANTS
  U,              \* the curves' parameter
  UBits,          \* bits of the word it is in; 64 in the code
  SixUPlus2Naf    \* signed digits of 6 * U + 2 from the lowest bit up

G1 == INSTANCE Curve WITH FAdd <- F1Add, FSub <- F1Sub, FMul <- F1Mul, FSquare <- F1Square, FDiv <- F1Div,
                          FZero <- 0, FOne <- 1
G2 == INSTANCE Curve WITH FAdd <- F2Add, FSub <- F2Sub, FMul <- F2Mul, FSquare <- F2Square, FDiv <- F2Div,
                          FZero <- F2Zero, FOne <- F2One

ASSUME PairingAssumption ==
  /\ U \in Nat \ {0} /\ U < 2^UBits
  /\ \A i \in DOMAIN SixUPlus2Naf : SixUPlus2Naf[i] \in {-1, 0, 1}
  /\ SixUPlus2Naf # <<>> /\ SixUPlus2Naf[Len(SixUPlus2Naf)] = 1
  /\ FoldLeft(LAMBDA sum, i : sum + SixUPlus2Naf[i] * 2^(i-1), 0, [i \in DOMAIN SixUPlus2Naf |-> i]) = 6 * U + 2
  /\ BasePrime = 36 * U^4 + 36 * U^3 + 24 * U^2 + 6 * U + 1

-----------------------------------------------------------------------------
(* The lines of the Miller loop, their values at the point q of G1, and the *)
(* point of G2 they lead to                                                 *)

\* The line through r and the affine p.
LineFunctionAdd(r, p, q) ==
  LET pyy == F2Square(p.y)
      B == F2Mul(p.x, r.zzz)
      D == F2Mul(F2Sub(F2Sub(F2Square(F2Add(p.y, r.zz)), pyy), r.zzz), r.zzz)
      H == F2Sub(B, r.x)
      I == F2Square(H)
      E == F2Dbl(F2Dbl(I))
      J == F2Mul(H, E)
      L == F2Sub(F2Sub(D, r.y), r.y)
      V == F2Mul(r.x, E)
      x == F2Sub(F2Sub(F2Sub(F2Square(L), J), V), V)
      zz == F2Sub(F2Sub(F2Square(F2Add(r.zz, H)), r.zzz), I)
      y == F2Sub(F2Mul(F2Sub(V, x), L), F2Dbl(F2Mul(r.y, J)))
      zzz == F2Square(zz)
      t == F2Sub(F2Sub(F2Square(F2Add(p.y, zz)), pyy), zzz)
  IN  [a |-> F2Sub(F2Dbl(F2Mul(L, p.x)), t),
       b |-> F2Dbl(F2MulScalar(F2Neg(L), q.x)),
       c |-> F2Dbl(F2MulScalar(zz, q.y)),
       r |-> [x |-> x, y |-> y, zz |-> zz, zzz |-> zzz]]

\* The line that touches at r.
LineFunctionDouble(r, q) ==
  LET A == F2Square(r.x)
      B == F2Square(r.y)
      C == F2Square(B)
      D == F2Dbl(F2Sub(F2Sub(F2Square(F2Add(r.x, B)), A), C))
      E == F2Add(F2Dbl(A), A)
      G == F2Square(E)
      x == F2Sub(F2Sub(G, D), D)
      zz == F2Sub(F2Sub(F2Square(F2Add(r.y, r.zz)), B), r.zzz)
      y == F2Sub(F2Mul(F2Sub(D, x), E), F2Dbl(F2Dbl(F2Dbl(C))))
  IN  [a |-> F2Sub(F2Sub(F2Sub(F2Square(F2Add(r.x, E)), A), G), F2Dbl(F2Dbl(B))),
       b |-> F2MulScalar(F2Neg(F2Dbl(F2Mul(E, r.zzz))), q.x),
       c |-> F2MulScalar(F2Dbl(F2Mul(zz, r.zzz)), q.y),
       r |-> [x |-> x, y |-> y, zz |-> zz, zzz |-> F2Square(zz)]]

MulLine(ret, line) ==
  LET ax == F6Mul(F6(F2Zero, line.a, line.b), ret.x)
      cy == F6MulScalar(ret.y, line.c)
      x == F6Mul(F6Add(ret.x, ret.y), F6(F2Zero, line.a, F2Add(line.b, line.c)))
  IN  F12(F6Sub(F6Sub(x, ax), cy), F6Add(cy, F6MulTau(ax)))

\* The first square, of one, is left out in the code.
Miller(q, p) ==
  LET qa == G2!ToAffine(q)
      pa == G1!ToAffine(p)
      by(ret, line) == [ret |-> MulLine(ret, line), r |-> line.r]
      double(s) == by(F12Square(s.ret), LineFunctionDouble(s.r, pa))
      add(s, a) == by(s.ret, LineFunctionAdd(s.r, a, pa))
      step(s, digit) ==
        IF digit = 0 THEN double(s)
        ELSE add(double(s), IF digit = 1 THEN qa ELSE G2!NegAffine(qa))
      loop == FoldLeft(step, [ret |-> F12One, r |-> G2!FromAffine(qa)], Tail(Reverse(SixUPlus2Naf)))
      q1 == [x |-> F2Mul(F2Conjugate(qa.x), xiToPMinus1Over3), y |-> F2Mul(F2Conjugate(qa.y), xiToPMinus1Over2)]
      minusQ2 == [x |-> F2MulScalar(qa.x, xiToPSquaredMinus1Over3), y |-> qa.y]
  IN  add(add(loop, q1), minusQ2).ret

\* To the power (p^6 - 1)(p^2 + 1).
EasyPart(in) ==
  LET t == F12Mul(F12(F6Neg(in.x), in.y), F12Inv(in)) IN F12Mul(t, F12FrobeniusP2(t))

\* t and its powers u, u^2 and u^3.
PowersOfU(t) == FoldLeft(LAMBDA s, i : Append(s, F12Exp(s[i], U, UBits)), <<t>>, <<1, 2, 3>>)

HardPart(f) ==
  LET fp2 == F12FrobeniusP2(f[1])
      y0 == F12Mul(F12Mul(F12Frobenius(f[1]), fp2), F12Frobenius(fp2))
      y1 == F12Conjugate(f[1])
      y2 == F12FrobeniusP2(f[3])
      y3 == F12Conjugate(F12Frobenius(f[2]))
      y4 == F12Conjugate(F12Mul(f[2], F12Frobenius(f[3])))
      y5 == F12Conjugate(f[3])
      y6 == F12Conjugate(F12Mul(f[4], F12Frobenius(f[4])))
      a == F12Mul(F12Mul(F12Square(y6), y4), y5)
      b == F12Mul(F12Mul(y3, y5), a)
      last(c) == F12Mul(F12Square(F12Mul(c, y1)), F12Mul(c, y0))
  IN  last(F12Square(F12Mul(F12Square(b), F12Mul(a, y2))))

FinalExponentiation(in) == HardPart(PowersOfU(EasyPart(in)))

\* Whether the pairings of the points of G1 with those of G2 have the product
\* one; a pair with a zero is left out.
PairingCheck(ps, qs) ==
  LET by(acc, i) == IF G1!IsZero(ps[i]) \/ G2!IsZero(qs[i]) THEN acc ELSE F12Mul(acc, Miller(qs[i], ps[i]))
  IN  FinalExponentiation(FoldLeft(by, F12One, [i \in DOMAIN ps |-> i])) = F12One

=============================================================================
