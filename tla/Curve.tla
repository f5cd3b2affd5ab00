-------------------------------- MODULE Curve -------------------------------
(***************************************************************************)
(* Curve<BaseField> (depends/ffiasm/c/curve.cpp): the points of            *)
(* y^2 = x^3 + b over any field, and what exp.hpp and msm.cpp do with      *)
(* them.                                                                   *)
(*                                                                         *)
(* A point is affine, [x, y], or has denominators of its own,              *)
(* [x, y, zz, zzz], for x/zz and y/zzz with zz^3 = zzz^2.  The formulas    *)
(* divide by what is zero when the two points are equal or opposite, so    *)
(* the operations look for equal ones and opposite ones must come out with *)
(* zz = 0, which is how a zero is known; the affine zero is (0, 0).        *)
(*                                                                         *)
(* Both curves of alt_bn128.cpp have a = 0, and its terms are left out.    *)
(***************************************************************************)
EXTENDS Integers, Sequences, SequencesExt

CONSTANTS FAdd(_, _), FSub(_, _), FMul(_, _), FSquare(_), FDiv(_, _), FZero, FOne

Zero == [x |-> FOne, y |-> FOne, zz |-> FZero, zzz |-> FZero]
ZeroAffine == [x |-> FZero, y |-> FZero]

IsZero(p) == p.zz = FZero
IsZeroAffine(a) == a.x = FZero /\ a.y = FZero

OverOne(a) == [x |-> a.x, y |-> a.y, zz |-> FOne, zzz |-> FOne]
FromAffine(a) == IF IsZeroAffine(a) THEN Zero ELSE OverOne(a)
ToAffine(p) == IF IsZero(p) THEN ZeroAffine ELSE [x |-> FDiv(p.x, p.zz), y |-> FDiv(p.y, p.zzz)]

Neg(p) == [p EXCEPT !.y = FSub(FZero, @)]
NegAffine(a) == [a EXCEPT !.y = FSub(FZero, @)]
\* To a point from an affine one; the zero becomes none.
NegToPoint(a) == OverOne(NegAffine(a))

\* The tangent at (x, y), over the denominators given.
Tangent(x, y, zz, zzz) ==
  LET twice == FAdd(y, y)
      V == FSquare(twice)
      W == FMul(twice, V)
      S == FMul(x, V)
      xx == FSquare(x)
      M == FAdd(xx, FAdd(xx, xx))
      x3 == FSub(FSub(FSquare(M), S), S)
  IN  [x |-> x3, y |-> FSub(FMul(M, FSub(S, x3)), FMul(W, y)), zz |-> FMul(V, zz), zzz |-> FMul(W, zzz)]

Dbl(p) == IF IsZero(p) THEN p ELSE Tangent(p.x, p.y, p.zz, p.zzz)
DblAffine(a) == IF IsZeroAffine(a) THEN Zero ELSE Tangent(a.x, a.y, FOne, FOne)

\* The chord through (u1, s1) and (u2, s2), brought to the denominators given.
Chord(u1, s1, u2, s2, zz, zzz) ==
  LET D == FSub(u2, u1)
      R == FSub(s2, s1)
      PP == FSquare(D)
      PPP == FMul(D, PP)
      Q == FMul(u1, PP)
      x3 == FSub(FSub(FSub(FSquare(R), PPP), Q), Q)
  IN  [x |-> x3, y |-> FSub(FMul(R, FSub(Q, x3)), FMul(s1, PPP)), zz |-> FMul(zz, PP), zzz |-> FMul(zzz, PPP)]

Add(p1, p2) ==
  LET u1 == FMul(p1.x, p2.zz)
      u2 == FMul(p2.x, p1.zz)
      s1 == FMul(p1.y, p2.zzz)
      s2 == FMul(p2.y, p1.zzz)
  IN  CASE IsZero(p1) -> p2
        [] ~IsZero(p1) /\ IsZero(p2) -> p1
        [] ~IsZero(p1) /\ ~IsZero(p2) /\ u1 = u2 /\ s1 = s2 -> Dbl(p1)
        [] OTHER -> Chord(u1, s1, u2, s2, FMul(p1.zz, p2.zz), FMul(p1.zzz, p2.zzz))

\* Mutation of AddMixed: equal points are not looked for.
AddMixedUnequal(p, a) ==
  CASE IsZero(p) -> FromAffine(a)
    [] ~IsZero(p) /\ IsZeroAffine(a) -> p
    [] OTHER -> Chord(p.x, p.y, FMul(a.x, p.zz), FMul(a.y, p.zzz), p.zz, p.zzz)

\* A point and an affine one.
AddMixed(p, a) ==
  LET u2 == FMul(a.x, p.zz)
      s2 == FMul(a.y, p.zzz)
  IN  CASE IsZero(p) -> FromAffine(a)
        [] ~IsZero(p) /\ IsZeroAffine(a) -> p
        [] ~IsZero(p) /\ ~IsZeroAffine(a) /\ u2 = p.x /\ s2 = p.y -> DblAffine(a)
        [] OTHER -> Chord(p.x, p.y, u2, s2, p.zz, p.zzz)

Sub(p1, p2) == Add(p1, Neg(p2))
SubMixed(p, a) == AddMixed(p, NegAffine(a))

\* nafMulByScalar, of a point and of an affine one: signed digits, the highest
\* first.
MulByScalar(base, digits) ==
  FoldLeft(LAMBDA r, d : CASE d = 0 -> Dbl(r) [] d = 1 -> Add(Dbl(r), base) [] d = -1 -> Sub(Dbl(r), base),
           Zero, digits)
MulAffineByScalar(base, digits) ==
  FoldLeft(LAMBDA r, d : CASE d = 0 -> Dbl(r) [] d = 1 -> AddMixed(Dbl(r), base) [] d = -1 -> SubMixed(Dbl(r), base),
           Zero, digits)

-----------------------------------------------------------------------------
(* Multi-scalar multiplication, for a chunk's digit of each point *)

\* A row of buckets: bucket b holds the points whose digit is b + 1, and the
\* negatives of those where it is -b - 1.
FillBuckets(digits, bases, n, nBuckets) ==
  [b \in 0..nBuckets-1 |->
     FoldLeft(LAMBDA p, i : CASE digits[i] = b + 1 -> AddMixed(p, bases[i])
                              [] digits[i] = -b - 1 -> SubMixed(p, bases[i])
                              [] OTHER -> p,
              Zero, [i \in 1..n |-> i - 1])]

\* Every bucket as often as its digit says, by running sums from the top.
SumBuckets(buckets, nBuckets) ==
  LET top == nBuckets - 1
      step(s, i) == LET tmp == Add(s.tmp, buckets[top - i])
                    IN  [tmp |-> tmp, t |-> Add(s.t, tmp)]
  IN  FoldLeft(step, [tmp |-> buckets[top], t |-> buckets[top]], [i \in 1..top |-> i]).t

\* The chunks' sums, the uppermost first, each doubled past the next one's.
CombineChunks(chunks, nChunks, bits) ==
  LET doubled(r) == FoldLeft(LAMBDA p, i : Dbl(p), r, [i \in 1..bits |-> i])
      top == nChunks - 1
  IN  FoldLeft(LAMBDA r, j : Add(doubled(r), chunks[top - j]), chunks[top], [j \in 1..top |-> j])

-----------------------------------------------------------------------------
(* What the operations are for: the group of the affine points *)

Law(a, b) ==
  LET xx == FSquare(a.x)
      slope == IF a = b THEN FDiv(FAdd(xx, FAdd(xx, xx)), FAdd(a.y, a.y))
               ELSE FDiv(FSub(b.y, a.y), FSub(b.x, a.x))
      x3 == FSub(FSub(FSquare(slope), a.x), b.x)
  IN  CASE IsZeroAffine(a) -> b
        [] ~IsZeroAffine(a) /\ IsZeroAffine(b) -> a
        [] ~IsZeroAffine(a) /\ ~IsZeroAffine(b) /\ b = NegAffine(a) -> ZeroAffine
        [] OTHER -> [x |-> x3, y |-> FSub(FMul(slope, FSub(a.x, x3)), a.y)]

\* The multiples 0, 1, ..., n-1 of a point, multiple k at k + 1.
Multiples(a, n) == FoldLeft(LAMBDA s, k : Append(s, Law(s[k], a)), <<ZeroAffine>>, [k \in 1..n-1 |-> k])

\* The point p is the affine one a, in a form whose denominators agree.
Represents(p, a) ==
  IF IsZeroAffine(a) THEN IsZero(p)
  ELSE /\ ~IsZero(p)
       /\ FMul(p.zz, FSquare(p.zz)) = FSquare(p.zzz)
       /\ p.x = FMul(a.x, p.zz) /\ p.y = FMul(a.y, p.zzz)

=============================================================================
