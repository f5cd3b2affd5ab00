------------------------ MODULE Groth16ProverProofs -------------------------
(***************************************************************************)
(* Proofs about Groth16Prover, for every circuit, witness, size of the     *)
(* domain, number of threads and of locks: the loops of the prover are     *)
(* free of races.                                                          *)
(***************************************************************************)
EXTENDS Groth16Prover, NaturalsInduction, WellFoundedInduction, TLAPS

-----------------------------------------------------------------------------
(* Induction over the natural numbers, for a set instead of a property     *)

LEMMA SetInduction ==
  ASSUME NEW S, 0 \in S, \A n \in Nat : n \in S => n + 1 \in S
  PROVE  Nat \subseteq S
<1>1. SUFFICES ASSUME Nat \ S # {} PROVE FALSE
  OBVIOUS
<1>2. \E x \in Nat \ S : \A y \in Nat \ S : ~(<<y, x>> \in OpToRel(<, Nat))
  <2>1. IsWellFoundedOn(OpToRel(<, Nat), Nat)
    BY NatLessThanWellFounded
  <2>2. Nat \ S \subseteq Nat
    OBVIOUS
  <2> QED
    BY <1>1, <2>1, <2>2, WFMin, Zenon
<1>3. PICK x \in Nat \ S : \A y \in Nat \ S : ~(<<y, x>> \in OpToRel(<, Nat))
  BY <1>2
<1>4. ASSUME NEW y \in Nat \ S PROVE ~(y < x)
  BY <1>3 DEF OpToRel
<1>5. x # 0 /\ x - 1 \in Nat /\ (x - 1) + 1 = x
  OBVIOUS
<1> QED
  BY <1>4, <1>5

-----------------------------------------------------------------------------
(* Quotients                                                               *)

LEMMA Quotient ==
  ASSUME NEW a \in Nat, NEW d \in Nat \ {0}
  PROVE  /\ a \div d \in Nat /\ a % d \in 0..d-1
         /\ a = (a \div d) * d + (a % d)
  OBVIOUS

\* A number is quotient times divisor plus remainder in one way only.
LEMMA OneQuotient ==
  ASSUME NEW d \in Nat \ {0}, NEW p \in Nat, NEW q \in Nat,
         NEW x \in 0..d-1, NEW y \in 0..d-1, p * d + x = q * d + y
  PROVE  p = q /\ x = y
<1>1. ASSUME NEW s \in Nat, NEW t \in Nat, NEW v \in 0..d-1, NEW w \in 0..d-1,
             s < t
      PROVE  s * d + v < t * d + w
  <2>1. (s + 1) * d <= t * d
    BY <1>1
  <2>2. (s + 1) * d = s * d + d
    OBVIOUS
  <2>3. s * d \in Nat /\ t * d \in Nat
    OBVIOUS
  <2> QED
    BY <2>1, <2>2, <2>3
<1>2. p * d + x \in Nat /\ q * d + y \in Nat
  OBVIOUS
<1>3. ~(p < q) /\ ~(q < p)
  BY <1>1, <1>2
<1>4. p = q
  BY <1>3
<1> QED
  BY <1>4

LEMMA QuotientIs ==
  ASSUME NEW d \in Nat \ {0}, NEW q \in Nat, NEW x \in 0..d-1
  PROVE  (q * d + x) \div d = q /\ (q * d + x) % d = x
<1>1. PICK a \in Nat : a = q * d + x
  OBVIOUS
<1>2. /\ a \div d \in Nat /\ a % d \in 0..d-1
      /\ a = (a \div d) * d + (a % d)
  BY Quotient
<1>3. a \div d = q /\ a % d = x
  BY <1>1, <1>2, OneQuotient
<1> QED
  BY <1>1, <1>3

LEMMA QuotientOfHalf ==
  ASSUME NEW a \in Nat, NEW d \in Nat \ {0}
  PROVE  a \div (2 * d) = (a \div 2) \div d
<1>1. PICK h \in Nat, b \in {0, 1} : a = 2 * h + b /\ a \div 2 = h
  <2>1. a \div 2 \in Nat /\ a % 2 \in {0, 1} /\ a = 2 * (a \div 2) + (a % 2)
    OBVIOUS
  <2> QED
    BY <2>1
<1>2. PICK q \in Nat, x \in 0..d-1 : h = q * d + x /\ h \div d = q
  BY Quotient
<1>3. PICK e \in Nat \ {0} : e = 2 * d
  OBVIOUS
<1>4. PICK r \in 0..e-1 : r = 2 * x + b
  BY <1>3
<1>5. a = q * e + r
  <2>1. q * (2 * d) = 2 * (q * d)
    OBVIOUS
  <2> QED
    BY <1>1, <1>2, <1>3, <1>4, <2>1
<1>6. (q * e + r) \div e = q
  BY QuotientIs
<1> QED
  BY <1>1, <1>2, <1>3, <1>5, <1>6

-----------------------------------------------------------------------------
(* Bits                                                                    *)

LEMMA PowersArePositive == \A k \in 0..DomainSize+1 : 2^k \in Nat \ {0}
<1> DEFINE S == {k \in Nat : k <= DomainSize + 1 => 2^k \in Nat \ {0}}
<1>1. 0 \in S
  BY PowerAssumption
<1>2. ASSUME NEW n \in Nat, n \in S PROVE n + 1 \in S
  <2>1. SUFFICES ASSUME n + 1 <= DomainSize + 1 PROVE 2^(n+1) \in Nat \ {0}
    OBVIOUS
  <2>2. n \in 0..DomainSize
    BY <2>1, MathAssumption
  <2>3. 2^n \in Nat \ {0}
    BY <1>2, <2>2, MathAssumption
  <2>4. 2^(n+1) = 2 * 2^n
    BY <2>2, PowerAssumption
  <2> QED
    BY <2>3, <2>4
<1>3. Nat \subseteq S
  BY <1>1, <1>2, SetInduction
<1> QED
  BY <1>3, MathAssumption

LEMMA BitsOfHalf ==
  ASSUME NEW a \in Nat
  PROVE  /\ BitOf(a, 0) = a % 2
         /\ \A k \in 0..DomainSize : BitOf(a, k + 1) = BitOf(a \div 2, k)
<1>1. BitOf(a, 0) = a % 2
  BY PowerAssumption DEF BitOf
<1>2. ASSUME NEW k \in 0..DomainSize PROVE BitOf(a, k + 1) = BitOf(a \div 2, k)
  <2>1. PICK d : d = 2^k
    OBVIOUS
  <2>2. d \in Nat \ {0}
    BY <2>1, PowersArePositive, MathAssumption
  <2>3. 2^(k+1) = 2 * d
    BY <2>1, PowerAssumption
  <2>4. a \div (2 * d) = (a \div 2) \div d
    BY <2>2, QuotientOfHalf
  <2> QED
    BY <2>1, <2>3, <2>4 DEF BitOf
<1> QED
  BY <1>1, <1>2

\* Numbers of t bits that agree in each are equal.
LEMMA BitsTellApart ==
  ASSUME NEW t \in 0..DomainSize, NEW r \in 0..2^t-1, NEW s \in 0..2^t-1,
         \A k \in 0..t-1 : BitOf(r, k) = BitOf(s, k)
  PROVE  r = s
<1> DEFINE Same(n, a, b) == \A k \in 0..n-1 : BitOf(a, k) = BitOf(b, k)
           S == {n \in Nat : n <= DomainSize =>
                               \A a, b \in 0..2^n-1 : Same(n, a, b) => a = b}
<1>1. 0 \in S
  BY PowerAssumption
<1>2. ASSUME NEW n \in Nat, n \in S PROVE n + 1 \in S
  <2>1. SUFFICES ASSUME n + 1 <= DomainSize,
                        NEW a \in 0..2^(n+1)-1, NEW b \in 0..2^(n+1)-1, Same(n + 1, a, b)
                 PROVE  a = b
    OBVIOUS
  <2>2. n \in 0..DomainSize /\ n <= DomainSize
    BY <2>1, MathAssumption
  <2>3. PICK d : d = 2^n
    OBVIOUS
  <2>4. d \in Nat \ {0} /\ 2^(n+1) = 2 * d
    BY <2>2, <2>3, PowersArePositive, PowerAssumption, MathAssumption
  <2>5. a \in 0..2*d-1 /\ b \in 0..2*d-1
    BY <2>4
  <2>6. a \div 2 \in 0..d-1 /\ b \div 2 \in 0..d-1
    BY <2>4, <2>5
  <2>7. Same(n, a \div 2, b \div 2)
    <3>1. ASSUME NEW k \in 0..n-1 PROVE BitOf(a \div 2, k) = BitOf(b \div 2, k)
      <4>1. k + 1 \in 0..(n+1)-1 /\ k \in 0..DomainSize
        BY <2>2, MathAssumption
      <4>2. BitOf(a, k + 1) = BitOf(b, k + 1)
        BY <2>1, <4>1
      <4>3. a \in Nat /\ b \in Nat
        BY <2>4, <2>5
      <4> QED
        BY <4>1, <4>2, <4>3, BitsOfHalf
    <3> QED
      BY <3>1
  <2>8. a \div 2 = b \div 2
    BY <1>2, <2>2, <2>3, <2>6, <2>7
  <2>9. a % 2 = b % 2
    <3>1. 0 \in 0..(n+1)-1
      OBVIOUS
    <3>2. BitOf(a, 0) = BitOf(b, 0)
      BY <2>1, <3>1
    <3>3. a \in Nat /\ b \in Nat
      BY <2>4, <2>5
    <3> QED
      BY <3>2, <3>3, BitsOfHalf
  <2> QED
    BY <2>4, <2>5, <2>8, <2>9
<1>3. Nat \subseteq S
  BY <1>1, <1>2, SetInduction
<1>4. t \in S /\ t <= DomainSize
  BY <1>3, MathAssumption
<1> QED
  BY <1>4

\* There is a number with the bits of i in reverse order.
LEMMA ReversalExists ==
  ASSUME NEW i \in Nat, NEW t \in 0..DomainSize
  PROVE  \E r \in 0..2^t-1 : \A k \in 0..t-1 : BitOf(r, k) = BitOf(i, t - 1 - k)
<1> DEFINE Reversed(n, r) == \A k \in 0..n-1 : BitOf(r, k) = BitOf(i, n - 1 - k)
           S == {n \in Nat : n <= DomainSize => \E r \in 0..2^n-1 : Reversed(n, r)}
<1>1. 0 \in S
  <2>1. 0 \in 0..2^0-1 /\ Reversed(0, 0)
    BY PowerAssumption
  <2> QED
    BY <2>1
<1>2. ASSUME NEW n \in Nat, n \in S PROVE n + 1 \in S
  <2>1. SUFFICES ASSUME n + 1 <= DomainSize
                 PROVE  \E r \in 0..2^(n+1)-1 : Reversed(n + 1, r)
    OBVIOUS
  <2>2. n \in 0..DomainSize /\ n <= DomainSize
    BY <2>1, MathAssumption
  <2>3. PICK d : d = 2^n
    OBVIOUS
  <2>4. d \in Nat \ {0} /\ 2^(n+1) = 2 * d
    BY <2>2, <2>3, PowersArePositive, PowerAssumption, MathAssumption
  <2>5. PICK r \in 0..d-1 : Reversed(n, r)
    BY <1>2, <2>2, <2>3
  <2>6. PICK b \in {0, 1} : b = BitOf(i, n)
    <3>1. i \div d \in Nat
      BY <2>4, Quotient
    <3> QED
      BY <2>3, <3>1 DEF BitOf
  <2>7. PICK s \in Nat : s = 2 * r + b
    BY <2>4
  <2>8. s \in 0..2*d-1 /\ s \div 2 = r /\ s % 2 = b
    BY <2>4, <2>7
  <2>9. ASSUME NEW k \in 0..(n+1)-1
        PROVE  BitOf(s, k) = BitOf(i, (n + 1) - 1 - k)
    <3>1. CASE k = 0
      <4>1. (n + 1) - 1 - k = n
        BY <3>1
      <4> QED
        BY <2>6, <2>8, <3>1, <4>1, BitsOfHalf
    <3>2. CASE k # 0
      <4>1. PICK j \in 0..n-1 : k = j + 1
        <5>1. k - 1 \in 0..n-1 /\ k = (k - 1) + 1
          BY <3>2
        <5> QED
          BY <5>1
      <4>2. j \in 0..DomainSize /\ (n + 1) - 1 - k = n - 1 - j
        BY <2>2, <4>1, MathAssumption
      <4>3. BitOf(s, k) = BitOf(r, j)
        BY <2>8, <4>1, <4>2, BitsOfHalf
      <4> QED
        BY <2>5, <4>2, <4>3
    <3> QED
      BY <3>1, <3>2
  <2> QED
    BY <2>4, <2>8, <2>9
<1>3. Nat \subseteq S
  BY <1>1, <1>2, SetInduction
<1>4. t \in S /\ t <= DomainSize
  BY <1>3, MathAssumption
<1> QED
  BY <1>4

LEMMA LogOfDomain ==
  /\ Log2(DomainSize) \in 0..DomainSize /\ 2^Log2(DomainSize) = DomainSize
  /\ NRoots = 2 * DomainSize
<1>1. PICK m \in 0..DomainSize : DomainSize = 2^m
  BY MathAssumption
<1>2. Log2(DomainSize) \in 0..DomainSize /\ 2^Log2(DomainSize) = DomainSize
  BY <1>1 DEF Log2
<1>3. 2^(m+1) = 2 * DomainSize
  BY <1>1, PowerAssumption
<1>4. m + 1 \in 0..2*DomainSize
  BY MathAssumption
<1>5. NRoots = 2 * DomainSize
  <2>1. PICK n : n = 2 * DomainSize
    OBVIOUS
  <2>2. \E k \in 0..n : 2^k = n
    BY <1>3, <1>4, <2>1
  <2>3. 2^Log2(n) = n
    BY <2>2 DEF Log2
  <2> QED
    BY <2>1, <2>3 DEF NRoots, DomainPow
<1> QED
  BY <1>2, <1>5

\* Reversing the bits twice gives the number back.
LEMMA ReversedTwice ==
  ASSUME NEW i \in 0..DomainSize-1
  PROVE  LET r == BitReversed(i, Log2(DomainSize))
         IN  r \in 0..DomainSize-1 /\ BitReversed(r, Log2(DomainSize)) = i
<1>1. PICK t \in 0..DomainSize : t = Log2(DomainSize) /\ 2^t = DomainSize
  BY LogOfDomain
<1>2. ASSUME NEW a \in 0..DomainSize-1
      PROVE  /\ BitReversed(a, t) \in 0..DomainSize-1
             /\ \A k \in 0..t-1 : BitOf(BitReversed(a, t), k) = BitOf(a, t - 1 - k)
  <2>1. a \in Nat
    BY MathAssumption
  <2>2. \E r \in 0..2^t-1 : \A k \in 0..t-1 : BitOf(r, k) = BitOf(a, t - 1 - k)
    BY <2>1, ReversalExists
  <2>3. PICK r : r = BitReversed(a, t)
    OBVIOUS
  <2>4. r \in 0..2^t-1 /\ \A k \in 0..t-1 : BitOf(r, k) = BitOf(a, t - 1 - k)
    BY <2>2, <2>3 DEF BitReversed
  <2> QED
    BY <1>1, <2>3, <2>4
<1>3. PICK r, s : r = BitReversed(i, t) /\ s = BitReversed(r, t)
  OBVIOUS
<1>4. /\ r \in 0..DomainSize-1 /\ s \in 0..DomainSize-1
      /\ \A k \in 0..t-1 : BitOf(r, k) = BitOf(i, t - 1 - k)
      /\ \A k \in 0..t-1 : BitOf(s, k) = BitOf(r, t - 1 - k)
  BY <1>2, <1>3
<1>5. ASSUME NEW k \in 0..t-1 PROVE BitOf(s, k) = BitOf(i, k)
  <2>1. PICK j \in 0..t-1 : j = t - 1 - k
    BY MathAssumption
  <2>2. t - 1 - j = k
    BY <2>1, MathAssumption
  <2> QED
    BY <1>4, <2>1, <2>2
<1>6. s = i
  BY <1>1, <1>4, <1>5, BitsTellApart
<1> QED
  BY <1>1, <1>3, <1>4, <1>6

-----------------------------------------------------------------------------
(* The cells of two elements of a loop                                     *)

Ops == {"roots", "few", "slice", "chunk", "combine", "zero", "coefs", "product", "reverse",
        "stage", "unscramble", "scale", "shift", "abc", "assemble"}

\* Two elements of one step, and the cells the code exchanges or combines.
Apart(p, q) == \A m \in DOMAIN p, k \in DOMAIN q : p[m] # q[k]

LEMMA ReversePairsApart ==
  ASSUME NEW i \in 0..DomainSize-1, NEW j \in 0..DomainSize-1, i # j
  PROVE  Apart(ReversePair(i), ReversePair(j))
<1>1. PICK r, s : r = BitReversed(i, Log2(DomainSize)) /\ s = BitReversed(j, Log2(DomainSize))
  OBVIOUS
<1>2. /\ r \in 0..DomainSize-1 /\ BitReversed(r, Log2(DomainSize)) = i
      /\ s \in 0..DomainSize-1 /\ BitReversed(s, Log2(DomainSize)) = j
  BY <1>1, ReversedTwice
<1>3. r # s /\ (r = j => s = i) /\ (s = i => r = j)
  BY <1>1, <1>2
<1>4. CASE i > r /\ j > s
  <2>1. ReversePair(i) = <<i, r>> /\ ReversePair(j) = <<j, s>>
    BY <1>1, <1>4 DEF ReversePair
  <2>2. i # s /\ r # j
    BY <1>2, <1>3, <1>4, MathAssumption
  <2> QED
    BY <1>3, <2>1, <2>2 DEF Apart
<1>5. CASE ~(i > r)
  <2>1. ReversePair(i) = <<>>
    BY <1>1, <1>5 DEF ReversePair
  <2> QED
    BY <2>1 DEF Apart
<1>6. CASE ~(j > s)
  <2>1. ReversePair(j) = <<>>
    BY <1>1, <1>6 DEF ReversePair
  <2> QED
    BY <2>1 DEF Apart
<1> QED
  BY <1>4, <1>5, <1>6

LEMMA ButterflyPairsApart ==
  ASSUME NEW s \in 1..Log2(DomainSize), NEW i \in Nat, NEW j \in Nat, i # j
  PROVE  Apart(ButterflyPair(s, i), ButterflyPair(s, j))
<1>1. PICK h : h = 2^(s-1)
  OBVIOUS
<1>2. h \in Nat \ {0} /\ 2^s = 2 * h
  <2>1. s - 1 \in 0..DomainSize /\ (s - 1) + 1 = s
    BY LogOfDomain, MathAssumption
  <2>2. s - 1 \in 0..DomainSize+1
    BY <2>1, MathAssumption
  <2>3. h \in Nat \ {0}
    BY <1>1, <2>2, PowersArePositive
  <2>4. 2^((s-1)+1) = 2 * h
    BY <1>1, <2>1, PowerAssumption
  <2> QED
    BY <2>1, <2>3, <2>4
<1>3. PICK p \in Nat, x \in 0..h-1 : p = i \div h /\ x = i % h /\ i = p * h + x
  <2>1. /\ i \div h \in Nat /\ i % h \in 0..h-1
        /\ i = (i \div h) * h + (i % h)
    BY <1>2, Quotient
  <2> QED
    BY <2>1
<1>4. PICK q \in Nat, y \in 0..h-1 : q = j \div h /\ y = j % h /\ j = q * h + y
  <2>1. /\ j \div h \in Nat /\ j % h \in 0..h-1
        /\ j = (j \div h) * h + (j % h)
    BY <1>2, Quotient
  <2> QED
    BY <2>1
<1>5. ASSUME NEW a \in {0, 1}, NEW b \in {0, 1}
      PROVE  (2 * p + a) * h + x # (2 * q + b) * h + y
  <2>1. SUFFICES ASSUME (2 * p + a) * h + x = (2 * q + b) * h + y PROVE FALSE
    OBVIOUS
  <2>2. PICK v \in Nat, w \in Nat : v = 2 * p + a /\ w = 2 * q + b
    OBVIOUS
  <2>3. v = w /\ x = y
    BY <1>2, <2>1, <2>2, OneQuotient
  <2>4. p = q
    BY <2>2, <2>3
  <2> QED
    BY <1>3, <1>4, <2>3, <2>4
<1>6. /\ p * (2 * h) + x = (2 * p + 0) * h + x
      /\ p * (2 * h) + x + h = (2 * p + 1) * h + x
      /\ q * (2 * h) + y = (2 * q + 0) * h + y
      /\ q * (2 * h) + y + h = (2 * q + 1) * h + y
  BY <1>2
<1>7. /\ ButterflyPair(s, i) = <<p * (2 * h) + x, p * (2 * h) + x + h>>
      /\ ButterflyPair(s, j) = <<q * (2 * h) + y, q * (2 * h) + y + h>>
  BY <1>1, <1>2, <1>3, <1>4 DEF ButterflyPair
<1>8. PICK a0, a1, b0, b1 :
        /\ a0 = p * (2 * h) + x /\ a1 = p * (2 * h) + x + h
        /\ b0 = q * (2 * h) + y /\ b1 = q * (2 * h) + y + h
  OBVIOUS
<1>9. a0 # b0 /\ a0 # b1 /\ a1 # b0 /\ a1 # b1
  BY <1>5, <1>6, <1>8
<1> QED
  BY <1>7, <1>8, <1>9 DEF Apart

LEMMA UnscramblePairsApart ==
  ASSUME NEW i \in 1..(DomainSize \div 2)-1, NEW j \in 1..(DomainSize \div 2)-1, i # j
  PROVE  Apart(UnscramblePair(i), UnscramblePair(j))
<1>1. i # j /\ i # DomainSize - j /\ DomainSize - i # j /\ DomainSize - i # DomainSize - j
  BY MathAssumption
<1> QED
  BY <1>1 DEF UnscramblePair, Apart

-----------------------------------------------------------------------------
(* The parts of the table of roots                                         *)

LEMMA PartsInNat == NRoots \div NThreads \in Nat
<1>1. NRoots \in Nat
  BY LogOfDomain, MathAssumption
<1>2. NThreads \in Nat \ {0}
  BY ProverAssumption
<1> QED
  BY <1>1, <1>2, Quotient

LEMMA BlocksInNat == \A d \in 0..NThreads-1 : BlockStart(NThreads, d) \in Nat
<1>1. PICK q \in Nat : q = NRoots \div NThreads
  BY PartsInNat
<1> QED
  BY <1>1, ProverAssumption DEF BlockStart

\* A part ends before a later one begins.
LEMMA BlocksApart ==
  ASSUME NEW d \in 0..NThreads-1, NEW e \in 0..NThreads-1, d < e
  PROVE  BlockEnd(NThreads, d) \in Nat /\ BlockEnd(NThreads, d) <= BlockStart(NThreads, e)
<1>1. PICK q \in Nat : q = NRoots \div NThreads
  BY PartsInNat
<1>2. PICK f \in Nat, g \in Nat : f = d + 1 /\ g = e /\ f <= g
  BY ProverAssumption
<1>3. f * q \in Nat /\ f * q <= g * q
  BY <1>2
<1>4. BlockEnd(NThreads, d) = f * q
  BY <1>1, <1>2, ProverAssumption DEF BlockEnd
<1>5. BlockStart(NThreads, e) = g * q
  BY <1>1, <1>2, ProverAssumption DEF BlockStart
<1> QED
  BY <1>3, <1>4, <1>5

-----------------------------------------------------------------------------
(* The inductive invariant                                                 *)

Sets == {"", "a", "b", "c", "A", "B1", "B2", "C", "H"}

AllSteps ==
  {step \in [op : Ops, on : Sets, stage : 0..Log2(DomainSize)] :
     step.op = "stage" => step.stage # 0}

\* prove ends with the points of the proof.
StepsOK ==
  /\ steps \in Seq(AllSteps) /\ Len(steps) >= 1
  /\ steps[Len(steps)].op = "assemble"

\* The threads are at different elements of the loop that prove is at, and
\* between the loops there are none.
PoolOK ==
  /\ caller \in {Main, NoCall}
  /\ caller = NoCall => Busy = {}
  /\ caller = Main => Now.op \notin Serial /\ todo \subseteq ElementsOf(Now)
  /\ Busy \subseteq 0..NThreads-1
  /\ \A d \in Busy : active[d] \in ElementsOf(Now) \ todo
  /\ \A d, e \in Busy : d # e => active[d] # active[e]

\* Threads that have read a cell hold different locks.
LocksOK ==
  /\ DOMAIN cell \subseteq Busy
  /\ \A d, e \in DOMAIN cell :
       d # e => Coef(active[d]).c % NLocks # Coef(active[e]).c % NLocks

\* A thread that fills the table of roots is in its part of it.
RootsOK ==
  Now.op = "roots" =>
    \A d \in Busy : /\ active[d] = d /\ d \in DOMAIN local
                    /\ local[d] \in Nat /\ local[d] >= BlockStart(NThreads, d)

IInv == StepsOK /\ PoolOK /\ LocksOK /\ RootsOK

-----------------------------------------------------------------------------
(* The steps of prove *)

LEMMA StepIsStep ==
  ASSUME NEW op \in Ops \ {"stage"}, NEW on \in Sets
  PROVE  Step(op, on) \in AllSteps /\ <<Step(op, on)>> \in Seq(AllSteps)
<1>1. 0 \in 0..Log2(DomainSize)
  BY LogOfDomain
<1>2. Step(op, on) \in AllSteps
  BY <1>1 DEF Step, AllSteps
<1> QED
  BY <1>2

LEMMA TransformSteps ==
  ASSUME NEW x \in {"a", "b", "c"}
  PROVE  Shifted(x) \in Seq(AllSteps)
<1>s. \A op \in Ops \ {"stage"} : <<Step(op, x)>> \in Seq(AllSteps)
  BY StepIsStep DEF Sets
<1>1. [s \in 1..Log2(DomainSize) |-> [op |-> "stage", on |-> x, stage |-> s]] \in Seq(AllSteps)
  <2>1. PICK t \in 0..DomainSize : t = Log2(DomainSize)
    BY LogOfDomain
  <2>2. t \in Nat
    BY MathAssumption
  <2>3. ASSUME NEW s \in 1..t PROVE [op |-> "stage", on |-> x, stage |-> s] \in AllSteps
    <3>1. PICK step : step = [op |-> "stage", on |-> x, stage |-> s]
      OBVIOUS
    <3>2. s \in 0..t /\ s # 0
      BY <2>2
    <3>3. step \in [op : Ops, on : Sets, stage : 0..Log2(DomainSize)] /\ step.stage # 0
      BY <2>1, <3>1, <3>2 DEF Ops, Sets
    <3> QED
      BY <3>1, <3>3 DEF AllSteps
  <2> QED
    BY <2>1, <2>2, <2>3
<1>2. Fft(x) \in Seq(AllSteps)
  <2>1. <<Step("reverse", x)>> \in Seq(AllSteps)
    BY <1>s DEF Ops
  <2> QED
    BY <1>1, <2>1 DEF Fft
<1>3. Ifft(x) \in Seq(AllSteps)
  <2>1. <<Step("unscramble", x), Step("scale", x)>> \in Seq(AllSteps)
    <3>1. <<Step("unscramble", x)>> \in Seq(AllSteps) /\ <<Step("scale", x)>> \in Seq(AllSteps)
      BY <1>s DEF Ops
    <3> QED
      BY <3>1
  <2> QED
    BY <1>2, <2>1 DEF Ifft
<1>4. <<Step("shift", x)>> \in Seq(AllSteps)
  BY <1>s DEF Ops
<1> QED
  BY <1>2, <1>3, <1>4 DEF Shifted

LEMMA SumSteps ==
  ASSUME NEW x \in {"A", "B1", "B2", "C", "H"}
  PROVE  Msm(x) \in Seq(AllSteps)
<1>1. \A op \in {"few", "slice", "chunk", "combine"} : <<Step(op, x)>> \in Seq(AllSteps)
  BY StepIsStep DEF Sets, Ops
<1>2. <<Step("slice", x), Step("chunk", x), Step("combine", x)>> \in Seq(AllSteps)
  BY <1>1
<1> QED
  BY <1>1, <1>2 DEF Msm

LEMMA ProveSteps ==
  /\ Prove \in Seq(AllSteps) /\ Len(Prove) >= 1
  /\ Prove[Len(Prove)].op = "assemble"
<1>1. \A op \in Ops \ {"stage"} : Step(op, "") \in AllSteps
  BY StepIsStep DEF Sets
<1>2. PICK P : P = <<Step("roots", "")>>
                     \o Msm("A") \o Msm("B1") \o Msm("B2") \o Msm("C")
                     \o <<Step("zero", ""), Step("coefs", ""), Step("product", "")>>
                     \o Shifted("a") \o Shifted("b") \o Shifted("c")
                     \o <<Step("abc", "")>> \o Msm("H")
  OBVIOUS
<1>3. P \in Seq(AllSteps)
  <2>1. PICK r, m, f, h :
          /\ r = <<Step("roots", "")>>
          /\ m = <<Step("zero", ""), Step("coefs", ""), Step("product", "")>>
          /\ f = <<Step("abc", "")>>
          /\ h = Msm("H")
    OBVIOUS
  <2>2. r \in Seq(AllSteps) /\ m \in Seq(AllSteps) /\ f \in Seq(AllSteps)
    <3>1. PICK s1, s2, s3, s4, s5 :
            /\ s1 = Step("roots", "") /\ s2 = Step("zero", "") /\ s3 = Step("coefs", "")
            /\ s4 = Step("product", "") /\ s5 = Step("abc", "")
      OBVIOUS
    <3>2. /\ s1 \in AllSteps /\ s2 \in AllSteps /\ s3 \in AllSteps
          /\ s4 \in AllSteps /\ s5 \in AllSteps
      BY <1>1, <3>1 DEF Ops
    <3>3. r = <<s1>> /\ m = <<s2, s3, s4>> /\ f = <<s5>>
      BY <2>1, <3>1
    <3>4. /\ <<s1>> \in Seq(AllSteps) /\ <<s5>> \in Seq(AllSteps)
          /\ <<s2, s3, s4>> \in Seq(AllSteps)
      BY <3>2
    <3> QED
      BY <3>3, <3>4
  <2>3. h \in Seq(AllSteps)
    BY <2>1, SumSteps
  <2>4. PICK q : q = r \o Msm("A") \o Msm("B1") \o Msm("B2") \o Msm("C")
    OBVIOUS
  <2>5. q \in Seq(AllSteps)
    BY <2>2, <2>4, SumSteps
  <2>6. q \o m \o Shifted("a") \o Shifted("b") \o Shifted("c") \in Seq(AllSteps)
    BY <2>2, <2>5, TransformSteps
  <2>7. q \o m \o Shifted("a") \o Shifted("b") \o Shifted("c") \o f \o h \in Seq(AllSteps)
    BY <2>2, <2>3, <2>6
  <2> QED
    BY <1>2, <2>1, <2>4, <2>7
<1>4. PICK last : last = Step("assemble", "")
  OBVIOUS
<1>5. last \in AllSteps /\ last.op = "assemble"
  <2>1. last \in AllSteps
    BY <1>1, <1>4 DEF Ops
  <2>2. last.op = "assemble"
    BY <1>4 DEF Step
  <2> QED
    BY <2>1, <2>2
<1>6. Prove = P \o <<last>>
  BY <1>2, <1>4 DEF Prove
<1>7. /\ P \o <<last>> \in Seq(AllSteps) /\ Len(P \o <<last>>) = Len(P) + 1
      /\ (P \o <<last>>)[Len(P) + 1] = last
      /\ Len(P) \in Nat
  BY <1>3, <1>5
<1> QED
  BY <1>5, <1>6, <1>7

LEMMA NowIsStep ==
  ASSUME StepsOK
  PROVE  Now \in AllSteps
  BY DEF StepsOK, Now

LEMMA NextStepOK ==
  ASSUME StepsOK, Now.op # "assemble", steps' = Tail(steps)
  PROVE  StepsOK'
<1>1. PICK n \in Nat : n = Len(steps) /\ n >= 1
  BY DEF StepsOK
<1>2. n # 1
  BY <1>1 DEF StepsOK, Now
<1>3. /\ steps' \in Seq(AllSteps) /\ Len(steps') = n - 1
      /\ steps'[n - 1] = steps[n]
  BY <1>1, <1>2 DEF StepsOK
<1> QED
  BY <1>1, <1>2, <1>3 DEF StepsOK

-----------------------------------------------------------------------------
(* The steps of the loops                                                  *)

LEMMA InvariantInitially == Init => IInv
<1> SUFFICES ASSUME Init PROVE IInv
  OBVIOUS
<1>1. steps = Prove /\ caller = NoCall /\ Busy = {} /\ cell = <<>>
  BY DEF Init, Pool!Init, Busy
<1>2. StepsOK
  BY <1>1, ProveSteps DEF StepsOK
<1>3. PoolOK /\ RootsOK
  BY <1>1, ProverAssumption DEF PoolOK, RootsOK
<1>4. LocksOK
  BY <1>1 DEF LocksOK
<1> QED
  BY <1>2, <1>3, <1>4 DEF IInv

\* What the elements of a loop are depends on the key and the step only.
LEMMA ElementsKept ==
  ASSUME UNCHANGED <<inputs, steps>>
  PROVE  /\ Now' = Now /\ ElementsOf(Now)' = ElementsOf(Now)
         /\ \A i : Coef(i)' = Coef(i)
         /\ StepsOK => StepsOK'
<1>1. Now' = Now
  BY DEF Now
<1>2. \A x : Points(x)' = Points(x)
  BY DEF Points, inputs
<1>3. ElementsOf(Now)' = ElementsOf(Now)
  BY <1>1, <1>2 DEF ElementsOf, Bits, inputs
<1>4. \A i : Coef(i)' = Coef(i)
  BY DEF Coef, inputs
<1> QED
  BY <1>1, <1>3, <1>4 DEF StepsOK

LEMMA EnterLoopKeeps ==
  ASSUME IInv, EnterLoop
  PROVE  IInv'
<1>1. /\ Now.op \notin Serial /\ caller = NoCall /\ caller' = Main
      /\ todo' = ElementsOf(Now) /\ active' = active
      /\ UNCHANGED <<inputs, steps, cell, local>>
  BY DEF EnterLoop, Pool!Enter
<1>2. Busy = {} /\ Busy' = {}
  BY <1>1 DEF IInv, PoolOK, Busy
<1>3. PoolOK' /\ RootsOK'
  BY <1>1, <1>2, ElementsKept, ProverAssumption DEF PoolOK, RootsOK
<1>4. LocksOK'
  BY <1>1, <1>2 DEF IInv, LocksOK
<1> QED
  BY <1>1, <1>3, <1>4, ElementsKept DEF IInv

LEMMA BeginElementKeeps ==
  ASSUME IInv, NEW id \in 0..NThreads-1, NEW i \in todo, BeginElement(id, i)
  PROVE  IInv'
<1>1. /\ caller = Main /\ caller' = Main /\ id \notin Busy
      /\ todo' = todo \ {i}
      /\ active' = [d \in Busy \cup {id} |-> IF d = id THEN i ELSE active[d]]
      /\ Now.op = "roots" => i = id
      /\ local' = With(local, id, Read(Now, i))
      /\ UNCHANGED <<inputs, steps, cell>>
  BY DEF BeginElement, Pool!Start, Pool!Busy, Busy
<1>2. /\ Now' = Now /\ ElementsOf(Now)' = ElementsOf(Now)
      /\ \A k : Coef(k)' = Coef(k)
      /\ StepsOK'
  BY <1>1, ElementsKept DEF IInv
<1>3. /\ Busy' = Busy \cup {id} /\ active'[id] = i
      /\ \A d \in Busy : active'[d] = active[d]
  BY <1>1 DEF Busy
<1>4. PoolOK'
  BY <1>1, <1>2, <1>3, ProverAssumption DEF IInv, PoolOK
<1>5. LocksOK'
  <2>1. DOMAIN cell \subseteq Busy
    BY DEF IInv, LocksOK
  <2>2. \A d \in DOMAIN cell : active'[d] = active[d]
    BY <1>3, <2>1
  <2> QED
    BY <1>1, <1>2, <1>3, <2>1, <2>2 DEF IInv, LocksOK
<1>6. RootsOK'
  <2>1. SUFFICES ASSUME Now.op = "roots"
                 PROVE  \A d \in Busy' : /\ active'[d] = d /\ d \in DOMAIN local'
                                         /\ local'[d] \in Nat
                                         /\ local'[d] >= BlockStart(NThreads, d)
    BY <1>2 DEF RootsOK
  <2>2. /\ DOMAIN local' = DOMAIN local \cup {id} /\ local'[id] = Read(Now, i)
        /\ \A d \in DOMAIN local : d # id => local'[d] = local[d]
    BY <1>1 DEF With
  <2>3. i = id /\ Read(Now, i) = BlockStart(NThreads, id)
    BY <1>1, <2>1 DEF Read
  <2>4. BlockStart(NThreads, id) \in Nat
    BY BlocksInNat
  <2>5. /\ active'[id] = id /\ id \in DOMAIN local'
        /\ local'[id] \in Nat /\ local'[id] >= BlockStart(NThreads, id)
    BY <1>3, <2>2, <2>3, <2>4
  <2>6. ASSUME NEW d \in Busy
        PROVE  /\ active'[d] = d /\ d \in DOMAIN local'
               /\ local'[d] \in Nat /\ local'[d] >= BlockStart(NThreads, d)
    BY <1>1, <1>3, <2>1, <2>2 DEF IInv, RootsOK
  <2> QED
    BY <1>3, <2>5, <2>6
<1> QED
  BY <1>2, <1>4, <1>5, <1>6 DEF IInv

LEMMA LockCellKeeps ==
  ASSUME IInv, NEW id \in 0..NThreads-1, LockCell(id)
  PROVE  IInv'
<1>1. /\ id \in Busy \ DOMAIN cell
      /\ Coef(active[id]).c % NLocks \notin Locked
      /\ DOMAIN cell' = DOMAIN cell \cup {id}
      /\ UNCHANGED <<inputs, steps, local, caller, todo, active>>
  BY DEF LockCell, With
<1>2. /\ Now' = Now /\ ElementsOf(Now)' = ElementsOf(Now)
      /\ \A k : Coef(k)' = Coef(k)
      /\ StepsOK' /\ Busy' = Busy
  BY <1>1, ElementsKept DEF IInv, Busy
<1>3. PoolOK' /\ RootsOK'
  BY <1>1, <1>2 DEF IInv, PoolOK, RootsOK
<1>4. LocksOK'
  <2>1. \A d \in DOMAIN cell : Coef(active[d]).c % NLocks # Coef(active[id]).c % NLocks
    BY <1>1 DEF Locked
  <2> QED
    BY <1>1, <1>2, <2>1 DEF IInv, LocksOK
<1> QED
  BY <1>2, <1>3, <1>4 DEF IInv

LEMMA NextRootKeeps ==
  ASSUME IInv, NEW id \in 0..NThreads-1, NextRoot(id)
  PROVE  IInv'
<1>1. /\ Now.op = "roots" /\ id \in Busy
      /\ local' = [local EXCEPT ![id] = @ + 1]
      /\ UNCHANGED <<inputs, steps, cell, caller, todo, active>>
  BY DEF NextRoot
<1>2. /\ Now' = Now /\ ElementsOf(Now)' = ElementsOf(Now)
      /\ \A k : Coef(k)' = Coef(k)
      /\ StepsOK' /\ Busy' = Busy
  BY <1>1, ElementsKept DEF IInv, Busy
<1>3. PoolOK' /\ LocksOK'
  BY <1>1, <1>2 DEF IInv, PoolOK, LocksOK
<1>4. RootsOK'
  <2>1. \A d \in Busy : /\ active[d] = d /\ d \in DOMAIN local
                        /\ local[d] \in Nat /\ local[d] >= BlockStart(NThreads, d)
                        /\ BlockStart(NThreads, d) \in Nat
    BY <1>1, BlocksInNat DEF IInv, RootsOK, PoolOK
  <2>2. DOMAIN local' = DOMAIN local
    BY <1>1
  <2>3. \A d \in Busy : local'[d] = IF d = id THEN local[d] + 1 ELSE local[d]
    BY <1>1, <2>1
  <2>4. \A d \in Busy : local'[d] \in Nat /\ local'[d] >= BlockStart(NThreads, d)
    BY <2>1, <2>3
  <2> QED
    BY <1>1, <1>2, <2>1, <2>2, <2>4 DEF RootsOK
<1> QED
  BY <1>2, <1>3, <1>4 DEF IInv

LEMMA EndElementKeeps ==
  ASSUME IInv, NEW id \in 0..NThreads-1, EndElement(id)
  PROVE  IInv'
<1>1. /\ id \in Busy
      /\ active' = [d \in Busy \ {id} |-> active[d]]
      /\ local' = Without(local, id) /\ cell' = Without(cell, id)
      /\ UNCHANGED <<inputs, steps, caller, todo>>
  BY DEF EndElement, Pool!Finish, Pool!Busy, Busy
<1>2. /\ Now' = Now /\ ElementsOf(Now)' = ElementsOf(Now)
      /\ \A k : Coef(k)' = Coef(k)
      /\ StepsOK'
  BY <1>1, ElementsKept DEF IInv
<1>3. Busy' = Busy \ {id} /\ \A d \in Busy' : active'[d] = active[d]
  BY <1>1 DEF Busy
<1>4. /\ DOMAIN local' = DOMAIN local \ {id} /\ \A d \in DOMAIN local' : local'[d] = local[d]
      /\ DOMAIN cell' = DOMAIN cell \ {id}
  BY <1>1 DEF Without, Restrict
<1>5. PoolOK'
  BY <1>1, <1>2, <1>3 DEF IInv, PoolOK
<1>6. LocksOK'
  <2>1. DOMAIN cell' \subseteq Busy'
    BY <1>3, <1>4 DEF IInv, LocksOK
  <2>2. \A d \in DOMAIN cell' : d \in DOMAIN cell /\ active'[d] = active[d]
    BY <1>3, <1>4, <2>1
  <2> QED
    BY <1>2, <2>1, <2>2 DEF IInv, LocksOK
<1>7. RootsOK'
  BY <1>2, <1>3, <1>4 DEF IInv, RootsOK
<1> QED
  BY <1>2, <1>5, <1>6, <1>7 DEF IInv

-----------------------------------------------------------------------------
(* The steps between the loops                                             *)

LEMMA NextStepKeeps ==
  ASSUME IInv, Now.op # "assemble", Busy = {}, steps' = Tail(steps), caller' = NoCall,
         UNCHANGED <<cell, active>>
  PROVE  IInv'
<1>1. StepsOK'
  BY NextStepOK DEF IInv
<1>2. Busy' = {}
  BY DEF Busy
<1>3. PoolOK' /\ RootsOK'
  BY <1>2, ProverAssumption DEF PoolOK, RootsOK
<1>4. LocksOK'
  BY <1>2 DEF IInv, LocksOK
<1> QED
  BY <1>1, <1>3, <1>4 DEF IInv

LEMMA LeaveLoopKeeps ==
  ASSUME IInv, LeaveLoop
  PROVE  IInv'
<1>1. /\ caller # NoCall /\ Busy = {} /\ caller' = NoCall
      /\ steps' = Tail(steps) /\ UNCHANGED <<cell, active>>
  BY DEF LeaveLoop, Pool!Return, Pool!Busy, Busy
<1>2. Now.op # "assemble"
  BY <1>1 DEF IInv, PoolOK, Serial
<1> QED
  BY <1>1, <1>2, NextStepKeeps

LEMMA FinishSumKeeps ==
  ASSUME IInv, FinishSum
  PROVE  IInv'
<1>1. /\ Now.op \in {"few", "combine"} /\ caller = NoCall /\ caller' = NoCall
      /\ steps' = Tail(steps) /\ UNCHANGED <<cell, active>>
  BY DEF FinishSum
<1>2. Now.op # "assemble" /\ Busy = {}
  BY <1>1 DEF IInv, PoolOK
<1> QED
  BY <1>1, <1>2, NextStepKeeps

LEMMA ScaleEndsKeeps ==
  ASSUME IInv, ScaleEnds
  PROVE  IInv'
<1>1. /\ Now.op = "scale" /\ caller = NoCall /\ caller' = NoCall
      /\ steps' = Tail(steps) /\ UNCHANGED <<cell, active>>
  BY DEF ScaleEnds
<1>2. Now.op # "assemble" /\ Busy = {}
  BY <1>1 DEF IInv, PoolOK
<1> QED
  BY <1>1, <1>2, NextStepKeeps

LEMMA OthersKeep ==
  ASSUME IInv, UNCHANGED <<inputs, steps, local, cell, caller, todo, active>>
  PROVE  IInv'
<1>1. /\ Now' = Now /\ ElementsOf(Now)' = ElementsOf(Now)
      /\ \A k : Coef(k)' = Coef(k)
      /\ StepsOK' /\ Busy' = Busy
  BY ElementsKept DEF IInv, Busy
<1>2. PoolOK'
  BY <1>1 DEF IInv, PoolOK
<1>3. LocksOK'
  BY <1>1 DEF IInv, LocksOK
<1>4. RootsOK'
  BY <1>1 DEF IInv, RootsOK
<1> QED
  BY <1>1, <1>2, <1>3, <1>4 DEF IInv

-----------------------------------------------------------------------------
(* The theorems *)

\* While a loop of groth16.cpp, fft.cpp or msm.hpp runs, its threads are at
\* different elements, hold different locks and are in their own parts of the
\* table of roots.
THEOREM Invariant == Spec => []IInv
<1>1. IInv /\ [Next]_vars => IInv'
  <2> SUFFICES ASSUME IInv, [Next]_vars PROVE IInv'
    OBVIOUS
  <2>1. CASE EnterLoop
    BY <2>1, EnterLoopKeeps
  <2>2. CASE LeaveLoop
    BY <2>2, LeaveLoopKeeps
  <2>3. ASSUME NEW id \in 0..NThreads-1,
               LockCell(id) \/ NextRoot(id) \/ EndElement(id) \/ \E i \in todo : BeginElement(id, i)
        PROVE  IInv'
    BY <2>3, LockCellKeeps, NextRootKeeps, EndElementKeeps, BeginElementKeeps
  <2>4. CASE FinishSum
    BY <2>4, FinishSumKeeps
  <2>5. CASE ScaleEnds
    BY <2>5, ScaleEndsKeeps
  <2>6. ASSUME NEW r \in Blinds, NEW s \in Blinds, Assemble(r, s) PROVE IInv'
    BY <2>6, OthersKeep DEF Assemble
  <2>7. CASE Returned
    BY <2>7, OthersKeep DEF Returned, vars
  <2>8. CASE UNCHANGED vars
    BY <2>8, OthersKeep DEF vars
  <2> QED
    BY <2>1, <2>2, <2>3, <2>4, <2>5, <2>6, <2>7, <2>8 DEF Next
<1> QED
  BY <1>1, InvariantInitially, PTL DEF Spec

LEMMA CellsApart ==
  ASSUME NEW step \in AllSteps, step.op \notin {"roots", "coefs"},
         NEW i \in ElementsOf(step), NEW j \in ElementsOf(step), i # j
  PROVE  Apart(Cells(step, i), Cells(step, j))
<1>1. CASE step.op = "reverse"
  <2>1. i \in 0..DomainSize-1 /\ j \in 0..DomainSize-1
    BY <1>1 DEF ElementsOf
  <2>2. Cells(step, i) = ReversePair(i) /\ Cells(step, j) = ReversePair(j)
    BY <1>1 DEF Cells
  <2> QED
    BY <2>1, <2>2, ReversePairsApart
<1>2. CASE step.op = "stage"
  <2>1. i \in 0..(DomainSize \div 2)-1 /\ j \in 0..(DomainSize \div 2)-1
    BY <1>2 DEF ElementsOf
  <2>2. i \in Nat /\ j \in Nat
    BY <2>1, MathAssumption
  <2>3. PICK s : s = step.stage
    OBVIOUS
  <2>4. s \in 0..Log2(DomainSize) /\ s # 0
    BY <1>2, <2>3 DEF AllSteps
  <2>5. s \in 1..Log2(DomainSize)
    BY <2>4, LogOfDomain, MathAssumption
  <2>6. Cells(step, i) = ButterflyPair(s, i) /\ Cells(step, j) = ButterflyPair(s, j)
    BY <1>2, <2>3 DEF Cells
  <2> QED
    BY <2>2, <2>5, <2>6, ButterflyPairsApart
<1>3. CASE step.op = "unscramble"
  <2>1. i \in 1..(DomainSize \div 2)-1 /\ j \in 1..(DomainSize \div 2)-1
    BY <1>3 DEF ElementsOf
  <2>2. Cells(step, i) = UnscramblePair(i) /\ Cells(step, j) = UnscramblePair(j)
    BY <1>3 DEF Cells
  <2> QED
    BY <2>1, <2>2, UnscramblePairsApart
<1>4. CASE step.op \notin {"reverse", "stage", "unscramble"}
  <2>1. Cells(step, i) = <<i>> /\ Cells(step, j) = <<j>>
    BY <1>4 DEF Cells
  <2> QED
    BY <2>1 DEF Apart
<1> QED
  BY <1>1, <1>2, <1>3, <1>4

LEMMA RootsApart ==
  ASSUME IInv, Now.op = "roots",
         NEW d \in Busy, NEW e \in Busy, d < e
  PROVE  Touched(d) \cap Touched(e) = {}
<1>1. /\ d \in 0..NThreads-1 /\ e \in 0..NThreads-1
      /\ local[d] \in Nat /\ local[e] \in Nat /\ local[e] >= BlockStart(NThreads, e)
  BY DEF IInv, PoolOK, RootsOK
<1>2. /\ BlockEnd(NThreads, d) \in Nat /\ BlockStart(NThreads, e) \in Nat
      /\ BlockEnd(NThreads, d) <= BlockStart(NThreads, e)
  BY <1>1, BlocksApart, BlocksInNat
<1>3. \A x \in Touched(d) : x = <<"roots", local[d]>> /\ local[d] < BlockEnd(NThreads, d)
  BY <1>1, <1>2 DEF Touched
<1>4. \A x \in Touched(e) : x = <<"roots", local[e]>>
  BY DEF Touched
<1> QED
  BY <1>1, <1>2, <1>3, <1>4

\* No thread of a loop of the Groth16 prover reads or writes a cell that
\* another one may be writing: reversePermutation's pairs, the butterflies of
\* fft, the exchanges at the end of ifft, the parts of the table of roots, and
\* the cells under the locks of the loop over the coefficients.
THEOREM LoopsNeverRace == Spec => []LoopsAreRaceFree
<1>1. IInv => LoopsAreRaceFree
  <2> SUFFICES ASSUME IInv, NEW d \in Busy, NEW e \in Busy, d # e
               PROVE  Touched(d) \cap Touched(e) = {}
    BY DEF LoopsAreRaceFree
  <2>1. CASE Now.op = "coefs"
    <3>1. SUFFICES ASSUME d \in DOMAIN cell, e \in DOMAIN cell
                   PROVE  Touched(d) \cap Touched(e) = {}
      BY <2>1 DEF Touched
    <3>2. Coef(active[d]).c # Coef(active[e]).c
      BY <3>1 DEF IInv, LocksOK
    <3> QED
      BY <2>1, <3>1, <3>2 DEF Touched
  <2>2. CASE Now.op = "roots"
    <3>1. d < e \/ e < d
      BY ProverAssumption DEF IInv, PoolOK
    <3> QED
      BY <2>2, <3>1, RootsApart
  <2>3. CASE Now.op \notin {"coefs", "roots"}
    <3>1. Now \in AllSteps
      BY NowIsStep DEF IInv
    <3>2. /\ active[d] \in ElementsOf(Now) /\ active[e] \in ElementsOf(Now)
          /\ active[d] # active[e]
      BY DEF IInv, PoolOK
    <3>3. Apart(Cells(Now, active[d]), Cells(Now, active[e]))
      BY <2>3, <3>1, <3>2, CellsApart
    <3> QED
      BY <2>3, <3>3 DEF Touched, Apart
  <2> QED
    BY <2>1, <2>2, <2>3
<1> QED
  BY <1>1, Invariant, PTL
=============================================================================
