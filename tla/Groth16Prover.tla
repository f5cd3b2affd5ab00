---------------------------- MODULE Groth16Prover ---------------------------
(***************************************************************************)
(* One proof by Prover<Engine>::prove (rapidsnark/src/groth16.cpp), loop   *)
(* by loop, over a pool that promises what ParallelCall says.              *)
(*                                                                         *)
(* The routine is a sequence of steps.  Some are loops of the pool, whose  *)
(* elements are spread over its threads: a thread reads what an element    *)
(* needs (BeginElement) and later writes its result (EndElement), and the  *)
(* threads do so in any order.  The others are the caller's own.  The same *)
(* step does the same work for each of the arrays and sums, as the same    *)
(* function does in the code.                                              *)
(***************************************************************************)
EXTENDS Groth16Circuits

CONSTANTS
  NThreads,   \* threads of the pool
  NLocks,     \* locks of the loop over the coefficients; 1024 in the code
  Witnesses,  \* pairs of a circuit and a witness
  Blinds,     \* what randombytes_buf may leave in r and s
  Garbage,    \* what memory holds before it is written
  Main, NoCall

ASSUME ProverAssumption ==
  /\ NThreads \in Nat \ {0} /\ NLocks \in Nat \ {0}
  /\ Blinds \subseteq Field /\ Garbage \in Field
  /\ Witnesses \subseteq Circuits \X Seq(Field)
  /\ Main # NoCall

VARIABLES
  circuit, wtns,         \* the constraints and the witness
  key,                   \* the circuit's key
  steps,                 \* what is left of prove, the step it is at first
  array,                 \* a, b and c
  roots,                 \* FFT's table
  sliced, rows, chunks,  \* the multi-scalar multiplication's slicedScalars, bucketMatrix and chunks
  sums,                  \* pi_a, pib1, pi_b, pi_c and pih
  local,                 \* thread number -> what it has read for its element
  cell,                  \* thread number -> the cell it has read under a lock
  proof,                 \* the proof, once there is one
  caller, todo, active   \* the pool

memory == <<array, roots, sliced, rows, chunks, sums>>
inputs == <<circuit, wtns, key>>
vars == <<inputs, steps, memory, local, cell, proof, caller, todo, active>>

Pool == INSTANCE ParallelCall WITH Callers <- {Main}, Loops <- {}
Busy == DOMAIN active

-----------------------------------------------------------------------------
(* The steps of prove *)

Step(op, on) == [op |-> op, on |-> on, stage |-> 0]

\* The scalars, the points and the number of points of each sum.
Scalars(x) ==
  CASE x = "C" -> [i \in 0..key.nVars-key.nPublic-2 |-> wtns[i + key.nPublic + 2]]
    [] x = "H" -> array["a"]
    [] OTHER   -> [i \in 0..key.nVars-1 |-> wtns[i+1]]
Logs(x) ==
  CASE x = "A" -> key.pointsA [] x \in {"B1", "B2"} -> key.pointsB
    [] x = "C" -> key.pointsC [] x = "H" -> key.pointsH
Bases(x) == [i \in DOMAIN Logs(x) |-> IF x = "B2" THEN G2Point(Logs(x)[i]) ELSE G1Point(Logs(x)[i])]
Points(x) ==
  CASE x = "C" -> key.nVars - key.nPublic - 1 [] x = "H" -> DomainSize [] OTHER -> key.nVars

\* MSM::run, which has no loops for fewer than two points.
Msm(x) ==
  IF Points(x) < 2 THEN <<Step("few", x)>>
  ELSE <<Step("slice", x), Step("chunk", x), Step("combine", x)>>

\* FFT::fft and FFT::ifft.
Fft(x) ==
  <<Step("reverse", x)>> \o [s \in 1..Log2(DomainSize) |-> [op |-> "stage", on |-> x, stage |-> s]]
Ifft(x) == Fft(x) \o <<Step("unscramble", x), Step("scale", x)>>

Shifted(x) == Ifft(x) \o <<Step("shift", x)>> \o Fft(x)

Prove ==
  <<Step("roots", "")>>
    \o Msm("A") \o Msm("B1") \o Msm("B2") \o Msm("C")
    \o <<Step("zero", ""), Step("coefs", ""), Step("product", "")>>
    \o Shifted("a") \o Shifted("b") \o Shifted("c")
    \o <<Step("abc", "")>> \o Msm("H") \o <<Step("assemble", "")>>

Now == Head(steps)
Bits(x) == BitsPerChunk(Points(x))

\* The elements a loop is called for.
ElementsOf(step) ==
  CASE step.op = "roots"      -> 0..NThreads-1
    [] step.op = "slice"      -> 0..Points(step.on)-1
    [] step.op = "chunk"      -> 0..ChunkCount(Bits(step.on))-1
    [] step.op = "coefs"      -> 0..Len(key.coefs)-1
    [] step.op = "stage"      -> 0..(DomainSize \div 2)-1
    [] step.op = "unscramble" -> 1..(DomainSize \div 2)-1
    [] OTHER                  -> 0..DomainSize-1

Serial == {"few", "combine", "scale", "assemble"}

-----------------------------------------------------------------------------
(* The elements of the loops *)

\* Entry i of the coefficients and the array it belongs to.
Coef(i) == key.coefs[i+1]
Target(i) == IF Coef(i).m = 0 THEN "a" ELSE "b"

\* The cells of the array that an element of the transform works on.
Cells(step, i) ==
  CASE step.op = "reverse"    -> ReversePair(i)
    [] step.op = "stage"      -> ButterflyPair(step.stage, i)
    [] step.op = "unscramble" -> UnscramblePair(i)
    [] OTHER                  -> <<i>>

\* What element i has computed before it writes.
Read(step, i) ==
  LET x == array[step.on]
      p == Cells(step, i)
  IN
  CASE step.op = "slice"      -> SliceScalar(Scalars(step.on)[i], Bits(step.on))
    [] step.op = "zero"       -> 0
    [] step.op = "coefs"      -> Mul(wtns[Coef(i).s + 1], Coef(i).coef)
    [] step.op = "product"    -> Mul(array["a"][i], array["b"][i])
    [] step.op = "reverse"    -> IF p = <<>> THEN <<>> ELSE <<x[p[2]], x[p[1]]>>
    [] step.op = "stage"      ->
         LET t == Mul(Root(roots, step.stage, ButterflyRoot(step.stage, i)), x[p[2]])
         IN  <<Add(t, x[p[1]]), Sub(x[p[1]], t)>>
    [] step.op = "unscramble" ->
         LET k == PowTwoInv(Log2(DomainSize)) IN <<Mul(x[p[2]], k), Mul(x[p[1]], k)>>
    [] step.op = "shift"      -> <<Mul(x[i], Root(roots, Log2(DomainSize) + 1, i))>>
    [] step.op = "abc"        -> FromMontgomery(Sub(Mul(array["a"][i], array["b"][i]), array["c"][i]))
    [] step.op = "roots"      -> BlockStart(NThreads, i)
    [] step.op = "chunk"      -> i

\* The arrays after thread id's element i.
Written(step, id, i) ==
  LET p == Cells(step, i) IN
  CASE step.op = "zero"    -> [array EXCEPT !["a"][i] = 0, !["b"][i] = 0]
    [] step.op = "coefs"   -> [array EXCEPT ![Target(i)][Coef(i).c] = Add(cell[id], local[id])]
    [] step.op = "product" -> [array EXCEPT !["c"][i] = local[id]]
    [] step.op = "abc"     -> [array EXCEPT !["a"][i] = local[id]]
    [] step.op \in {"reverse", "stage", "unscramble", "shift"} ->
         [array EXCEPT ![step.on] = [k \in 0..DomainSize-1 |->
            IF \E m \in DOMAIN p : p[m] = k
            THEN local[id][CHOOSE m \in DOMAIN p : p[m] = k] ELSE @[k]]]
    [] OTHER               -> array

-----------------------------------------------------------------------------
(* The curve a sum is on *)

Filled(x, digits) ==
  LET n == BucketCount(Bits(x)) IN
  IF x = "B2" THEN G2!FillBuckets(digits, Bases(x), Points(x), n) ELSE G1!FillBuckets(digits, Bases(x), Points(x), n)
Summed(x, buckets) ==
  LET n == BucketCount(Bits(x)) IN IF x = "B2" THEN G2!SumBuckets(buckets, n) ELSE G1!SumBuckets(buckets, n)
Combined(x) ==
  LET n == ChunkCount(Bits(x)) IN
  IF x = "B2" THEN G2!CombineChunks(chunks, n, Bits(x)) ELSE G1!CombineChunks(chunks, n, Bits(x))

\* MSM::run for no point and for one.
Few(x) ==
  CASE Points(x) = 0 -> IF x = "B2" THEN G2!Zero ELSE G1!Zero
    [] Points(x) = 1 -> LET digits == NafDigits(Scalars(x)[0]) IN
         IF x = "B2" THEN G2!MulAffineByScalar(Bases(x)[0], digits) ELSE G1!MulAffineByScalar(Bases(x)[0], digits)

-----------------------------------------------------------------------------
NoRows == [id \in 0..NThreads-1 |-> <<>>]

Init ==
  /\ \E w \in Witnesses : circuit = w[1] /\ wtns = w[2]
  /\ key = Setup(circuit)
  /\ steps = Prove
  /\ array = [x \in {"a", "b", "c"} |-> [i \in 0..DomainSize-1 |-> Garbage]]
  /\ roots = [i \in 0..NRoots-1 |-> CASE i = 0 -> ToMontgomery(1) [] i = 1 -> FirstRoot [] OTHER -> Garbage]
  /\ sliced = <<>> /\ rows = NoRows /\ chunks = <<>>
  /\ sums = [x \in {"A", "B1", "B2", "C", "H"} |-> Garbage]
  /\ local = <<>> /\ cell = <<>>
  /\ proof = <<>>
  /\ Pool!Init

With(f, id, x)  == [d \in DOMAIN f \cup {id} |-> IF d = id THEN x ELSE f[d]]
Without(f, id) == Restrict(f, DOMAIN f \ {id})

\* parallelFor and parallelBlock are called; the multi-scalar multiplication
\* allocates its tables before.
EnterLoop ==
  /\ Now.op \notin Serial
  /\ Pool!Enter(Main, ElementsOf(Now))
  /\ sliced' = IF Now.op = "slice" THEN [i \in ElementsOf(Now) |-> <<>>] ELSE sliced
  /\ chunks' = IF Now.op = "chunk" THEN [j \in ElementsOf(Now) |-> Garbage] ELSE chunks
  /\ UNCHANGED <<inputs, steps, array, roots, rows, sums, local, cell, proof>>

\* Thread id takes an element.  In a block every thread has its own; in the
\* loop over the chunks the thread's row of buckets is cleared and filled.
BeginElement(id, i) ==
  /\ caller = Main
  /\ Pool!Start(id, i)
  /\ Now.op = "roots" => i = id
  /\ local' = With(local, id, Read(Now, i))
  /\ rows' = IF Now.op = "chunk"
             THEN [rows EXCEPT ![id] = Filled(Now.on, [k \in DOMAIN sliced |-> sliced[k][i]])]
             ELSE rows
  /\ UNCHANGED <<inputs, steps, array, roots, sliced, chunks, sums, cell, proof>>

\* Mutation of Locked: the locks keep nobody out.
LockedNever == {}

\* In the loop over the coefficients the lock of the cell is taken and the cell
\* read.
Locked == {Coef(active[id]).c % NLocks : id \in DOMAIN cell}
LockCell(id) ==
  /\ Now.op = "coefs" /\ id \in Busy \ DOMAIN cell
  /\ LET c == Coef(active[id]).c IN
       /\ c % NLocks \notin Locked
       /\ cell' = With(cell, id, array[Target(active[id])][c])
  /\ UNCHANGED <<inputs, steps, memory, local, proof, caller, todo, active>>

\* In the block of FFT's constructor a thread fills the next entry of its part.
NextRoot(id) ==
  /\ Now.op = "roots" /\ id \in Busy
  /\ local[id] < BlockEnd(NThreads, id)
  /\ roots' = [roots EXCEPT ![local[id]] = RootAt(roots, local[id], BlockStart(NThreads, id))]
  /\ local' = [local EXCEPT ![id] = @ + 1]
  /\ UNCHANGED <<inputs, steps, array, sliced, rows, chunks, sums, cell, proof, caller, todo, active>>

\* Thread id writes the result of its element, and gives a lock back.
EndElement(id) ==
  /\ Pool!Finish(id)
  /\ Now.op = "coefs" => id \in DOMAIN cell
  /\ Now.op = "roots" => local[id] >= BlockEnd(NThreads, id)
  /\ array' = Written(Now, id, active[id])
  /\ sliced' = IF Now.op = "slice" THEN [sliced EXCEPT ![active[id]] = local[id]] ELSE sliced
  /\ chunks' = IF Now.op = "chunk"
               THEN [chunks EXCEPT ![local[id]] = Summed(Now.on, rows[id])] ELSE chunks
  /\ local' = Without(local, id)
  /\ cell' = Without(cell, id)
  /\ UNCHANGED <<inputs, steps, roots, rows, sums, proof>>

LeaveLoop ==
  /\ Pool!Return
  /\ steps' = Tail(steps)
  /\ UNCHANGED <<inputs, memory, local, cell, proof>>

\* The end of a sum; the multiplication's tables are freed.
FinishSum ==
  /\ Now.op \in {"few", "combine"} /\ caller = NoCall
  /\ LET x == Now.on IN
       sums' = [sums EXCEPT ![x] = IF Now.op = "few" THEN Few(x) ELSE Combined(x)]
  /\ sliced' = <<>> /\ rows' = NoRows /\ chunks' = <<>>
  /\ steps' = Tail(steps)
  /\ UNCHANGED <<inputs, array, roots, local, cell, proof, caller, todo, active>>

\* The end of ifft, for the cells its loop leaves out.
ScaleEnds ==
  /\ Now.op = "scale" /\ caller = NoCall
  /\ array' = [array EXCEPT ![Now.on] = [i \in 0..DomainSize-1 |->
                 IF i \in {0, DomainSize \div 2} THEN Mul(@[i], PowTwoInv(Log2(DomainSize))) ELSE @[i]]]
  /\ steps' = Tail(steps)
  /\ UNCHANGED <<inputs, roots, sliced, rows, chunks, sums, local, cell, proof, caller, todo, active>>

\* Mutation of BlindProduct: the product is left as it is.
BlindProductLost(r, s) == Mul(r, s)

\* r * s as a scalar: the product of two numbers not in Montgomery form, back
\* from what it lost.
BlindProduct(r, s) == ToMontgomery(Mul(r, s))

Assemble(r, s) ==
  /\ Now.op = "assemble" /\ proof = <<>>
  /\ LET delta1(k) == G1!MulAffineByScalar(G1Point(Delta), NafDigits(k))
         delta2(k) == G2!MulAffineByScalar(G2Point(Delta), NafDigits(k))
         a == G1!Add(G1!AddMixed(sums["A"], G1Point(Alpha)), delta1(r))
         b == G2!Add(G2!AddMixed(sums["B2"], G2Point(Beta)), delta2(s))
         b1 == G1!Add(G1!AddMixed(sums["B1"], G1Point(Beta)), delta1(s))
         c == G1!Add(G1!Add(G1!Add(sums["C"], sums["H"]), G1!MulByScalar(a, NafDigits(s))),
                     G1!MulByScalar(b1, NafDigits(r)))
     IN  proof' = [A |-> G1!ToAffine(a), B |-> G2!ToAffine(b),
                   C |-> G1!ToAffine(G1!Sub(c, delta1(BlindProduct(r, s))))]
  /\ UNCHANGED <<inputs, steps, memory, local, cell, caller, todo, active>>

\* prove has returned; no other state may be without a next one.
Returned == proof # <<>> /\ UNCHANGED vars

Next ==
  \/ EnterLoop \/ LeaveLoop
  \/ \E id \in 0..NThreads-1 :
       LockCell(id) \/ NextRoot(id) \/ EndElement(id) \/ \E i \in todo : BeginElement(id, i)
  \/ FinishSum \/ ScaleEnds
  \/ \E r, s \in Blinds : Assemble(r, s)
  \/ Returned

Spec == Init /\ [][Next]_vars

-----------------------------------------------------------------------------
(* The verifier: Verifier<Engine>::verify (groth16.cpp) *)

Verify(p, public) ==
  LET IC(i) == G1Point(key.IC[i])
      vkX == G1!AddMixed(
               FoldLeft(LAMBDA sum, i : G1!Add(sum, G1!MulAffineByScalar(IC(i), NafDigits(FromMontgomery(public[i])))),
                        G1!Zero, [i \in DOMAIN public |-> i]),
               IC(0))
  IN  PairingCheck(<<G1!FromAffine(p.A), G1!NegToPoint(G1Point(Alpha)), G1!Neg(vkX), G1!NegToPoint(p.C)>>,
                   <<G2!FromAffine(p.B), G2!FromAffine(G2Point(Beta)),
                     G2!FromAffine(G2Point(Gamma)), G2!FromAffine(G2Point(Delta))>>)

-----------------------------------------------------------------------------
(* Properties *)

\* No thread reads or writes what another one may be writing: the pairs of the
\* permutation, of the butterflies and of the end of ifft are disjoint, the
\* parts of the table of roots too, but for its second entry, and a cell that
\* several coefficients are added to is under its lock.
Touched(id) ==
  LET i == active[id] IN
  CASE Now.op = "coefs" -> IF id \in DOMAIN cell THEN {<<Target(i), Coef(i).c>>} ELSE {}
    [] Now.op = "roots" -> {<<"roots", k>> : k \in {local[id]} \cap 2..BlockEnd(NThreads, id)-1}
    [] OTHER            -> {<<Now.on, k>> : k \in {Cells(Now, i)[m] : m \in DOMAIN Cells(Now, i)}}
LoopsAreRaceFree ==
  \A d, e \in Busy : d # e => Touched(d) \cap Touched(e) = {}

\* Every multi-scalar multiplication is the sum of its points, each times its
\* scalar, as a point of its curve: with signed digits, windows across bytes,
\* none or one point, and buckets where equal, opposite and zero points meet.
SumsAreExact ==
  \A x \in DOMAIN sums :
    (\A k \in DOMAIN steps : steps[k].on # x) =>
      LET dot == DotProduct(Scalars(x), Logs(x), Points(x)) IN
      IF x = "B2" THEN G2!Represents(sums[x], G2Point(dot)) ELSE G1!Represents(sums[x], G1Point(dot))

\* What a holds after ifft are the coefficients of the polynomial with A's
\* values, and before the quotient is formed the arrays hold the values of the
\* three polynomials halfway between the roots of the domain.
TransformsAreExact ==
  LET product == [j \in 0..DomainSize-1 |-> Values(circuit.A, wtns)[j] * Values(circuit.B, wtns)[j]]
      values(x) == CASE x = "a" -> Values(circuit.A, wtns) [] x = "b" -> Values(circuit.B, wtns)
                     [] x = "c" -> product
      mont(v) == [i \in 0..DomainSize-1 |-> ToMontgomery(v[i])]
  IN  caller = NoCall =>
        /\ Now.op = "shift" => array[Now.on] = mont(Coefficients(values(Now.on)))
        /\ Now.op = "abc" => \A x \in {"a", "b", "c"} : array[x] = mont(BetweenRoots(values(x)))

\* A proof is accepted with the witness's public signals, by the pairing check
\* on the points it has, exactly when the witness satisfies the circuit,
\* whatever the order of the threads and the random numbers, those that make a
\* point of the proof zero included.
AcceptedExactlyWhenSatisfied ==
  proof # <<>> =>
    (Verify(proof, [i \in 1..key.nPublic |-> ToMontgomery(wtns[i+1])]) <=> Satisfied(circuit, wtns))

=============================================================================
