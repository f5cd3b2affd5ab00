--------------------------- MODULE Groth16Circuits --------------------------
(***************************************************************************)
(* What the prover is given: constraint systems, witnesses and the keys    *)
(* snarkjs makes for them, none of which is code of this repository.  The  *)
(* keys are modelled from how groth16.cpp uses their parts.                *)
(*                                                                         *)
(* A circuit has signals 0..nVars-1, the constant one first and nPublic    *)
(* public ones after it, and DomainSize constraints: at each, the signals' *)
(* values with the rows of A and of B multiply to the value with the row   *)
(* of C.  A row is a function from some of the signals to coefficients.    *)
(***************************************************************************)
EXTENDS Groth16Math, Pairing

CONSTANTS
  Circuits,                        \* the constraint systems
  G1One, G2One,                    \* the generators of the groups
  Alpha, Beta, Gamma, Delta, Tau   \* what the ceremony threw away

\* The groups: multiple k of the generator at k + 1.
G1Points == G1!Multiples(G1One, Prime)
G2Points == G2!Multiples(G2One, Prime)

\* The scalar field's modulus is the order of the groups.
ASSUME GroupsAssumption ==
  /\ Prime = 36 * U^4 + 36 * U^3 + 18 * U^2 + 6 * U + 1
  /\ G1One # G1!ZeroAffine /\ G1!Law(G1Points[Prime], G1One) = G1!ZeroAffine
  /\ G2One # G2!ZeroAffine /\ G2!Law(G2Points[Prime], G2One) = G2!ZeroAffine

Entry(row, s) == IF s \in DOMAIN row THEN row[s] ELSE 0

\* A linear combination of the signals at every constraint.
Values(rows, w) ==
  [j \in 0..DomainSize-1 |-> SumOf(Len(w), LAMBDA s : Entry(rows[j], s) * w[s+1])]

Satisfied(circuit, w) ==
  \A j \in 0..DomainSize-1 :
    (Values(circuit.A, w)[j] * Values(circuit.B, w)[j]) % Prime = Values(circuit.C, w)[j]

\* The value at Tau of the polynomial with the given values on the domain, and
\* of the one that is 1 at root i of a domain twice as large and 0 at the others.
AtTau(values) == SumOf(DomainSize, LAMBDA k : Coefficients(values)[k] * PowMod(Tau, k))
Lagrange(i) ==
  LET omega == FromMontgomery(FirstRoot)
  IN  (InverseOf(NRoots) *
        SumOf(NRoots, LAMBDA k : PowMod(omega, (NRoots - i) * k) * PowMod(Tau, k))) % Prime

ColumnAtTau(rows, s) == AtTau([j \in 0..DomainSize-1 |-> Entry(rows[j], s)])

\* Of A and B one entry for each coefficient, multiplied by Radix twice.
CoefsOf(circuit) ==
  LET of(m, rows) == {[m |-> m, c |-> p[1], s |-> p[2],
                       coef |-> ToMontgomery(ToMontgomery(rows[p[1]][p[2]]))] :
                        p \in {q \in (0..DomainSize-1) \X (0..circuit.nVars-1) :
                                 q[2] \in DOMAIN rows[q[1]]}}
  IN  SetToSeq(of(0, circuit.A) \cup of(1, circuit.B))

\* The points of a key are given by their discrete logarithms, which nobody
\* knows; the files hold the points.
G1Point(log) == G1Points[(log % Prime) + 1]
G2Point(log) == G2Points[(log % Prime) + 1]

Setup(circuit) ==
  LET a == [s \in 0..circuit.nVars-1 |-> ColumnAtTau(circuit.A, s)]
      b == [s \in 0..circuit.nVars-1 |-> ColumnAtTau(circuit.B, s)]
      c == [s \in 0..circuit.nVars-1 |-> ColumnAtTau(circuit.C, s)]
      product(s) == Beta * a[s] + Alpha * b[s] + c[s]
      private == circuit.nVars - circuit.nPublic - 1
  IN  [nVars    |-> circuit.nVars,
       nPublic  |-> circuit.nPublic,
       coefs    |-> CoefsOf(circuit),
       pointsA  |-> a,
       pointsB  |-> b,
       pointsC  |-> [i \in 0..private-1 |-> (product(circuit.nPublic + 1 + i) * InverseOf(Delta)) % Prime],
       pointsH  |-> [i \in 0..DomainSize-1 |-> (Lagrange(2 * i + 1) * InverseOf(Delta)) % Prime],
       IC       |-> [i \in 0..circuit.nPublic |-> (product(i) * InverseOf(Gamma)) % Prime]]

=============================================================================
