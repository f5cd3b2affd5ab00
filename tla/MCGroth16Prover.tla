-------------------------- MODULE MCGroth16Prover ---------------------------
(* Instances of Groth16Prover for TLC. *)
EXTENDS Groth16Prover

\* The constraints of a circuit, those given and one for each public signal
\* and the constant one, as snarkjs adds them.
Rows(given, nPublic) ==
  [j \in 0..DomainSize-1 |->
     IF j < Len(given) THEN given[j+1]
     ELSE IF j - Len(given) <= nPublic THEN (j - Len(given)) :> 1 ELSE <<>>]
OnlyRows(given) == [j \in 0..DomainSize-1 |-> IF j < Len(given) THEN given[j+1] ELSE <<>>]

\* x * x * x = 27, with two private signals and no public one.
Cube ==
  [nPublic |-> 0, nVars |-> 3,
   A |-> Rows(<<1 :> 1, 2 :> 1>>, 0),
   B |-> OnlyRows(<<1 :> 1, 1 :> 1>>),
   C |-> OnlyRows(<<2 :> 1, 0 :> 27>>)]

\* out = x * x, with one private signal.
Square ==
  [nPublic |-> 1, nVars |-> 3,
   A |-> Rows(<<2 :> 1>>, 1), B |-> OnlyRows(<<2 :> 1>>), C |-> OnlyRows(<<1 :> 1>>)]

\* x * (x - 1) = 0, without private signals; two coefficients have one cell.
Bit ==
  [nPublic |-> 1, nVars |-> 2,
   A |-> Rows(<<1 :> 1>>, 1), B |-> OnlyRows(<<0 :> 96 @@ 1 :> 1>>), C |-> OnlyRows(<<>>)]

MCG2One == [x |-> [a |-> 86, b |-> 29], y |-> [a |-> 88, b |-> 47]]
MCG1One == [x |-> 2, y |-> 42]
MCNaf == <<0, 0, 0, -1, 1>>

MCCircuits == {Cube, Square, Bit}
MCWitnesses ==
  {<<Cube, <<1, 3, 9>>>>, <<Square, <<1, 24, 11>>>>, <<Bit, <<1, 1>>>>, <<Bit, <<1, 7>>>>}

=============================================================================
