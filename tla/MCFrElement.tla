---------------------------- MODULE MCFrElement -----------------------------
(* Instances of FrElement for TLC: <<q, W, N, S>> as in FrElement. *)
EXTENDS FrElement

\* One word and no room in it for a carry, as the Goldilocks prime; two words,
\* and room in the top one, as the primes of the curves; two words and no room.
SmallPrimes == {<<61, 64, 1, 3>>, <<67, 64, 2, 3>>, <<113, 16, 2, 2>>}

=============================================================================
