--------------------------- MODULE MCMerkleProof ----------------------------
(* Instances of MerkleProof for TLC. *)
EXTENDS MerkleProof

CONSTANTS v1, v2

\* Leaves, a branch and an extension on the way; among the keys prefixes of
\* others, whose values are at a branch.
PrefixKeys == {<<>>, <<0,0>>, <<0,0,0,1>>, <<0,0,1,0>>, <<0,1>>}

LongLen == [v \in Values |-> 70]

=============================================================================
