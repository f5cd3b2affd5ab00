------------------------ MODULE MCMerklePatriciaTrie ------------------------
(* Instances of MptRead for TLC. *)
EXTENDS MptRead

CONSTANTS v1, v2

\* Keys of one length over two digits.  Inserted in the various orders they
\* split a leaf with and without a common prefix, follow an extension, split
\* one before its first digit, in the middle and before its last, and follow a
\* branch to a child and to an empty slot.
FixedKeys == {<<0,0,0,0>>, <<0,0,0,1>>, <<0,0,1,0>>, <<0,1,1,1>>, <<1,0,0,0>>}

\* One value below 30 bytes and one above.
MixedLen == [v \in Values |-> IF v = v1 THEN 2 ELSE 70]

=============================================================================
