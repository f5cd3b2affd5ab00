--------------------------- MODULE MCVerkleProof ----------------------------
(* Instances of VerkleProof for TLC. *)
EXTENDS VerkleProof

\* The key with these four chunks.
Key(a, b, c, d) == ((a * Width + b) * Width + c) * Width + d

\* Two keys under one stem, stems that part at each of their chunks, and a key
\* with the index of an extension's child as its last chunks.
SomeKeys == {Key(1,1,1,1), Key(1,1,1,2), Key(1,1,2,1), Key(1,2,2,2), Key(2,2,2,2)}

Words == {<<1>>, <<2>>}

=============================================================================
