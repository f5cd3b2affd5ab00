---------------------------- MODULE MCVerkleTree ----------------------------
(* Instances of VerkleRead for TLC. *)
EXTENDS VerkleRead

\* The key with these four chunks.
Key(a, b, c, d) == ((a * Width + b) * Width + c) * Width + d

\* Two keys under one stem, and stems that part at each of their chunks.
SomeKeys == {Key(1,1,1,1), Key(1,1,1,2), Key(1,1,2,1), Key(1,2,1,1), Key(2,1,1,1)}

\* One more, whose stem has a chunk that is not a byte.
WideKeys == SomeKeys \cup {Key(1,1,5,1)}

\* Stems with zeros in front, which are lost when the stem is made a number.
ZeroKeys == {Key(1,0,0,1), Key(2,0,0,1), Key(2,1,0,1), Key(1,0,1,2)}

Words      == {<<1>>, <<2>>}
ZeroWords  == {<<0>>, <<1>>}
WordLists  == {<<1>>, <<2, 1>>}

=============================================================================
