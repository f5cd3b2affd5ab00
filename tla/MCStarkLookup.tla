--------------------------- MODULE MCStarkLookup ----------------------------
(* Instances of StarkLookup for TLC. *)
EXTENDS StarkLookup, TLC

Node(size, h) == [size |-> size, hash |-> h]

Lookup(nodes, key, security, length) ==
  [nodes |-> nodes, key |-> key, value |-> 11, security |-> security, length |-> length]

Branch == Node("large", 200)
Ext    == Node("medium", 17)
Leaf   == Node("small", 5)

\* A leaf alone, with and without a row for it; a path with room to spare, one that
\* fills the trace, one cut off by its end; a key shorter than the path; a
\* trace too small for its queries, and one whose length is rounded up; a
\* security level the verifier refuses.
SomeLookups ==
  {Lookup(<<Leaf>>, <<7>>, 128, 2),
   Lookup(<<Leaf>>, <<7>>, 128, 1),
   Lookup(<<Branch, Leaf>>, <<3, 7>>, 128, 4),
   Lookup(<<Branch, Ext, Leaf>>, <<3, 7, 1>>, 128, 4),
   Lookup(<<Branch, Ext, Branch, Leaf>>, <<3, 7, 1, 2>>, 128, 4),
   Lookup(<<Branch, Branch, Branch>>, <<3, 7>>, 128, 4),
   Lookup(<<Branch, Leaf>>, <<3>>, 128, 3),
   Lookup(<<Branch, Branch>>, <<3>>, 64, 4),
   Lookup(<<Leaf>>, <<7>>, 64, 2)}

\* As in security.py, a higher level has a larger extension.
SomeParams == (128 :> [blowup |-> 2, queries |-> 2]) @@ (64 :> [blowup |-> 1, queries |-> 3])

=============================================================================
