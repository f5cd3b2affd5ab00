------------------------------ MODULE MptNodes ------------------------------
(***************************************************************************)
(* The nodes of the Merkle Patricia trie (merkle/node.py), the nibble      *)
(* paths they carry (merkle/nibble_path.py) and the references by which a  *)
(* node names its children.                                                *)
(*                                                                         *)
(* Hashing is modelled as what the code relies on: two different encodings *)
(* never get one digest.  A reference is therefore the node it names,      *)
(* together with the length of the byte string that stands for it: 32 for  *)
(* a digest, less than 32 for an "in-place" reference, whose bytes are the *)
(* encoded node itself.                                                    *)
(***************************************************************************)
EXTENDS Integers, Sequences, FiniteSets, FiniteSetsExt

CONSTANTS
  Nibbles,     \* the digits of a path; 0..15 in the code
  Values,      \* the byte strings stored under a key
  RlpLen,      \* RlpLen[v]: the length in bytes of the RLP encoding of v
  HashFn       \* "keccak" or "poseidon": the trie's hash_fn argument

\* b'': no child in a branch slot, no value at a branch.  The code tells it
\* from a reference by its length.
EmptyBytes == [len |-> 0]

\* Python's None; any value that is not a byte string would do.
None == <<>>

\* What "not node_ref" holds for: neither is a reference to a node.
NoNode == {None, EmptyBytes}

ASSUME NodeAssumption ==
  /\ IsFiniteSet(Nibbles) /\ Nibbles # {}
  /\ Cardinality(Nibbles) <= 16
  /\ RlpLen \in [Values -> Nat \ {0}]
  /\ HashFn \in {"keccak", "poseidon"}
  /\ EmptyBytes \notin Values

-----------------------------------------------------------------------------
(* Nibble paths *)

Path == Seq(Nibbles)

StartsWith(p, q) ==
  /\ Len(q) <= Len(p)
  /\ \A i \in 1..Len(q) : p[i] = q[i]

\* Mutation of CommonLen: one digit short.
CommonLenShort(p, q) ==
  Cardinality({n \in 1..Len(p) : n < Len(q) /\ \A i \in 1..(n + 1) : i <= Len(p) => p[i] = q[i]})

\* The number of leading digits on which p and q agree.
CommonLen(p, q) ==
  Cardinality({n \in 1..Len(p) : n <= Len(q) /\ \A i \in 1..n : p[i] = q[i]})

Consume(p, n) == SubSeq(p, n + 1, Len(p))

-----------------------------------------------------------------------------
(* Nodes *)

Leaf(p, v)      == [type |-> "leaf", path |-> p, data |-> v]
Extension(p, r) == [type |-> "extension", path |-> p, next |-> r]
Branch(b, v)    == [type |-> "branch", branches |-> b, data |-> v]

\* The nodes whose children are named by references in R.
LeafNodes         == [type : {"leaf"}, path : Path, data : Values]
ExtensionNodes(R) == [type : {"extension"}, path : Path, next : R]
Branches(R)       == [Nibbles -> R \cup {EmptyBytes}]
BranchNodes(R)    == [type : {"branch"}, branches : Branches(R),
                      data : Values \cup {EmptyBytes}]
Nodes(R)          == LeafNodes \cup ExtensionNodes(R) \cup BranchNodes(R)

NoBranches == [i \in Nibbles |-> EmptyBytes]

SetBranch(b, i, r) == [j \in Nibbles |-> IF j = i THEN r ELSE b[j]]

\* The references a node holds.
Children(n) ==
  CASE n.type = "leaf"      -> {}
    [] n.type = "extension" -> {n.next}
    [] n.type = "branch"    -> {n.branches[i] : i \in Nibbles} \ {EmptyBytes}

-----------------------------------------------------------------------------
(* References *)

\* Hex-prefix encoding packs two digits a byte behind one flag byte; RLP puts
\* a length byte before a string of more than one byte.
PathLen(p) == LET bytes == 1 + Len(p) \div 2
              IN  IF bytes = 1 THEN 1 ELSE 1 + bytes

\* Length of the RLP encoding of a node whose children are all in-place: a
\* list header, then the items; an in-place child is spliced in, an absent
\* child or value takes one byte.  A branch always has 16 slots.
InPlaceLen(n) ==
  CASE n.type = "leaf"      -> 1 + PathLen(n.path) + RlpLen[n.data]
    [] n.type = "extension" -> 1 + PathLen(n.path) + n.next.len
    [] n.type = "branch"    ->
         1 + (16 - Cardinality(Nibbles))
           + MapThenSumSet(LAMBDA i : IF n.branches[i] = EmptyBytes
                                      THEN 1 ELSE n.branches[i].len, Nibbles)
           + (IF n.data = EmptyBytes THEN 1 ELSE RlpLen[n.data])

\* A digest as a child takes 33 bytes, so a node with one is never in-place.
\* Under Poseidon every node is hashed, whatever its length.
InPlace(n) ==
  /\ HashFn = "keccak"
  /\ \A r \in Children(n) : r.len < 32
  /\ InPlaceLen(n) < 32

IntoReference(n) == [len |-> IF InPlace(n) THEN InPlaceLen(n) ELSE 32, of |-> n]

-----------------------------------------------------------------------------

\* The shape that keeps a Patricia trie compressed: an extension has a path
\* and stands above a branch, a branch has at least two ways on (a child or
\* a value of its own).
Compressed(n) ==
  /\ n.type = "extension" => n.path # <<>> /\ n.next.of.type = "branch"
  /\ n.type = "branch" =>
       \/ \E i, j \in Nibbles : i # j /\ n.branches[i] # EmptyBytes
                                      /\ n.branches[j] # EmptyBytes
       \/ n.data # EmptyBytes /\ \E i \in Nibbles : n.branches[i] # EmptyBytes

=============================================================================
