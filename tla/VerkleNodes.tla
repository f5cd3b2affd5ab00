---------------------------- MODULE VerkleNodes -----------------------------
(***************************************************************************)
(* The nodes of the Verkle tree (tree/verkle_tree.py, registry/trees.py),  *)
(* how a key is cut into the chunks of its path, what a commitment to a    *)
(* node commits to (verkle/commitment_scheme.py) and how a node is written *)
(* to the database and read back (verkle/serialization.py).                *)
(*                                                                         *)
(* A commitment is modelled by the vector it commits to, and the hash that *)
(* makes it a reference as injective: two different vectors never get one  *)
(* reference.  What the vector leaves out, the reference does not tell     *)
(* apart.  An element of the field is a sequence: <<n>> the number n, a    *)
(* longer one the hash of a commitment.  A byte string is a sequence of    *)
(* words, ValueLen of them standing for 32 bytes.                          *)
(***************************************************************************)
EXTENDS Integers, Sequences, FiniteSets, SequencesExt

CONSTANTS
  TotalBits,  \* the length of a key; 256 in the code
  ChunkBits,  \* log2 of the tree's width
  ByteBits,   \* the length of a byte
  WordBase,   \* a word is in 0..WordBase-1
  ValueLen,   \* words in the slice that _deserialize takes for a child
  Modulus,    \* the order of the field
  Values,     \* the byte strings inserted
  None        \* Python's None

ASSUME VerkleAssumption ==
  /\ TotalBits \in Nat /\ ChunkBits \in Nat \ {0}
  /\ TotalBits \div ChunkBits > 1
  /\ {ByteBits, WordBase, ValueLen, Modulus} \subseteq Nat \ {0}
  /\ Values \subseteq Seq(0..(WordBase - 1))
  /\ None \notin Values

\* Arithmetic that holds whatever the constants are: the provers know of no
\* law for powers.
ASSUME PowerAssumption == \A n \in 0..TotalBits : 2^n \in Nat \ {0}

-----------------------------------------------------------------------------
(* Keys *)

Width     == 2^ChunkBits
Chunks    == 0..(Width - 1)
NumChunks == TotalBits \div ChunkBits

\* _get_key_chunks: bits left over at the low end are not part of any chunk.
KeyChunks(key) ==
  [i \in 1..NumChunks |-> (key \div 2^(TotalBits - i * ChunkBits)) % Width]

ByteBase == 2^ByteBits

\* The bytes of a key.
KeyBytes(key) ==
  [i \in 1..(TotalBits \div ByteBits) |-> (key \div 2^(TotalBits - i * ByteBits)) % ByteBase]

StemOf(key)   == Front(KeyChunks(key))
SuffixOf(key) == Last(KeyChunks(key))

From(s, i) == SubSeq(s, i + 1, Len(s))  \* Python's s[i:]

\* The leading chunks on which two stems agree.
MatchLength(s, t) ==
  Cardinality({n \in 1..Len(s) : n <= Len(t) /\ \A i \in 1..n : s[i] = t[i]})

-----------------------------------------------------------------------------
(* Nodes *)

Internal(children) == [type |-> "internal", children |-> children]
Suffix(children)   == [type |-> "suffix", children |-> children]
Extension(s, c)    == [type |-> "extension", stem |-> s, child |-> c]

NoChildren == [c \in Chunks |-> None]

\* A slot is a chunk, or "child" at an extension.
SetSlot(node, slot, ref) ==
  IF node.type = "extension" THEN [node EXCEPT !.child = ref]
  ELSE [node EXCEPT !.children[slot] = ref]

-----------------------------------------------------------------------------
(* References *)

BytesToInt(bytes) == FoldLeft(LAMBDA n, w : n * WordBase + w, 0, bytes)

FieldOfValue(v)   == <<IF v = None THEN 0 ELSE BytesToInt(v) % Modulus>>
FieldOfChild(ref) == IF ref = None THEN <<0>> ELSE ref

\* int.from_bytes(stem): an integer has no leading zeros.
StemInt(s) ==
  From(s, CHOOSE n \in 0..Len(s) :
            /\ \A i \in 1..n : s[i] = 0
            /\ n < Len(s) => s[n + 1] # 0)

\* hash_point_to_field(commit(...)): the kind of an array node, the length of
\* a stem and the difference between no value and zero are not committed to.
Reference(node) ==
  CASE node.type = "extension" -> <<"extension", StemInt(node.stem), FieldOfChild(node.child)>>
    [] node.type = "internal"  -> <<"array", [c \in Chunks |-> FieldOfChild(node.children[c])]>>
    [] node.type = "suffix"    -> <<"array", [c \in Chunks |-> FieldOfValue(node.children[c])]>>

\* commit_extension reads the stem as bytes and raises on a larger chunk.
Committable(node) ==
  node.type = "extension" => \A i \in DOMAIN node.stem : node.stem[i] < ByteBase

-----------------------------------------------------------------------------
(* The database *)

\* The values in the first n slots one after the other, without their lengths.
Joined(children) ==
  LET data[n \in Nat] == IF n = 0 THEN <<>>
                         ELSE IF children[n - 1] = None THEN data[n - 1]
                         ELSE data[n - 1] \o children[n - 1]
  IN  data

\* serialize_*: references are 32 bytes long and are found again as they are;
\* the values of a suffix node are joined under a bitmap of the slots in use.
Encode(node) ==
  IF node.type # "suffix" THEN node
  ELSE [type |-> "suffix", bitmap |-> {c \in Chunks : node.children[c] # None},
        data |-> Joined(node.children)[Width]]

\* Python's data[i:j], which stops at the end of the data.
Slice(data, i, j) == SubSeq(data, i + 1, IF j < Len(data) THEN j ELSE Len(data))

\* Mutation of Decode: every slot in use reads the first 32 bytes.
DecodeFirst(entry) ==
  IF entry.type # "suffix" THEN entry
  ELSE Suffix([c \in Chunks |->
         IF c \notin entry.bitmap THEN None ELSE Slice(entry.data, 0, ValueLen)])

\* deserialize_any_node: every slot in use takes the next 32 bytes.
Decode(entry) ==
  IF entry.type # "suffix" THEN entry
  ELSE Suffix([c \in Chunks |->
         IF c \notin entry.bitmap THEN None
         ELSE LET before == Cardinality({d \in entry.bitmap : d < c})
              IN  Slice(entry.data, before * ValueLen, (before + 1) * ValueLen)])

=============================================================================
