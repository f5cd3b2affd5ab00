-------------------------- MODULE VerkleTreeProofs --------------------------
(***************************************************************************)
(* Proofs about the Verkle tree, for every set of keys and values, every   *)
(* width and every length of the keys: StoreClosed and WalkHasChunks.      *)
(*                                                                         *)
(* Two hazards make the invariant.  The commitment of a node does not tell *)
(* an internal node from a suffix node, nor stems that differ in leading   *)
(* zeros, so a write can replace a stored node by another one: Invariant   *)
(* keeps that the kind and the children stay, because a stored internal    *)
(* node has a child, whose reference is no number.  And one stored node    *)
(* can be reached along paths of several lengths: a height for every       *)
(* reference, above that of its children, bounds them all.                 *)
(***************************************************************************)
EXTENDS VerkleTreeProps, FiniteSetTheorems, TLAPS

\* Python's None is no commitment and no root.
NoneIsUnlike ==
  /\ \A x : <<"array", x>> # None
  /\ \A x, y : <<"extension", x, y>> # None
  /\ \A x, y : [node |-> x, value |-> y] # None

-----------------------------------------------------------------------------
(* The inductive invariant *)

StemLen == NumChunks - 1

\* A child of an internal node: an extension, or an internal node lower than h.
Kid(H, ref, h) ==
  /\ ref \in DOMAIN db
  /\ \/ db[ref].type = "extension"
     \/ db[ref].type = "internal" /\ H[ref] < h

\* The only child of an extension.
SuffixRef(ref) == ref \in DOMAIN db /\ db[ref].type = "suffix"

\* An internal node whose children are all lower than h.
InternalNode(H, node, h) ==
  /\ node = Internal(node.children)
  /\ node.children \in [Chunks -> DOMAIN db \cup {None}]
  /\ \A c \in Chunks : node.children[c] = None \/ Kid(H, node.children[c], h)

HasChild(node) == \E c \in Chunks : node.children[c] # None

ExtensionNode(node) ==
  /\ node = Extension(node.stem, node.child)
  /\ node.stem \in Seq(Chunks)

\* What an array of numbers is committed to as.
ArrayOfNumbers(ref) ==
  /\ ref = <<"array", ref[2]>>
  /\ \A c \in Chunks : ref[2][c] = <<ref[2][c][1]>>

\* The entry of the database under ref.
Stored(H, ref) ==
  LET node == db[ref] IN
  /\ node.type \in {"internal", "extension", "suffix"}
  /\ node.type = "internal" =>
       /\ InternalNode(H, node, H[ref]) /\ HasChild(node)
       /\ H[ref] > 0
       /\ ref = Reference(node)
  /\ node.type = "extension" =>
       /\ ExtensionNode(node) /\ SuffixRef(node.child)
       /\ ref = Reference(node)
  /\ node.type = "suffix" => ArrayOfNumbers(ref)

\* Every reference has a height.
StoreOK(H) ==
  /\ H \in [DOMAIN db -> Nat]
  /\ \A ref \in DOMAIN db : Stored(H, ref)

\* A reference from which a tree of full height can be read.
RootRefOK(H, ref) ==
  ref \in DOMAIN db /\ db[ref].type = "internal" /\ H[ref] <= StemLen

RootOK(H) ==
  /\ root # None =>
       /\ root = [node |-> root.node, value |-> root.value]
       /\ InternalNode(H, root.node, StemLen)
       /\ root.value = None \/ RootRefOK(H, root.value)
  /\ rootFile \in {None, Truncated} \/ RootRefOK(H, rootFile)

\* A node above i on the stack is still to be linked into the node at i.
Pending(i) == \E j \in (i + 1)..Len(stack) : stack[j].parent = i

\* Internal nodes are the lower part of the stack, each the parent of the next.
InternalAt(H, i) ==
  LET e == stack[i] IN
  /\ InternalNode(H, e.node, StemLen - i + 1)
  /\ HasChild(e.node) \/ Pending(i) \/ (pc = "walk" /\ i = Len(stack))
  /\ e.parent = i - 1 /\ i <= StemLen
  /\ i > 1 => stack[i - 1].node.type = "internal" /\ e.slot \in Chunks

ExtensionAt(i) ==
  LET e == stack[i] IN
  /\ ExtensionNode(e.node)
  /\ SuffixRef(e.node.child) \/ (e.node.child = None /\ Pending(i))
  /\ e.parent \in 1..(i - 1) /\ stack[e.parent].node.type = "internal"
  /\ e.slot \in Chunks

SuffixAt(i) ==
  LET e == stack[i] IN
  /\ e.node = Suffix(e.node.children)
  /\ e.parent \in 1..(i - 1) /\ stack[e.parent].node.type = "extension"
  /\ e.slot = "child"

EntryAt(H, i) ==
  LET e == stack[i] IN
  /\ e = Entry(e.node, e.parent, e.slot)
  /\ e.node.type \in {"internal", "extension", "suffix"}
  /\ i = 1 => e.node.type = "internal"
  /\ e.node.type = "internal" => InternalAt(H, i)
  /\ e.node.type = "extension" => ExtensionAt(i)
  /\ e.node.type = "suffix" => SuffixAt(i)

\* While it walks, insert has passed internal nodes only.
WalkOK ==
  /\ depth = Len(stack) - 1
  /\ op.key \in Keys
  /\ \A i \in 1..Len(stack) : stack[i].parent = i - 1
  /\ \A i \in 1..(Len(stack) - 1) : stack[i].node.type = "internal"
  /\ Node.type \in {"internal", "extension"}

Sequence(s) == s = [i \in 1..Len(s) |-> s[i]]

\* The stack of the running insert; its first node is the root's own.
StackOK(H) ==
  pc \in {"walk", "commit"} =>
    /\ Sequence(stack)
    /\ Len(stack) \in Nat \ {0}
    /\ \A i \in 1..Len(stack) : EntryAt(H, i)
    /\ root # None /\ root.node = stack[1].node
    /\ pc = "walk" => WalkOK

PcOK ==
  /\ pc \in {"ready", "walk", "commit", "open", "write", "down"}
  /\ pc \in {"open", "write"} => root # None /\ root.value # None

Consistent(H) == StoreOK(H) /\ RootOK(H) /\ StackOK(H)

IInv == PcOK /\ \E H : Consistent(H)

-----------------------------------------------------------------------------
(* Keys and stems *)

\* A key has more than one chunk.
LEMMA StemLenType == StemLen \in Nat \ {0}
  BY VerkleAssumption DEF VerkleAssumption, StemLen, NumChunks

LEMMA WidthType == Width \in Nat \ {0} /\ 0 \in Chunks /\ Chunks \subseteq Nat
<1>1. ChunkBits \in 0..TotalBits
  BY VerkleAssumption DEF VerkleAssumption
<1> QED
  BY <1>1, PowerAssumption DEF PowerAssumption, Width, Chunks

\* The chunks of a key.
LEMMA KeyChunksType ==
  ASSUME NEW key \in Keys
  PROVE  /\ KeyChunks(key) \in Seq(Chunks)
         /\ Len(KeyChunks(key)) = NumChunks
<1>1. key \in Int
  BY VerkleTreeAssumption DEF VerkleTreeAssumption
<1>2. ASSUME NEW i \in 1..NumChunks
      PROVE  (key \div 2^(TotalBits - i * ChunkBits)) % Width \in Chunks
  <2>1. TotalBits \in Nat /\ ChunkBits \in Nat \ {0} /\ NumChunks \in Nat
    BY VerkleAssumption, StemLenType DEF VerkleAssumption, StemLen, NumChunks
  <2>2. NumChunks * ChunkBits <= TotalBits
    BY <2>1 DEF NumChunks
  <2>3. i * ChunkBits \in Nat /\ i * ChunkBits <= NumChunks * ChunkBits
    BY <2>1
  <2>4. TotalBits - i * ChunkBits \in 0..TotalBits
    <3>1. ASSUME NEW a \in Nat, NEW b \in Nat, NEW t \in Nat, a <= b, b <= t
          PROVE  t - a \in 0..t
      BY <3>1
    <3>2. NumChunks * ChunkBits \in Nat
      BY <2>1
    <3> QED
      BY <2>1, <2>2, <2>3, <3>1, <3>2
  <2>5. ASSUME NEW d \in Nat \ {0} PROVE (key \div d) % Width \in Chunks
    <3>1. key \div d \in Int
      BY <1>1
    <3>2. ASSUME NEW q \in Int, NEW w \in Nat \ {0} PROVE q % w \in 0..(w - 1)
      OBVIOUS
    <3> QED
      BY <3>1, <3>2, WidthType DEF Chunks
  <2> QED
    BY <2>4, <2>5, PowerAssumption DEF PowerAssumption
<1>3. NumChunks \in Nat
  BY StemLenType, VerkleAssumption DEF VerkleAssumption, StemLen, NumChunks
<1> QED
  BY <1>2, <1>3 DEF KeyChunks

LEMMA StemOfType ==
  ASSUME NEW key \in Keys
  PROVE  StemOf(key) \in Seq(Chunks) /\ Len(StemOf(key)) = StemLen
<1>1. NumChunks \in Nat \ {0}
  BY StemLenType, VerkleAssumption DEF VerkleAssumption, StemLen, NumChunks
<1> QED
  BY <1>1, KeyChunksType DEF StemOf, Front, StemLen

\* Python's s[i:], which is empty from the length on.
LEMMA FromType ==
  ASSUME NEW S, NEW s \in Seq(S), NEW i \in 0..Len(s)
  PROVE  From(s, i) \in Seq(S) /\ Len(From(s, i)) = Len(s) - i
  BY DEF From

LEMMA CountToN ==
  ASSUME NEW n \in Nat
  PROVE  IsFiniteSet(1..n) /\ Cardinality(1..n) = n
<1>1. /\ IsFiniteSet(1..n)
      /\ Cardinality(1..n) = IF 1 > n THEN 0 ELSE n - 1 + 1
  BY FS_Interval, 1 \in Int, n \in Int, Zenon
<1> QED
  BY <1>1

LEMMA MatchLengthType ==
  ASSUME NEW s \in Seq(Chunks), NEW t \in Seq(Chunks)
  PROVE  MatchLength(s, t) \in 0..Len(s)
<1> DEFINE M == {n \in 1..Len(s) : n <= Len(t) /\ \A i \in 1..n : s[i] = t[i]}
<1>1. IsFiniteSet(1..Len(s)) /\ Cardinality(1..Len(s)) = Len(s)
  <2>1. Len(s) \in Nat
    OBVIOUS
  <2> QED
    BY <2>1, CountToN
<1>2. M \subseteq 1..Len(s)
  OBVIOUS
<1>3. Cardinality(M) <= Cardinality(1..Len(s)) /\ IsFiniteSet(M)
  BY <1>1, <1>2, FS_Subset
<1>4. Cardinality(M) \in Nat
  BY <1>3, FS_CardinalityType
<1>5. MatchLength(s, t) = Cardinality(M)
  BY DEF MatchLength
<1> QED
  BY <1>1, <1>3, <1>4, <1>5

-----------------------------------------------------------------------------
(* References *)

LEMMA InternalReference ==
  ASSUME NEW node, node = Internal(node.children)
  PROVE  /\ node.type = "internal"
         /\ Reference(node) = <<"array", [c \in Chunks |-> FieldOfChild(node.children[c])]>>
<1>1. node.type = "internal"
  BY DEF Internal
<1> QED
  BY <1>1 DEF Reference

LEMMA ExtensionReference ==
  ASSUME NEW node, node = Extension(node.stem, node.child)
  PROVE  /\ node.type = "extension"
         /\ Reference(node) = <<"extension", StemInt(node.stem), FieldOfChild(node.child)>>
<1>1. node.type = "extension"
  BY DEF Extension
<1> QED
  BY <1>1 DEF Reference

LEMMA SuffixReference ==
  ASSUME NEW node, node = Suffix(node.children)
  PROVE  /\ node.type = "suffix"
         /\ ArrayOfNumbers(Reference(node))
<1>1. node.type = "suffix"
  BY DEF Suffix
<1>2. Reference(node) = <<"array", [c \in Chunks |-> FieldOfValue(node.children[c])]>>
  BY <1>1 DEF Reference
<1>3. \A v : FieldOfValue(v) = <<FieldOfValue(v)[1]>>
  BY DEF FieldOfValue
<1>4. Reference(node)[2] = [c \in Chunks |-> FieldOfValue(node.children[c])]
  BY <1>2
<1> QED
  BY <1>1, <1>2, <1>3, <1>4 DEF ArrayOfNumbers

\* What the database holds has a reference that no number of the field equals.
LEMMA NoReferenceIsANumber ==
  ASSUME NEW H, NEW ref \in DOMAIN db, StoreOK(H), NEW x
  PROVE  ref # <<x>>
<1>1. Stored(H, ref)
  BY DEF StoreOK
<1>2. CASE db[ref].type = "internal"
  BY <1>1, <1>2, InternalReference DEF Stored, InternalNode
<1>3. CASE db[ref].type = "extension"
  BY <1>1, <1>3, ExtensionReference DEF Stored, ExtensionNode
<1>4. CASE db[ref].type = "suffix"
  BY <1>1, <1>4 DEF Stored, ArrayOfNumbers
<1> QED
  BY <1>1, <1>2, <1>3, <1>4 DEF Stored

\* A commitment to children tells them, and none from any.
LEMMA FieldOfChildInjective ==
  ASSUME NEW H, StoreOK(H),
         NEW a \in DOMAIN db \cup {None}, NEW b \in DOMAIN db \cup {None},
         FieldOfChild(a) = FieldOfChild(b)
  PROVE  a = b
  BY NoReferenceIsANumber DEF FieldOfChild

\* A node with a child is not committed to as an array of numbers.
LEMMA KindsApart ==
  ASSUME NEW H, StoreOK(H),
         NEW node, NEW h, InternalNode(H, node, h), HasChild(node)
  PROVE  ~ ArrayOfNumbers(Reference(node))
<1>1. PICK c \in Chunks : node.children[c] # None
  BY DEF HasChild
<1>2. node.children[c] \in DOMAIN db
  BY <1>1 DEF InternalNode
<1>3. Reference(node)[2][c] = node.children[c]
  BY <1>1, InternalReference DEF InternalNode, FieldOfChild
<1> QED
  BY <1>2, <1>3, NoReferenceIsANumber DEF ArrayOfNumbers

\* A write that meets a stored internal node finds the same node there.
LEMMA SameInternal ==
  ASSUME NEW H, StoreOK(H),
         NEW node, NEW h, InternalNode(H, node, h), HasChild(node),
         Reference(node) \in DOMAIN db
  PROVE  db[Reference(node)] = node
<1> DEFINE ref == Reference(node)
           old == db[Reference(node)]
<1>1. Stored(H, ref)
  BY DEF StoreOK
<1>2. ref = <<"array", [c \in Chunks |-> FieldOfChild(node.children[c])]>>
  BY InternalReference DEF InternalNode
<1>3. old.type # "suffix"
  BY <1>1, KindsApart DEF Stored
<1>4. old.type # "extension"
  BY <1>1, <1>2, ExtensionReference DEF Stored, ExtensionNode
<1>5. old.type = "internal" /\ InternalNode(H, old, H[ref]) /\ ref = Reference(old)
  BY <1>1, <1>3, <1>4 DEF Stored
<1>6. ref = <<"array", [c \in Chunks |-> FieldOfChild(old.children[c])]>>
  BY <1>5, InternalReference DEF InternalNode
<1>7. \A c \in Chunks : FieldOfChild(old.children[c]) = FieldOfChild(node.children[c])
  <2>1. [c \in Chunks |-> FieldOfChild(old.children[c])]
          = [c \in Chunks |-> FieldOfChild(node.children[c])]
    BY <1>2, <1>6
  <2> QED
    BY <2>1
<1>8. \A c \in Chunks : old.children[c] = node.children[c]
  <2>1. \A c \in Chunks : /\ old.children[c] \in DOMAIN db \cup {None}
                          /\ node.children[c] \in DOMAIN db \cup {None}
    BY <1>5 DEF InternalNode
  <2> QED
    BY <2>1, <1>7, FieldOfChildInjective
<1>9. old.children = node.children
  <2>1. /\ old.children \in [Chunks -> DOMAIN db \cup {None}]
        /\ node.children \in [Chunks -> DOMAIN db \cup {None}]
    BY <1>5 DEF InternalNode
  <2> QED
    BY <2>1, <1>8
<1> QED
  BY <1>5, <1>9 DEF InternalNode

\* A write that meets a stored extension or suffix node replaces its like.
LEMMA SameExtension ==
  ASSUME NEW H, StoreOK(H),
         NEW node, ExtensionNode(node), Reference(node) \in DOMAIN db
  PROVE  db[Reference(node)].type = "extension"
<1> DEFINE ref == Reference(node)
<1>1. Stored(H, ref)
  BY DEF StoreOK
<1>2. ref = <<"extension", StemInt(node.stem), FieldOfChild(node.child)>>
  BY ExtensionReference DEF ExtensionNode
<1>3. ref[1] = "extension"
  BY <1>2
<1>4. db[ref].type # "internal"
  BY <1>1, <1>3, InternalReference DEF Stored, InternalNode
<1>5. db[ref].type # "suffix"
  BY <1>1, <1>3 DEF Stored, ArrayOfNumbers
<1> QED
  BY <1>1, <1>4, <1>5 DEF Stored

LEMMA SameSuffix ==
  ASSUME NEW H, StoreOK(H),
         NEW node, node = Suffix(node.children), Reference(node) \in DOMAIN db
  PROVE  db[Reference(node)].type = "suffix"
<1> DEFINE ref == Reference(node)
<1>1. Stored(H, ref)
  BY DEF StoreOK
<1>2. ArrayOfNumbers(ref)
  BY SuffixReference
<1>3. db[ref].type # "extension"
  <2>1. ref[1] = "array"
    BY <1>2 DEF ArrayOfNumbers
  <2> QED
    BY <1>1, <2>1, ExtensionReference DEF Stored, ExtensionNode
<1>4. db[ref].type # "internal"
  BY <1>1, <1>2, KindsApart DEF Stored
<1> QED
  BY <1>1, <1>3, <1>4 DEF Stored

-----------------------------------------------------------------------------
(* A write to the database *)

\* Nothing stored is lost or changes its kind, and heights only sink.
Grows(H, G) ==
  /\ DOMAIN db \subseteq DOMAIN db'
  /\ \A ref \in DOMAIN db : /\ db'[ref].type = db[ref].type
                            /\ H[ref] \in Nat /\ G[ref] \in Nat /\ G[ref] <= H[ref]

\* A step that writes nothing to the database.
LEMMA GrowsByNothing ==
  ASSUME NEW H, StoreOK(H), db' = db
  PROVE  Grows(H, H) /\ StoreOK(H)'
<1>1. \A ref \in DOMAIN db : H[ref] \in Nat
  BY DEF StoreOK
<1>2. Grows(H, H)
  BY <1>1 DEF Grows
<1>3. ASSUME NEW ref, Stored(H, ref) PROVE Stored(H, ref)'
  BY <1>3 DEF Stored, InternalNode, Kid, ExtensionNode, SuffixRef
<1> QED
  BY <1>2, <1>3 DEF StoreOK

LEMMA KidKept ==
  ASSUME NEW H, NEW G, Grows(H, G), NEW ref, NEW h \in Int, Kid(H, ref, h)
  PROVE  Kid(G, ref, h)'
  BY DEF Kid, Grows

LEMMA SuffixRefKept ==
  ASSUME NEW H, NEW G, Grows(H, G), NEW ref, SuffixRef(ref)
  PROVE  SuffixRef(ref)'
  BY DEF SuffixRef, Grows

LEMMA RootRefKept ==
  ASSUME NEW H, NEW G, Grows(H, G), NEW ref, RootRefOK(H, ref)
  PROVE  RootRefOK(G, ref)'
  BY StemLenType DEF RootRefOK, Grows

LEMMA InternalNodeKept ==
  ASSUME NEW H, NEW G, Grows(H, G), NEW node, NEW h \in Int, InternalNode(H, node, h)
  PROVE  InternalNode(G, node, h)'
<1>1. node.children \in [Chunks -> DOMAIN db' \cup {None}]
  BY DEF InternalNode, Grows
<1>2. \A c \in Chunks : node.children[c] = None \/ Kid(G, node.children[c], h)'
  BY KidKept DEF InternalNode
<1> QED
  BY <1>1, <1>2 DEF InternalNode

\* A node may be as low as a bound, or lower.
LEMMA InternalNodeHigher ==
  ASSUME NEW H, StoreOK(H), NEW node, NEW h \in Int, NEW k \in Int, h <= k,
         InternalNode(H, node, h)
  PROVE  InternalNode(H, node, k)
<1>1. \A ref \in DOMAIN db : H[ref] \in Nat
  BY DEF StoreOK
<1> QED
  BY <1>1 DEF InternalNode, Kid

\* An entry that a write leaves alone.
LEMMA StoredKept ==
  ASSUME NEW H, StoreOK(H), NEW G, Grows(H, G),
         NEW ref \in DOMAIN db, db'[ref] = db[ref], G[ref] = H[ref]
  PROVE  Stored(G, ref)'
<1>1. Stored(H, ref) /\ H[ref] \in Int
  BY DEF StoreOK
<1>2. CASE db[ref].type = "internal"
  <2>1. InternalNode(H, db[ref], H[ref])
    BY <1>1, <1>2 DEF Stored
  <2>2. InternalNode(G, db[ref], H[ref])'
    <3>1. ASSUME NEW node, InternalNode(H, node, H[ref])
          PROVE  InternalNode(G, node, H[ref])'
      BY <1>1, <3>1, InternalNodeKept
    <3> DEFINE n == db[ref]
    <3>2. PICK node : node = db[ref]
      OBVIOUS
    <3>3. InternalNode(H, node, H[ref])
      BY <2>1, <3>2
    <3>4. InternalNode(G, node, H[ref])'
      BY <3>1, <3>3
    <3> QED
      BY <3>2, <3>4 DEF InternalNode, Kid
  <2> QED
    BY <1>1, <1>2, <2>2 DEF Stored, InternalNode, HasChild, Kid
<1>3. CASE db[ref].type = "extension"
  BY <1>1, <1>3, SuffixRefKept DEF Stored, ExtensionNode
<1>4. CASE db[ref].type = "suffix"
  BY <1>1, <1>4 DEF Stored
<1> QED
  BY <1>1, <1>2, <1>3, <1>4 DEF Stored

\* A node that insert may commit to.
Committed(H, node, h) ==
  \/ h \in Nat \ {0} /\ InternalNode(H, node, h) /\ HasChild(node)
  \/ ExtensionNode(node) /\ SuffixRef(node.child)
  \/ node = Suffix(node.children)

LEMMA CommittedReference ==
  ASSUME NoneIsUnlike, NEW H, NEW node, NEW h, Committed(H, node, h)
  PROVE  Reference(node) # None
<1>1. CASE InternalNode(H, node, h)
  BY <1>1, InternalReference DEF InternalNode, NoneIsUnlike
<1>2. CASE ExtensionNode(node)
  BY <1>2, ExtensionReference DEF ExtensionNode, NoneIsUnlike
<1>3. CASE node = Suffix(node.children)
  BY <1>3, SuffixReference DEF ArrayOfNumbers, NoneIsUnlike
<1> QED
  BY <1>1, <1>2, <1>3 DEF Committed

\* The node in the database is of the kind of the node written, below the
\* bound if it is internal, and it has a reference.
LEMMA WriteKeepsStore ==
  ASSUME NEW H, StoreOK(H), NEW node, NEW h, Committed(H, node, h),
         Put(Reference(node), node)
  PROVE  \E G : /\ Grows(H, G) /\ StoreOK(G)'
                /\ Reference(node) \in DOMAIN db'
                /\ db'[Reference(node)].type = node.type
                /\ node.type = "internal" => G[Reference(node)] <= h
<1> DEFINE ref  == Reference(node)
           low  == IF ref \in DOMAIN db THEN (IF H[ref] <= h THEN H[ref] ELSE h) ELSE h
           kept == IF ref \in DOMAIN db THEN H[ref] ELSE 0
           own  == IF node.type = "internal" THEN low ELSE kept
<1>. PICK height : height = own
  OBVIOUS
<1>1. /\ DOMAIN db' = DOMAIN db \cup {ref}
      /\ db'[ref] = Encode(node)
      /\ \A r \in DOMAIN db : r # ref => db'[r] = db[r]
  BY DEF Put
<1>2. /\ node.type \in {"internal", "extension", "suffix"}
      /\ node.type = "internal" => /\ h \in Nat \ {0} /\ InternalNode(H, node, h)
                                   /\ HasChild(node) /\ node = Internal(node.children)
      /\ node.type = "extension" => ExtensionNode(node) /\ SuffixRef(node.child)
      /\ node.type = "suffix" => node = Suffix(node.children)
  <2>1. CASE h \in Nat \ {0} /\ InternalNode(H, node, h) /\ HasChild(node)
    BY <2>1, InternalReference DEF InternalNode
  <2>2. CASE ExtensionNode(node) /\ SuffixRef(node.child)
    BY <2>2, ExtensionReference DEF ExtensionNode
  <2>3. CASE node = Suffix(node.children)
    BY <2>3, SuffixReference
  <2> QED
    BY <2>1, <2>2, <2>3 DEF Committed
<1>3. db'[ref].type = node.type /\ (node.type # "suffix" => db'[ref] = node)
  BY <1>1, <1>2 DEF Encode
<1>4. ref \in DOMAIN db => db[ref].type = node.type
  BY <1>2, SameInternal, SameExtension, SameSuffix
<1>5. \A r \in DOMAIN db : H[r] \in Nat
  BY DEF StoreOK
<1>6. height \in Nat /\ (ref \in DOMAIN db => height <= H[ref])
  BY <1>2, <1>5
<1>. PICK G : G = [r \in DOMAIN db \cup {ref} |-> IF r = ref THEN height ELSE H[r]]
  OBVIOUS
<1>7. G \in [DOMAIN db' -> Nat] /\ G[ref] = height
  BY <1>1, <1>5, <1>6
<1>8. \A r \in DOMAIN db : G[r] \in Nat /\ G[r] <= H[r] /\ (r # ref => G[r] = H[r])
  BY <1>5, <1>6
<1>9. Grows(H, G)
  BY <1>1, <1>3, <1>4, <1>5, <1>8 DEF Grows
<1>10. ASSUME NEW r \in DOMAIN db, r # ref PROVE Stored(G, r)'
  BY <1>1, <1>8, <1>9, <1>10, StoredKept
<1>11. Stored(G, ref)'
  <2>1. CASE node.type = "internal"
    <3>1. InternalNode(H, node, height) /\ height > 0
      <4>1. CASE ref \in DOMAIN db /\ H[ref] <= h
        BY <1>2, <2>1, <4>1, SameInternal, InternalReference DEF StoreOK, Stored
      <4>2. CASE ~ (ref \in DOMAIN db /\ H[ref] <= h)
        BY <1>2, <2>1, <4>2
      <4> QED
        BY <4>1, <4>2
    <3>2. InternalNode(G, node, height)'
      BY <1>6, <1>9, <3>1, InternalNodeKept
    <3>3. (db[ref])' = node
      BY <1>3, <2>1
    <3>4. (InternalNode(G, db[ref], G[ref]))'
      BY <1>7, <3>2, <3>3 DEF InternalNode, Kid
    <3>5. (HasChild(db[ref]))' /\ G[ref] > 0 /\ ref = (Reference(db[ref]))'
      BY <1>2, <1>7, <2>1, <3>1, <3>3 DEF HasChild
    <3>6. (db[ref].type)' = "internal"
      BY <2>1, <3>3
    <3> QED
      BY <3>4, <3>5, <3>6 DEF Stored
  <2>2. CASE node.type = "extension"
    BY <1>2, <1>3, <1>9, <2>2, SuffixRefKept DEF Stored, ExtensionNode
  <2>3. CASE node.type = "suffix"
    BY <1>2, <1>3, <2>3, SuffixReference DEF Stored, ArrayOfNumbers
  <2> QED
    BY <1>2, <2>1, <2>2, <2>3
<1>12. StoreOK(G)'
  BY <1>1, <1>7, <1>10, <1>11 DEF StoreOK
<1>13. node.type = "internal" => G[ref] <= h
  BY <1>2, <1>5, <1>7
<1> QED
  BY <1>1, <1>3, <1>9, <1>12, <1>13

-----------------------------------------------------------------------------
(* The stack *)

\* Sequences whose elements are of no particular set.
LEMMA SequenceOf ==
  ASSUME NEW s, Len(s) \in Nat, Sequence(s)
  PROVE  \E S : s \in Seq(S)
<1>1. s \in [1..Len(s) -> {s[i] : i \in 1..Len(s)}]
  BY DEF Sequence
<1>2. s \in Seq({s[i] : i \in 1..Len(s)})
  BY <1>1
<1> QED
  BY <1>2

LEMMA AppendedEntries ==
  ASSUME NEW s, Len(s) \in Nat, Sequence(s), NEW t, Len(t) \in Nat, Sequence(t)
  PROVE  /\ Len(s \o t) = Len(s) + Len(t)
         /\ Sequence(s \o t)
         /\ \A i \in 1..Len(s) : (s \o t)[i] = s[i]
         /\ \A i \in 1..Len(t) : (s \o t)[Len(s) + i] = t[i]
<1> PICK S : s \in Seq(S)
  BY SequenceOf
<1> PICK T : t \in Seq(T)
  BY SequenceOf
<1> DEFINE U == S \cup T
<1>1. s \in Seq(U) /\ t \in Seq(U)
  OBVIOUS
<1> HIDE DEF U
<1>2. s \o t \in Seq(U) /\ Len(s \o t) = Len(s) + Len(t)
  BY <1>1
<1>3. Sequence(s \o t)
  <2>1. ASSUME NEW r \in Seq(U) PROVE Sequence(r)
    <3>1. r \in [1..Len(r) -> U]
      OBVIOUS
    <3> QED
      BY <3>1 DEF Sequence
  <2> QED
    BY <1>2, <2>1
<1>4. \A i \in 1..Len(s) : (s \o t)[i] = s[i]
  BY <1>1
<1>5. \A i \in 1..Len(t) : (s \o t)[Len(s) + i] = t[i]
  BY <1>1
<1> QED
  BY <1>2, <1>3, <1>4, <1>5 DEF U

\* What the walk knows of its top node and of the rest of the stem.
LEMMA WalkTop ==
  ASSUME NEW H, StackOK(H), pc = "walk"
  PROVE  /\ Len(stack) \in Nat \ {0} /\ Len(stack) - 1 <= StemLen
         /\ depth = Len(stack) - 1
         /\ Last(stack) = stack[Len(stack)] /\ Node = stack[Len(stack)].node
         /\ NewStem \in Seq(Chunks) /\ Len(NewStem) = StemLen - depth
         /\ Node.type = "internal" => /\ Len(stack) <= StemLen
                                      /\ NewStem[1] \in Chunks /\ Len(NewStem) >= 1
<1> DEFINE n == Len(stack)
<1>1. n \in Nat \ {0} /\ WalkOK /\ \A i \in 1..n : EntryAt(H, i)
  BY DEF StackOK
<1>2. Last(stack) = stack[n] /\ Node = stack[n].node
  BY DEF Last, Node
<1>3. Node.type = "internal" => n <= StemLen
  BY <1>1, <1>2 DEF EntryAt, InternalAt
<1>4. n - 1 <= StemLen
  <2>1. CASE n = 1
    BY <2>1, StemLenType
  <2>2. CASE n # 1
    <3>1. n - 1 \in 1..n /\ stack[n - 1].node.type = "internal"
      BY <1>1, <2>2 DEF WalkOK
    <3> QED
      BY <1>1, <3>1 DEF EntryAt, InternalAt
  <2> QED
    BY <2>1, <2>2
<1>5. depth = n - 1 /\ depth \in 0..StemLen
  BY <1>1, <1>4, StemLenType DEF WalkOK
<1>6. NewStem \in Seq(Chunks) /\ Len(NewStem) = StemLen - depth
  <2>1. StemOf(op.key) \in Seq(Chunks) /\ Len(StemOf(op.key)) = StemLen
    BY <1>1, StemOfType DEF WalkOK
  <2> QED
    BY <1>5, <2>1, FromType DEF NewStem
<1>7. n <= StemLen => Len(NewStem) >= 1 /\ NewStem[1] \in Chunks
  BY <1>1, <1>5, <1>6, StemLenType
<1> QED
  BY <1>1, <1>2, <1>3, <1>4, <1>5, <1>6, <1>7

\* An entry that stays, over entries whose nodes keep their kinds.
LEMMA EntryKept ==
  ASSUME NEW H, NEW G, Grows(H, G),
         NEW i \in Nat \ {0}, EntryAt(H, i), stack'[i] = stack[i],
         \A j \in 1..(i - 1) : stack'[j].node.type = stack[j].node.type,
         Pending(i) => Pending(i)',
         pc = "walk" /\ i = Len(stack) => Pending(i)' \/ (pc = "walk" /\ i = Len(stack))'
  PROVE  EntryAt(G, i)'
<1> DEFINE e == stack[i]
<1>1. PICK f : f = stack[i]
  OBVIOUS
<1>2. stack[i] = f /\ stack'[i] = f
  BY <1>1
<1>3. CASE f.node.type = "internal"
  <2>1. InternalAt(H, i)
    BY <1>2, <1>3 DEF EntryAt
  <2>2. StemLen - i + 1 \in Int
    BY StemLenType
  <2>3. InternalNode(H, f.node, StemLen - i + 1)
    BY <1>2, <2>1 DEF InternalAt
  <2>4. InternalNode(G, f.node, StemLen - i + 1)'
    BY <2>2, <2>3, InternalNodeKept
  <2>5. HasChild(f.node) \/ Pending(i)' \/ (pc = "walk" /\ i = Len(stack))'
    BY <1>2, <2>1 DEF InternalAt
  <2>6. i > 1 => i - 1 \in 1..(i - 1)
    OBVIOUS
  <2>7. f.parent = i - 1 /\ i <= StemLen
        /\ (i > 1 => stack'[i - 1].node.type = "internal" /\ f.slot \in Chunks)
    BY <1>2, <2>1, <2>6 DEF InternalAt
  <2>8. InternalAt(G, i)'
    BY <1>2, <2>4, <2>5, <2>7 DEF InternalAt, HasChild, InternalNode, Kid
  <2> QED
    BY <1>2, <1>3, <2>8 DEF EntryAt
<1>4. CASE f.node.type = "extension"
  <2>1. ExtensionAt(i)
    BY <1>2, <1>4 DEF EntryAt
  <2>2. ExtensionNode(f.node) /\ f.slot \in Chunks /\ f.parent \in 1..(i - 1)
        /\ stack'[f.parent].node.type = "internal"
    BY <1>2, <2>1 DEF ExtensionAt
  <2>3. SuffixRef(f.node.child)' \/ (f.node.child = None /\ Pending(i)')
    BY <1>2, <2>1, SuffixRefKept DEF ExtensionAt
  <2>4. ExtensionAt(i)'
    BY <1>2, <2>2, <2>3 DEF ExtensionAt, ExtensionNode, SuffixRef
  <2> QED
    BY <1>2, <1>4, <2>4 DEF EntryAt
<1>5. CASE f.node.type = "suffix"
  <2>1. SuffixAt(i)
    BY <1>2, <1>5 DEF EntryAt
  <2>2. SuffixAt(i)'
    BY <1>2, <2>1 DEF SuffixAt
  <2> QED
    BY <1>2, <1>5, <2>2 DEF EntryAt
<1> QED
  BY <1>2, <1>3, <1>4, <1>5 DEF EntryAt

LEMMA RootKept ==
  ASSUME NEW H, NEW G, Grows(H, G), RootOK(H), root' = root, rootFile' = rootFile
  PROVE  RootOK(G)'
<1>1. rootFile' \in {None, Truncated} \/ RootRefOK(G, rootFile)'
  <2>1. ASSUME NEW f, RootRefOK(H, f) PROVE RootRefOK(G, f)'
    BY <2>1, RootRefKept
  <2> QED
    BY <2>1 DEF RootOK, RootRefOK
<1>2. ASSUME root # None
      PROVE  /\ root' = [node |-> root'.node, value |-> root'.value]
             /\ InternalNode(G, root.node, StemLen)'
             /\ root'.value = None \/ RootRefOK(G, root.value)'
  <2>1. PICK r : r = root
    OBVIOUS
  <2>2. InternalNode(G, r.node, StemLen)'
    BY <1>2, <2>1, StemLenType, InternalNodeKept DEF RootOK
  <2>3. r.value = None \/ RootRefOK(G, r.value)'
    BY <1>2, <2>1, RootRefKept DEF RootOK
  <2> QED
    BY <1>2, <2>1, <2>2, <2>3 DEF RootOK, InternalNode, Kid, RootRefOK
<1> QED
  BY <1>1, <1>2 DEF RootOK

-----------------------------------------------------------------------------
(* The walk *)

LEMMA InsertKeeps ==
  ASSUME NoneIsUnlike,
         NEW H, Consistent(H), NEW k \in Keys, NEW v \in Values, Insert(k, v)
  PROVE  Consistent(H)' /\ PcOK'
<1>1. Grows(H, H) /\ StoreOK(H)'
  BY GrowsByNothing DEF Consistent, Insert, disk
<1> PICK start : start = IF root = None THEN [node |-> Internal(NoChildren), value |-> None]
                                        ELSE root
  OBVIOUS
<1>2. /\ root' = start /\ rootFile' = rootFile /\ pc' = "walk" /\ depth' = 0
      /\ stack' = <<Entry(start.node, 0, None)>>
      /\ op'.key = k
  BY DEF Insert, disk
<1>3. /\ start = [node |-> start.node, value |-> start.value]
      /\ InternalNode(H, start.node, StemLen)
      /\ start.value = None \/ RootRefOK(H, start.value)
  <2>1. CASE root = None
    <3>1. start = [node |-> Internal(NoChildren), value |-> None]
      BY <2>1
    <3>2. InternalNode(H, Internal(NoChildren), StemLen)
      BY DEF InternalNode, Internal, NoChildren
    <3> QED
      BY <3>1, <3>2
  <2>2. CASE root # None
    BY <2>2 DEF Consistent, RootOK
  <2> QED
    BY <2>1, <2>2
<1>4. InternalNode(H, start.node, StemLen)'
  BY <1>1, <1>3, StemLenType, InternalNodeKept
<1>5. RootOK(H)'
  <2>1. rootFile' \in {None, Truncated} \/ RootRefOK(H, rootFile)'
    BY <1>1, <1>2, RootRefKept DEF Consistent, RootOK, RootRefOK
  <2>2. start.value = None \/ RootRefOK(H, start.value)'
    BY <1>1, <1>3, RootRefKept
  <2> QED
    BY <1>2, <1>3, <1>4, <2>1, <2>2 DEF RootOK, InternalNode, Kid, RootRefOK
<1>6. root' # None
  BY <1>2, <1>3 DEF NoneIsUnlike
<1>7. Len(stack') = 1 /\ stack'[1] = Entry(start.node, 0, None)
      /\ Sequence(stack')
  BY <1>2 DEF Sequence
<1>8. start.node.type = "internal"
  BY <1>3, InternalReference DEF InternalNode
<1>9. EntryAt(H, 1)'
  <2>1. InternalNode(H, start.node, StemLen - 1 + 1)'
    <3>1. StemLen - 1 + 1 = StemLen
      BY StemLenType
    <3> QED
      BY <1>4, <3>1
  <2>2. InternalAt(H, 1)'
    BY <1>2, <1>7, <2>1, StemLenType DEF InternalAt, Entry, InternalNode, Kid
  <2> QED
    BY <1>7, <1>8, <2>2 DEF EntryAt, Entry
<1>10. WalkOK'
  BY <1>2, <1>7, <1>8 DEF WalkOK, Node, Last, Entry
<1>11. StackOK(H)'
  BY <1>2, <1>6, <1>7, <1>9, <1>10 DEF StackOK, Entry, Sequence
<1> QED
  BY <1>1, <1>2, <1>5, <1>11 DEF Consistent, PcOK

\* In a walk every node below the top waits for the next one, so all of them
\* stay as they are whatever is put on the stack after the first m.
LEMMA LowerEntriesKept ==
  ASSUME NEW H, StackOK(H), pc = "walk", NEW G, Grows(H, G),
         NEW m \in 0..Len(stack),
         \A i \in 1..m : stack'[i] = stack[i],
         Len(stack') \in Nat, Len(stack') > m, stack'[m + 1].parent = m
  PROVE  \A i \in 1..m : EntryAt(G, i)'
<1> TAKE i \in 1..m
<1>1. /\ Len(stack) \in Nat \ {0}
      /\ i \in 1..Len(stack) /\ EntryAt(H, i)
      /\ \A j \in 1..Len(stack) : stack[j].parent = j - 1
  BY DEF StackOK, WalkOK
<1>2. Pending(i)'
  <2>1. i + 1 \in (i + 1)..Len(stack')
    BY <1>1
  <2>2. stack'[i + 1].parent = i
    <3>1. CASE i = m
      BY <3>1
    <3>2. CASE i # m
      <4>1. i + 1 \in 1..m /\ i + 1 \in 1..Len(stack)
        BY <1>1, <3>2
      <4>2. stack[i + 1].parent = i + 1 - 1
        BY <1>1, <4>1
      <4> QED
        BY <4>1, <4>2
    <3> QED
      BY <3>1, <3>2
  <2> QED
    BY <2>1, <2>2 DEF Pending
<1>3. \A j \in 1..(i - 1) : stack'[j].node.type = stack[j].node.type
  BY <1>1
<1>4. stack'[i] = stack[i] /\ i \in Nat \ {0}
  BY <1>1
<1> QED
  BY <1>1, <1>2, <1>3, <1>4, EntryKept

\* The facts about a new stack that the walk's steps have in common.
LEMMA WalkGoesOn ==
  ASSUME NEW H, Consistent(H), pc = "walk", UNCHANGED <<disk, root>>,
         pc' \in {"walk", "commit"},
         Len(stack') \in Nat \ {0}, Sequence(stack'),
         \A i \in 1..Len(stack') : EntryAt(H, i)',
         stack'[1].node = stack[1].node,
         pc' = "walk" => WalkOK'
  PROVE  Consistent(H)' /\ PcOK'
<1>1. Grows(H, H) /\ StoreOK(H)' /\ RootOK(H)'
  BY GrowsByNothing, RootKept DEF Consistent, disk
<1>2. root' # None /\ root'.node = stack'[1].node
  BY DEF Consistent, StackOK
<1>3. StackOK(H)'
  BY <1>2 DEF StackOK, Sequence
<1> QED
  BY <1>1, <1>3 DEF Consistent, PcOK

LEMMA NewSuffixType ==
  /\ NewSuffix.type = "suffix"
  /\ NewSuffix = Suffix(NewSuffix.children)
  BY DEF NewSuffix, Suffix

\* An entry above a stack that a walk leaves behind.
LEMMA NewExtensionEntry ==
  ASSUME NEW H, NEW i \in Nat, NEW stem \in Seq(Chunks), NEW child, NEW p \in 1..(i - 1),
         NEW c \in Chunks,
         stack'[i] = Entry(Extension(stem, child), p, c),
         stack'[p].node.type = "internal",
         SuffixRef(child)' \/ (child = None /\ Pending(i)')
  PROVE  EntryAt(H, i)'
<1>1. /\ stack'[i].node = Extension(stem, child) /\ stack'[i].parent = p
      /\ stack'[i].slot = c /\ stack'[i].node.type = "extension"
      /\ stack'[i].node.stem = stem /\ stack'[i].node.child = child
  BY DEF Entry, Extension
<1>2. ExtensionAt(i)'
  BY <1>1 DEF ExtensionAt, ExtensionNode, SuffixRef
<1> QED
  BY <1>1, <1>2 DEF EntryAt

LEMMA NewSuffixEntry ==
  ASSUME NEW H, NEW i \in Nat, NEW node, node = Suffix(node.children), NEW p \in 1..(i - 1),
         stack'[i] = Entry(node, p, "child"),
         stack'[p].node.type = "extension"
  PROVE  EntryAt(H, i)'
<1>1. /\ stack'[i].node = node /\ stack'[i].parent = p
      /\ stack'[i].slot = "child" /\ node.type = "suffix"
  BY SuffixReference DEF Entry
<1>2. SuffixAt(i)'
  BY <1>1 DEF SuffixAt
<1> QED
  BY <1>1, <1>2 DEF EntryAt

LEMMA NewInternalEntry ==
  ASSUME NEW H, NEW i \in Nat, NEW node, InternalNode(H, node, StemLen - i + 1)', NEW c \in Chunks,
         i > 1, i <= StemLen,
         stack'[i] = Entry(node, i - 1, c),
         stack'[i - 1].node.type = "internal",
         HasChild(node) \/ Pending(i)' \/ (pc = "walk" /\ i = Len(stack))'
  PROVE  EntryAt(H, i)'
<1>1. node.type = "internal"
  BY InternalReference DEF InternalNode
<1>2. stack'[i].node = node /\ stack'[i].parent = i - 1 /\ stack'[i].slot = c
  BY DEF Entry
<1>3. InternalAt(H, i)'
  BY <1>2 DEF InternalAt, InternalNode, Kid, HasChild
<1> QED
  BY <1>1, <1>2, <1>3 DEF EntryAt

LEMMA WalkEmptySlotKeeps ==
  ASSUME NEW H, Consistent(H), WalkEmptySlot
  PROVE  Consistent(H)' /\ PcOK'
<1> PICK n, stem, c, node :
      n = Len(stack) /\ stem = From(NewStem, 1) /\ c = NewStem[1] /\ node = NewSuffix
  OBVIOUS
<1> DEFINE ext == Entry(Extension(stem, None), n, c)
           suf == Entry(node, n + 1, "child")
<1>1. /\ pc = "walk" /\ Node.type = "internal" /\ pc' = "commit"
      /\ UNCHANGED <<disk, root>> /\ stack' = stack \o <<ext, suf>>
  BY DEF WalkEmptySlot, Commence
<1>2. /\ n \in Nat \ {0} /\ Node = stack[n].node
      /\ NewStem \in Seq(Chunks) /\ Len(NewStem) >= 1 /\ c \in Chunks
  BY <1>1, WalkTop DEF Consistent
<1>3. /\ Len(stack') = n + 2 /\ Sequence(stack')
      /\ \A i \in 1..n : stack'[i] = stack[i]
      /\ stack'[n + 1] = ext /\ stack'[n + 2] = suf
  <2> PICK t : t = <<ext, suf>>
    OBVIOUS
  <2>1. Len(t) = 2 /\ t[1] = ext /\ t[2] = suf /\ Sequence(t)
    BY DEF Sequence
  <2>2. stack' = stack \o t
    BY <1>1
  <2> HIDE DEF ext, suf
  <2>3. 1 \in 1..Len(t) /\ 2 \in 1..Len(t)
    BY <2>1
  <2>4. /\ Len(stack \o t) = Len(stack) + Len(t) /\ Sequence(stack \o t)
        /\ \A i \in 1..Len(stack) : (stack \o t)[i] = stack[i]
        /\ \A i \in 1..Len(t) : (stack \o t)[Len(stack) + i] = t[i]
    <3>1. Len(stack) \in Nat /\ Sequence(stack) /\ Len(t) \in Nat
      BY <1>1, <1>2, <2>1 DEF Consistent, StackOK
    <3> QED
      BY <2>1, <3>1, AppendedEntries
  <2> QED
    BY <1>2, <2>1, <2>2, <2>3, <2>4
<1>4. stem \in Seq(Chunks)
  BY <1>2, FromType
<1>5. \A i \in 1..n : EntryAt(H, i)'
  <2>1. StackOK(H) /\ Grows(H, H)
    BY <1>1, GrowsByNothing DEF Consistent, disk
  <2>2. n \in 0..Len(stack) /\ Len(stack') \in Nat /\ Len(stack') > n
        /\ stack'[n + 1].parent = n
    BY <1>2, <1>3 DEF Entry
  <2> QED
    BY <1>1, <1>3, <2>1, <2>2, LowerEntriesKept
<1>6. EntryAt(H, n + 1)'
  <2>1. Pending(n + 1)'
    <3>1. n + 2 \in (n + 1 + 1)..Len(stack') /\ stack'[n + 2].parent = n + 1
      BY <1>2, <1>3 DEF Entry
    <3> QED
      BY <3>1 DEF Pending
  <2>2. stack'[n].node.type = "internal" /\ n \in 1..(n + 1 - 1)
    BY <1>1, <1>2, <1>3
  <2>3. stack'[n + 1] = Entry(Extension(stem, None), n, c) /\ n + 1 \in Nat
    BY <1>2, <1>3
  <2>4. ASSUME NEW i, i = n + 1 PROVE EntryAt(H, i)'
    <3>1. Pending(i)' /\ i \in Nat /\ n \in 1..(i - 1)
      BY <1>2, <2>1, <2>2, <2>4
    <3>2. stack'[i] = Entry(Extension(stem, None), n, c)
      BY <2>3, <2>4
    <3> QED
      BY <1>2, <1>4, <2>2, <3>1, <3>2, NewExtensionEntry
  <2> QED
    BY <2>4
<1>7. EntryAt(H, n + 2)'
  <2>1. stack'[n + 1].node.type = "extension"
    BY <1>3 DEF Entry, Extension
  <2> QED
    BY <1>2, <1>3, <2>1, NewSuffixType, NewSuffixEntry
<1>8. \A i \in 1..(n + 2) : EntryAt(H, i)'
  BY <1>2, <1>5, <1>6, <1>7
<1>9. stack'[1].node = stack[1].node
  BY <1>2, <1>3
<1>10. Len(stack') \in Nat \ {0} /\ pc' \in {"walk", "commit"} /\ pc' # "walk"
       /\ Sequence(stack')
       /\ \A i \in 1..Len(stack') : EntryAt(H, i)'
  BY <1>1, <1>2, <1>3, <1>8
<1> QED
  BY <1>1, <1>9, <1>10, WalkGoesOn

LEMMA AppendedEntry ==
  ASSUME NEW s, Len(s) \in Nat, Sequence(s), NEW e
  PROVE  /\ Len(Append(s, e)) = Len(s) + 1
         /\ Sequence(Append(s, e))
         /\ \A i \in 1..Len(s) : Append(s, e)[i] = s[i]
         /\ Append(s, e)[Len(s) + 1] = e
<1> PICK S : s \in Seq(S)
  BY SequenceOf
<1>1. s \in Seq(S \cup {e})
  OBVIOUS
<1>2. Append(s, e) \in Seq(S \cup {e}) /\ Len(Append(s, e)) = Len(s) + 1
  BY <1>1
<1>3. Sequence(Append(s, e))
  <2>1. ASSUME NEW T, NEW r \in Seq(T) PROVE Sequence(r)
    <3>1. r \in [1..Len(r) -> T]
      OBVIOUS
    <3> QED
      BY <3>1 DEF Sequence
  <2> QED
    BY <1>2, <2>1
<1> QED
  BY <1>1, <1>2, <1>3

\* A node that the database holds, as it is read into the walk.
LEMMA LoadInternalOrExtension ==
  ASSUME NEW ref, db[ref].type # "suffix"
  PROVE  Load(ref) = db[ref]
  BY DEF Load, Decode

LEMMA LoadSuffix ==
  ASSUME NEW ref, db[ref].type = "suffix"
  PROVE  Load(ref) = Suffix(Load(ref).children)
  BY DEF Load, Decode, Suffix

LEMMA SetSlotOfSuffix ==
  ASSUME NEW node, node = Suffix(node.children), NEW slot, NEW v
  PROVE  SetSlot(node, slot, v) = Suffix(SetSlot(node, slot, v).children)
<1>1. node.type = "suffix"
  BY SuffixReference
<1> QED
  BY <1>1 DEF SetSlot, Suffix

LEMMA WalkChildKeeps ==
  ASSUME NEW H, Consistent(H), WalkChild
  PROVE  Consistent(H)' /\ PcOK'
<1>p. PICK n, c, ref, node :
      /\ n = Len(stack) /\ c = NewStem[1]
      /\ ref = Node.children[NewStem[1]] /\ node = Load(ref)
  OBVIOUS
<1>k. PICK k : k = n + 1
  OBVIOUS
<1>1. /\ pc = "walk" /\ Node.type = "internal" /\ pc' = "walk" /\ ref # None
      /\ UNCHANGED <<disk, root, op>> /\ depth' = depth + 1
      /\ stack' = Append(stack, Entry(node, n, c))
  BY <1>p DEF WalkChild
<1>2. /\ n \in Nat \ {0} /\ Node = stack[n].node /\ c \in Chunks
      /\ n <= StemLen /\ depth = n - 1
      /\ Sequence(stack)
  BY <1>1, <1>p, WalkTop DEF Consistent, StackOK
<1>3. /\ Len(stack') = k /\ k = n + 1 /\ k \in Nat \ {0}
      /\ Sequence(stack')
      /\ \A i \in 1..n : stack'[i] = stack[i]
      /\ stack'[k] = Entry(node, n, c)
  BY <1>1, <1>2, <1>p, <1>k, AppendedEntry
<1>4. StackOK(H) /\ StoreOK(H) /\ StoreOK(H)' /\ Grows(H, H)
  BY <1>1, GrowsByNothing DEF Consistent, disk
<1>5. Kid(H, ref, StemLen - n + 1)
  <2>1. InternalAt(H, n)
    BY <1>1, <1>2, <1>4, <1>p DEF StackOK, EntryAt
  <2> QED
    BY <1>1, <1>2, <1>p, <2>1 DEF InternalAt, InternalNode
<1>6. node = db[ref] /\ Stored(H, ref) /\ H[ref] \in Nat
  BY <1>4, <1>5, <1>p, LoadInternalOrExtension DEF Kid, StoreOK
<1>7. \A i \in 1..n : EntryAt(H, i)'
  <2>1. n \in 0..Len(stack) /\ Len(stack') \in Nat /\ Len(stack') > n
        /\ stack'[n + 1].parent = n
    BY <1>2, <1>3, <1>p DEF Entry
  <2> QED
    BY <1>1, <1>3, <1>4, <2>1, LowerEntriesKept
<1>8. stack'[n].node.type = "internal" /\ n \in 1..(k - 1) /\ n = k - 1
  <2>1. n \in 1..n /\ n \in 1..(k - 1) /\ n = k - 1
    BY <1>2, <1>3
  <2>2. stack'[n] = stack[n]
    BY <1>3, <2>1
  <2> QED
    BY <1>1, <1>2, <2>1, <2>2
<1>9. ASSUME node.type = "internal" PROVE EntryAt(H, k)'
  <2>1. InternalNode(H, node, H[ref]) /\ HasChild(node) /\ H[ref] > 0
        /\ H[ref] < StemLen - n + 1
    BY <1>5, <1>6, <1>9 DEF Kid, Stored
  <2>2. H[ref] <= StemLen - k + 1 /\ k <= StemLen /\ StemLen - k + 1 \in Int /\ k > 1
    <3>1. ASSUME NEW h \in Nat, NEW l \in Nat, NEW a \in Nat \ {0}, h > 0, h < l - a + 1
          PROVE  /\ h <= l - (a + 1) + 1 /\ a + 1 <= l
                 /\ l - (a + 1) + 1 \in Int /\ a + 1 > 1
      BY <3>1
    <3>2. StemLen \in Nat /\ H[ref] \in Nat /\ n \in Nat \ {0} /\ k = n + 1
      BY <1>2, <1>3, <1>6, StemLenType
    <3>3. H[ref] > 0 /\ H[ref] < StemLen - n + 1
      BY <2>1
    <3>4. /\ H[ref] <= StemLen - (n + 1) + 1 /\ n + 1 <= StemLen
          /\ StemLen - (n + 1) + 1 \in Int /\ n + 1 > 1
      BY <3>1, <3>2, <3>3
    <3> QED
      BY <3>2, <3>4
  <2>3. InternalNode(H, node, StemLen - k + 1)
    BY <1>4, <1>6, <2>1, <2>2, InternalNodeHigher
  <2>4. InternalNode(H, node, StemLen - k + 1)'
    BY <1>4, <2>2, <2>3, InternalNodeKept
  <2>5. stack'[k] = Entry(node, k - 1, c) /\ stack'[k - 1].node.type = "internal"
    BY <1>3, <1>8
  <2> QED
    BY <1>2, <1>3, <2>1, <2>2, <2>4, <2>5, NewInternalEntry
<1>10. ASSUME node.type = "extension" PROVE EntryAt(H, k)'
  <2>1. ExtensionNode(node) /\ SuffixRef(node.child)
    BY <1>6, <1>10 DEF Stored
  <2>2. PICK stem, child : stem = node.stem /\ child = node.child
    OBVIOUS
  <2>3. /\ stack'[k] = Entry(Extension(stem, child), n, c) /\ stem \in Seq(Chunks)
        /\ SuffixRef(child)'
    BY <1>3, <1>4, <2>1, <2>2, SuffixRefKept DEF ExtensionNode
  <2> QED
    BY <1>2, <1>3, <1>8, <2>3, NewExtensionEntry
<1>11. node.type \in {"internal", "extension"}
  BY <1>5, <1>6 DEF Kid
<1>12. \A i \in 1..k : EntryAt(H, i)'
  <2>1. EntryAt(H, k)'
    BY <1>9, <1>10, <1>11
  <2>2. \A i \in 1..k : i \in 1..n \/ i = k
    BY <1>2, <1>3
  <2> QED
    BY <1>7, <2>1, <2>2
<1>13. WalkOK'
  <2>1. WalkOK
    BY <1>1, <1>4 DEF StackOK
  <2>2. \A i \in 1..k : stack'[i].parent = i - 1
    <3>1. stack'[k].parent = k - 1
      BY <1>3, <1>8 DEF Entry
    <3>2. ASSUME NEW i \in 1..k, i # k PROVE stack'[i].parent = i - 1
      <4>1. i \in 1..n /\ i \in 1..Len(stack)
        BY <1>2, <1>3, <1>p, <3>2
      <4> QED
        BY <1>3, <2>1, <4>1 DEF WalkOK
    <3> QED
      BY <3>1, <3>2
  <2>3. \A i \in 1..n : stack'[i].node.type = "internal"
    <3>1. stack[n].node.type = "internal"
      BY <1>1, <1>2
    <3>2. \A i \in 1..n : i # n => i \in 1..(Len(stack) - 1)
      BY <1>2, <1>p
    <3>3. \A i \in 1..n : stack[i].node.type = "internal"
      BY <2>1, <3>1, <3>2 DEF WalkOK
    <3> QED
      BY <1>3, <3>3
  <2>4. Node' = node
    BY <1>3 DEF Node, Last, Entry
  <2>5. depth' = k - 1 /\ op'.key \in Keys
    <3>1. op'.key \in Keys
      BY <1>1, <2>1 DEF WalkOK
    <3> QED
      BY <1>1, <1>2, <1>3, <3>1
  <2>6. Len(stack') = k /\ n = k - 1 /\ Node'.type \in {"internal", "extension"}
    BY <1>3, <1>8, <1>11, <2>4
  <2> QED
    BY <2>2, <2>3, <2>5, <2>6 DEF WalkOK
<1>14. stack'[1].node = stack[1].node
  BY <1>2, <1>3
<1> QED
  BY <1>1, <1>3, <1>12, <1>13, <1>14, WalkGoesOn

LEMMA WalkSameStemKeeps ==
  ASSUME NEW H, Consistent(H), WalkSameStem
  PROVE  Consistent(H)' /\ PcOK'
<1>p. PICK n, node :
      /\ n = Len(stack)
      /\ node = SetSlot(Load(Node.child), SuffixOf(op.key), op.value)
  OBVIOUS
<1>k. PICK k : k = n + 1
  OBVIOUS
<1>1. /\ pc = "walk" /\ Node.type = "extension" /\ pc' = "commit"
      /\ UNCHANGED <<disk, root>>
      /\ stack' = Append(stack, Entry(node, n, "child"))
  BY <1>p DEF WalkSameStem, Commence
<1>2. /\ n \in Nat \ {0} /\ Node = stack[n].node
      /\ Sequence(stack)
  BY <1>1, <1>p, WalkTop DEF Consistent, StackOK
<1>3. /\ Len(stack') = k /\ k = n + 1 /\ k \in Nat \ {0}
      /\ Sequence(stack')
      /\ \A i \in 1..n : stack'[i] = stack[i]
      /\ stack'[k] = Entry(node, n, "child")
  BY <1>1, <1>2, <1>p, <1>k, AppendedEntry
<1>4. StackOK(H) /\ Grows(H, H)
  BY <1>1, GrowsByNothing DEF Consistent, disk
<1>5. SuffixRef(Node.child)
  <2>1. ExtensionAt(n) /\ ~ Pending(n)
    BY <1>1, <1>2, <1>4, <1>p DEF StackOK, EntryAt, Pending
  <2> QED
    BY <1>2, <2>1 DEF ExtensionAt
<1>6. node = Suffix(node.children)
  BY <1>5, <1>p, LoadSuffix, SetSlotOfSuffix DEF SuffixRef
<1>7. \A i \in 1..n : EntryAt(H, i)'
  <2>1. n \in 0..Len(stack) /\ Len(stack') \in Nat /\ Len(stack') > n
        /\ stack'[n + 1].parent = n
    BY <1>2, <1>3, <1>p DEF Entry
  <2> QED
    BY <1>1, <1>3, <1>4, <2>1, LowerEntriesKept
<1>8. EntryAt(H, k)'
  <2>1. stack'[n].node.type = "extension" /\ n \in 1..(k - 1)
    BY <1>1, <1>2, <1>3
  <2> QED
    BY <1>3, <1>6, <2>1, NewSuffixEntry
<1>9. \A i \in 1..k : EntryAt(H, i)'
  BY <1>2, <1>3, <1>7, <1>8
<1>10. stack'[1].node = stack[1].node /\ pc' # "walk"
  BY <1>1, <1>2, <1>3
<1> QED
  BY <1>1, <1>3, <1>9, <1>10, WalkGoesOn

LEMMA FrontEntries ==
  ASSUME NEW s, Len(s) \in Nat \ {0}, Sequence(s)
  PROVE  /\ Len(Front(s)) = Len(s) - 1 /\ Sequence(Front(s))
         /\ \A i \in 1..(Len(s) - 1) : Front(s)[i] = s[i]
<1> PICK S : s \in Seq(S)
  BY SequenceOf
<1> PICK f : f = Front(s)
  OBVIOUS
<1>1. f = SubSeq(s, 1, Len(s) - 1)
  BY DEF Front
<1>2. f \in Seq(S) /\ Len(f) = Len(s) - 1
      /\ \A i \in 1..(Len(s) - 1) : f[i] = s[i]
  <2>1. \A i \in 1..(Len(s) - 1) : f[i] = s[1 + i - 1]
    BY <1>1
  <2>2. \A i \in 1..(Len(s) - 1) : 1 + i - 1 = i
    OBVIOUS
  <2>3. Len(f) = Len(s) - 1 /\ f \in Seq(S)
    <3>1. Len(s) - 1 - 1 + 1 = Len(s) - 1 /\ 1 \in Nat /\ Len(s) - 1 \in Nat
      OBVIOUS
    <3>2. Len(SubSeq(s, 1, Len(s) - 1)) = Len(s) - 1
      BY <3>1
    <3>3. SubSeq(s, 1, Len(s) - 1) \in Seq(S)
      BY <3>1
    <3> QED
      BY <1>1, <3>2, <3>3
  <2> QED
    BY <2>1, <2>2, <2>3
<1>3. Sequence(f)
  <2>1. f \in [1..Len(f) -> S]
    BY <1>2
  <2> QED
    BY <2>1 DEF Sequence
<1> QED
  BY <1>2, <1>3

\* The nodes that a split after m chunks leaves on the stack, and where: n
\* below the top one, old the extension there, ns the rest of the new stem.
SplitStack(s, n, m, old, ns) ==
  /\ Len(s) = n + m + 3 /\ Sequence(s)
  /\ \A i \in 1..(n - 1) : s[i] = stack[i]
  /\ s[n] = Entry(Internal(NoChildren), Last(stack).parent, Last(stack).slot)
  /\ \A i \in (n + 1)..(n + m) :
       s[i] = Entry(Internal(NoChildren), i - 1, old.stem[i - n])
  /\ s[n + m + 1] = Entry(Extension(From(old.stem, m + 1), old.child),
                          n + m, old.stem[m + 1])
  /\ s[n + m + 2] = Entry(Extension(From(ns, m + 1), None), n + m, ns[m + 1])
  /\ s[n + m + 3] = Entry(NewSuffix, n + m + 2, "child")

LEMMA SplitEntries ==
  ASSUME NEW H, StackOK(H), pc = "walk", Node.type = "extension",
         NEW m \in Nat, NEW s, s = Split(Last(stack), m)
  PROVE  SplitStack(s, Len(stack), m, Node, NewStem)
<1>n. PICK n, old, ns : n = Len(stack) /\ old = Node /\ ns = NewStem
  OBVIOUS
<1> DEFINE top == Last(stack)
<1>f. PICK f : f = Front(stack)
  OBVIOUS
<1>c. PICK chain : chain = [i \in 1..(m + 1) |->
                 Entry(Internal(NoChildren),
                       IF i = 1 THEN top.parent ELSE n + i - 2,
                       IF i = 1 THEN top.slot ELSE old.stem[i - 1])]
  OBVIOUS
<1>e. PICK e1, e2, e3 :
      /\ e1 = Entry(Extension(From(old.stem, m + 1), old.child), n + m, old.stem[m + 1])
      /\ e2 = Entry(Extension(From(ns, m + 1), None), n + m, ns[m + 1])
      /\ e3 = Entry(NewSuffix, n + m + 2, "child")
  OBVIOUS
<1>t. PICK t : t = <<e1, e2, e3>>
  OBVIOUS
<1>1. /\ n \in Nat \ {0} /\ Sequence(stack) /\ top.node = old
  BY <1>n, WalkTop DEF StackOK, Node
<1>2. s = f \o chain \o t
  BY <1>1, <1>n, <1>f, <1>c, <1>e, <1>t DEF Split
<1>3. /\ Len(f) = n - 1 /\ Sequence(f) /\ \A i \in 1..(n - 1) : f[i] = stack[i]
  BY <1>1, <1>n, <1>f, FrontEntries
<1>4. Len(chain) = m + 1 /\ Sequence(chain)
  BY <1>c DEF Sequence
<1>5. /\ chain[1] = Entry(Internal(NoChildren), top.parent, top.slot)
      /\ \A i \in 2..(m + 1) :
           chain[i] = Entry(Internal(NoChildren), n + i - 2, old.stem[i - 1])
  BY <1>c
<1>6. Len(t) = 3 /\ Sequence(t) /\ t[1] = e1 /\ t[2] = e2 /\ t[3] = e3
  BY <1>t DEF Sequence
<1>a. PICK a : a = f \o chain
  OBVIOUS
<1>7. /\ Len(a) = n + m /\ Sequence(a)
      /\ \A i \in 1..(n - 1) : a[i] = f[i]
      /\ \A i \in 1..(m + 1) : a[n - 1 + i] = chain[i]
  <2>1. Len(f) \in Nat /\ Sequence(f) /\ Len(chain) \in Nat /\ Sequence(chain)
    BY <1>1, <1>3, <1>4
  <2>2. /\ Len(f \o chain) = Len(f) + Len(chain) /\ Sequence(f \o chain)
        /\ \A i \in 1..Len(f) : (f \o chain)[i] = f[i]
        /\ \A i \in 1..Len(chain) : (f \o chain)[Len(f) + i] = chain[i]
    BY <2>1, AppendedEntries
  <2>3. Len(f) + Len(chain) = n + m
    BY <1>1, <1>3, <1>4
  <2> QED
    BY <1>3, <1>4, <1>a, <2>2, <2>3
<1>8. /\ Len(s) = n + m + 3 /\ Sequence(s)
      /\ \A i \in 1..(n + m) : s[i] = a[i]
      /\ \A i \in 1..3 : s[n + m + i] = t[i]
  <2>1. Len(a) \in Nat /\ Sequence(a) /\ Len(t) \in Nat /\ Sequence(t)
    BY <1>1, <1>6, <1>7
  <2>2. /\ Len(a \o t) = Len(a) + Len(t) /\ Sequence(a \o t)
        /\ \A i \in 1..Len(a) : (a \o t)[i] = a[i]
        /\ \A i \in 1..Len(t) : (a \o t)[Len(a) + i] = t[i]
    BY <2>1, AppendedEntries
  <2>3. s = a \o t /\ Len(a) + Len(t) = n + m + 3
    BY <1>1, <1>2, <1>6, <1>7, <1>a
  <2> QED
    BY <1>6, <1>7, <2>2, <2>3
<1>9. \A i \in 1..(n - 1) : s[i] = stack[i]
  <2> TAKE i \in 1..(n - 1)
  <2>1. i \in 1..(n + m)
    BY <1>1
  <2> QED
    BY <1>3, <1>7, <1>8, <2>1
<1>10. s[n] = chain[1]
  <2>1. n \in 1..(n + m) /\ 1 \in 1..(m + 1) /\ n - 1 + 1 = n
    BY <1>1
  <2> QED
    BY <1>7, <1>8, <2>1
<1>11. ASSUME NEW i \in (n + 1)..(n + m)
       PROVE  s[i] = Entry(Internal(NoChildren), i - 1, old.stem[i - n])
  <2>j. PICK j : j = i - n + 1
    OBVIOUS
  <2>1. /\ i \in 1..(n + m) /\ j \in 1..(m + 1) /\ j \in 2..(m + 1)
        /\ n - 1 + j = i /\ n + j - 2 = i - 1 /\ j - 1 = i - n
    BY <1>1, <2>j
  <2>2. s[i] = chain[j]
    BY <1>7, <1>8, <2>1
  <2> QED
    BY <1>5, <2>1, <2>2
<1>12. s[n + m + 1] = e1 /\ s[n + m + 2] = e2 /\ s[n + m + 3] = e3
  BY <1>6, <1>8
<1> QED
  BY <1>5, <1>8, <1>9, <1>10, <1>11, <1>12, <1>e, <1>n DEF SplitStack

LEMMA NoChildrenType ==
  ASSUME NEW H, NEW h
  PROVE  InternalNode(H, Internal(NoChildren), h)'
  BY DEF InternalNode, Internal, NoChildren

LEMMA WalkSplitKeeps ==
  ASSUME NEW H, Consistent(H), WalkSplit
  PROVE  Consistent(H)' /\ PcOK'
<1>n. PICK n, m, old, ns, slot, s :
        /\ n = Len(stack) /\ m = MatchLength(Node.stem, NewStem)
        /\ old = Node /\ ns = NewStem /\ slot = Last(stack).slot
        /\ s = Split(Last(stack), MatchLength(Node.stem, NewStem))
  OBVIOUS
<1>1. /\ pc = "walk" /\ Node.type = "extension" /\ pc' = "commit"
      /\ UNCHANGED <<disk, root>>
      /\ stack' = s /\ s = Split(Last(stack), m)
      /\ m < Len(old.stem) /\ m < Len(ns)
  BY <1>n DEF WalkSplit, Commence
<1>2. StackOK(H) /\ Grows(H, H)
  BY <1>1, GrowsByNothing DEF Consistent, disk
<1>3. /\ n \in Nat \ {0} /\ n - 1 <= StemLen /\ Last(stack) = stack[n] /\ old = stack[n].node
      /\ ns \in Seq(Chunks) /\ Len(ns) = StemLen - (n - 1)
  BY <1>1, <1>2, <1>n, WalkTop
<1>4. WalkOK /\ EntryAt(H, n) /\ n > 1
  <2>1. WalkOK /\ EntryAt(H, n)
    BY <1>1, <1>2, <1>3, <1>n DEF StackOK
  <2> QED
    BY <1>1, <1>3, <1>n, <2>1 DEF EntryAt
<1>5. /\ old = Extension(old.stem, old.child) /\ old.stem \in Seq(Chunks)
      /\ SuffixRef(old.child) /\ slot \in Chunks
  <2>1. ExtensionAt(n)
    BY <1>1, <1>3, <1>4, <1>n DEF EntryAt
  <2>2. ~ Pending(n)
    BY <1>3, <1>n DEF Pending
  <2> QED
    BY <1>3, <1>n, <2>1, <2>2 DEF ExtensionAt, ExtensionNode
<1>6. Last(stack).parent = n - 1 /\ stack[n - 1].node.type = "internal"
  BY <1>3, <1>4, <1>n DEF WalkOK
<1>7. m \in Nat /\ n + m <= StemLen
  <2>1. m \in Nat
    BY <1>3, <1>5, <1>n, MatchLengthType
  <2> QED
    BY <1>1, <1>3, <2>1, StemLenType
<1>8. /\ Len(stack') = n + m + 3 /\ Sequence(stack')
      /\ \A i \in 1..(n - 1) : stack'[i] = stack[i]
      /\ stack'[n] = Entry(Internal(NoChildren), n - 1, slot)
      /\ \A i \in (n + 1)..(n + m) :
           stack'[i] = Entry(Internal(NoChildren), i - 1, old.stem[i - n])
      /\ stack'[n + m + 1] = Entry(Extension(From(old.stem, m + 1), old.child),
                                   n + m, old.stem[m + 1])
      /\ stack'[n + m + 2] = Entry(Extension(From(ns, m + 1), None), n + m, ns[m + 1])
      /\ stack'[n + m + 3] = Entry(NewSuffix, n + m + 2, "child")
  <2>1. s = Split(Last(stack), m) /\ pc = "walk" /\ Node.type = "extension"
    BY <1>1
  <2>2. SplitStack(s, Len(stack), m, Node, NewStem)
    BY <1>2, <1>7, <2>1, SplitEntries
  <2>3. SplitStack(s, n, m, old, ns)
    BY <1>n, <2>2
  <2> QED
    BY <1>1, <1>6, <1>n, <2>3 DEF SplitStack
<1>9. \A i \in 1..(n - 1) : EntryAt(H, i)'
  <2>1. n - 1 \in 0..Len(stack) /\ Len(stack') \in Nat /\ Len(stack') > n - 1
        /\ stack'[n - 1 + 1].parent = n - 1
    BY <1>3, <1>7, <1>8, <1>n DEF Entry
  <2> QED
    BY <1>1, <1>2, <1>8, <2>1, LowerEntriesKept
<1>10. \A i \in n..(n + m) : /\ stack'[i].node = Internal(NoChildren)
                             /\ stack'[i].node.type = "internal"
                             /\ stack'[i].parent = i - 1 /\ stack'[i].slot \in Chunks
                             /\ stack'[i] = Entry(Internal(NoChildren), i - 1, stack'[i].slot)
  <2> TAKE i \in n..(n + m)
  <2>1. CASE i = n
    BY <1>5, <1>8, <2>1 DEF Entry, Internal
  <2>2. CASE i # n
    <3>1. i \in (n + 1)..(n + m) /\ i - n \in 1..Len(old.stem)
      BY <1>1, <1>3, <1>5, <1>7, <2>2
    <3>2. old.stem[i - n] \in Chunks
      BY <1>5, <3>1
    <3>3. stack'[i] = Entry(Internal(NoChildren), i - 1, old.stem[i - n])
      BY <1>8, <3>1
    <3> QED
      BY <3>2, <3>3 DEF Entry, Internal
  <2> QED
    BY <2>1, <2>2
<1>11. \A i \in n..(n + m) : EntryAt(H, i)'
  <2> TAKE i \in n..(n + m)
  <2>1. i \in Nat /\ i > 1 /\ i <= StemLen
    BY <1>3, <1>4, <1>7, StemLenType
  <2>2. Pending(i)'
    <3>1. i + 1 \in (i + 1)..Len(stack')
      BY <1>3, <1>7, <1>8
    <3>2. stack'[i + 1].parent = i
      <4>1. CASE i = n + m
        BY <1>8, <4>1 DEF Entry
      <4>2. CASE i # n + m
        <5>1. i + 1 \in n..(n + m) /\ i + 1 - 1 = i
          BY <1>3, <1>7, <4>2
        <5> QED
          BY <1>10, <5>1
      <4> QED
        BY <4>1, <4>2
    <3> QED
      BY <3>1, <3>2 DEF Pending
  <2>3. stack'[i - 1].node.type = "internal"
    <3>1. CASE i = n
      BY <1>3, <1>4, <1>6, <1>8, <3>1
    <3>2. CASE i # n
      <4>1. i - 1 \in n..(n + m)
        BY <1>3, <1>7, <3>2
      <4> QED
        BY <1>10, <4>1
    <3> QED
      BY <3>1, <3>2
  <2>4. InternalNode(H, Internal(NoChildren), StemLen - i + 1)'
    BY NoChildrenType
  <2>5. stack'[i] = Entry(Internal(NoChildren), i - 1, stack'[i].slot)
        /\ stack'[i].slot \in Chunks
    BY <1>10
  <2> QED
    BY <2>1, <2>2, <2>3, <2>4, <2>5, NewInternalEntry
<1>12. stack'[n + m].node.type = "internal"
  <2>1. n + m \in n..(n + m)
    BY <1>3, <1>7
  <2> QED
    BY <1>10, <2>1
<1>13. ASSUME NEW i, i = n + m + 1 PROVE EntryAt(H, i)'
  <2>s. PICK stem, child, c, p :
          stem = From(old.stem, m + 1) /\ child = old.child /\ c = old.stem[m + 1] /\ p = n + m
    OBVIOUS
  <2>1. stem \in Seq(Chunks) /\ c \in Chunks
    BY <1>1, <1>5, <1>7, <2>s, FromType
  <2>2. SuffixRef(child)'
    BY <1>2, <1>5, <2>s, SuffixRefKept
  <2>3. stack'[i] = Entry(Extension(stem, child), p, c) /\ stack'[p].node.type = "internal"
    BY <1>8, <1>12, <1>13, <2>s
  <2>4. i \in Nat /\ p \in 1..(i - 1)
    BY <1>3, <1>7, <1>13, <2>s
  <2> QED
    BY <2>1, <2>2, <2>3, <2>4, NewExtensionEntry
<1>14. ASSUME NEW i, i = n + m + 2 PROVE EntryAt(H, i)'
  <2>s. PICK stem, c, p : stem = From(ns, m + 1) /\ c = ns[m + 1] /\ p = n + m
    OBVIOUS
  <2>1. stem \in Seq(Chunks) /\ c \in Chunks
    BY <1>1, <1>3, <1>7, <2>s, FromType
  <2>2. Pending(i)'
    <3>1. n + m + 3 \in (i + 1)..Len(stack') /\ stack'[n + m + 3].parent = i
      BY <1>3, <1>7, <1>8, <1>14 DEF Entry
    <3> QED
      BY <3>1 DEF Pending
  <2>3. stack'[i] = Entry(Extension(stem, None), p, c) /\ stack'[p].node.type = "internal"
    BY <1>8, <1>12, <1>14, <2>s
  <2>4. i \in Nat /\ p \in 1..(i - 1)
    BY <1>3, <1>7, <1>14, <2>s
  <2> QED
    BY <2>1, <2>2, <2>3, <2>4, NewExtensionEntry
<1>15. ASSUME NEW i, i = n + m + 3 PROVE EntryAt(H, i)'
  <2>s. PICK node, p : node = NewSuffix /\ p = n + m + 2
    OBVIOUS
  <2>1. node = Suffix(node.children)
    BY <2>s, NewSuffixType
  <2>2. stack'[i] = Entry(node, p, "child") /\ stack'[p].node.type = "extension"
    BY <1>8, <1>15, <2>s DEF Entry, Extension
  <2>3. i \in Nat /\ p \in 1..(i - 1)
    BY <1>3, <1>7, <1>15, <2>s
  <2> QED
    BY <2>1, <2>2, <2>3, NewSuffixEntry
<1>16. \A i \in 1..Len(stack') : EntryAt(H, i)'
  <2> TAKE i \in 1..Len(stack')
  <2>1. i \in 1..(n - 1) \/ i \in n..(n + m) \/ i = n + m + 1 \/ i = n + m + 2 \/ i = n + m + 3
    BY <1>3, <1>7, <1>8
  <2> QED
    BY <1>9, <1>11, <1>13, <1>14, <1>15, <2>1
<1>17. stack'[1].node = stack[1].node /\ Len(stack') \in Nat \ {0} /\ Sequence(stack')
       /\ pc' # "walk" /\ pc' \in {"walk", "commit"}
  <2>1. 1 \in 1..(n - 1) /\ n + m + 3 \in Nat \ {0}
    BY <1>3, <1>4, <1>7
  <2> QED
    BY <1>1, <1>8, <2>1
<1> QED
  BY <1>1, <1>16, <1>17, WalkGoesOn

-----------------------------------------------------------------------------
(* Commitments and storage *)

LEMMA LinkIntoInternal ==
  ASSUME NEW G, NEW node, NEW h, InternalNode(G, node, h)', NEW c \in Chunks,
         NEW ref, Kid(G, ref, h)', ref # None
  PROVE  /\ InternalNode(G, SetSlot(node, c, ref), h)'
         /\ HasChild(SetSlot(node, c, ref))
         /\ SetSlot(node, c, ref).type = "internal"
<1>1. node = Internal(node.children) /\ node.type = "internal"
  BY InternalReference DEF InternalNode
<1>2. node.children \in [Chunks -> DOMAIN db' \cup {None}] /\ ref \in DOMAIN db'
  BY DEF InternalNode, Kid
<1>f. PICK f : f = [node.children EXCEPT ![c] = ref]
  OBVIOUS
<1>3. SetSlot(node, c, ref) = Internal(f)
  BY <1>1, <1>f DEF SetSlot, Internal
<1>4. /\ f \in [Chunks -> DOMAIN db' \cup {None}] /\ f[c] = ref
      /\ \A d \in Chunks : d # c => f[d] = node.children[d]
  BY <1>2, <1>f
<1>5. \A d \in Chunks : f[d] = None \/ Kid(G, f[d], h)'
  <2> TAKE d \in Chunks
  <2>1. CASE d = c
    BY <1>4, <2>1
  <2>2. CASE d # c
    BY <1>4, <2>2 DEF InternalNode, Kid
  <2> QED
    BY <2>1, <2>2
<1>6. Internal(f).children = f /\ Internal(f).type = "internal"
  BY DEF Internal
<1>7. InternalNode(G, Internal(f), h)'
  BY <1>4, <1>5, <1>6 DEF InternalNode, Kid
<1>8. HasChild(Internal(f))
  BY <1>4, <1>6 DEF HasChild
<1> QED
  BY <1>3, <1>6, <1>7, <1>8

LEMMA LinkIntoExtension ==
  ASSUME NEW node, ExtensionNode(node), NEW slot, NEW ref
  PROVE  /\ ExtensionNode(SetSlot(node, slot, ref))
         /\ SetSlot(node, slot, ref).child = ref
         /\ SetSlot(node, slot, ref).type = "extension"
<1>1. node.type = "extension" /\ node = Extension(node.stem, node.child)
  BY ExtensionReference DEF ExtensionNode
<1> QED
  BY <1>1 DEF SetSlot, ExtensionNode, Extension

\* The top of the stack, when it is its turn, is complete.
LEMMA TopIsCommitted ==
  ASSUME NEW H, StackOK(H), pc = "commit", NEW n, n = Len(stack)
  PROVE  /\ n \in Nat \ {0} /\ EntryAt(H, n)
         /\ Last(stack) = stack[n] /\ Node = stack[n].node
         /\ Committed(H, stack[n].node, StemLen - n + 1)
<1>1. n \in Nat \ {0} /\ EntryAt(H, n)
  BY DEF StackOK
<1>2. Last(stack) = stack[n] /\ Node = stack[n].node
  BY DEF Last, Node
<1>3. ~ Pending(n)
  BY <1>1 DEF Pending
<1>4. CASE stack[n].node.type = "internal"
  <2>1. InternalAt(H, n)
    BY <1>1, <1>4 DEF EntryAt
  <2>2. n <= StemLen /\ HasChild(stack[n].node) /\ InternalNode(H, stack[n].node, StemLen - n + 1)
    BY <1>3, <2>1 DEF InternalAt
  <2>3. StemLen - n + 1 \in Nat \ {0}
    BY <1>1, <2>2, StemLenType
  <2> QED
    BY <1>1, <1>2, <2>2, <2>3 DEF Committed
<1>5. CASE stack[n].node.type = "extension"
  BY <1>1, <1>2, <1>3, <1>5 DEF EntryAt, ExtensionAt, Committed
<1>6. CASE stack[n].node.type = "suffix"
  BY <1>1, <1>2, <1>6 DEF EntryAt, SuffixAt, Committed
<1> QED
  BY <1>1, <1>4, <1>5, <1>6 DEF EntryAt

LEMMA CommitNodeKeeps ==
  ASSUME NoneIsUnlike, PcOK, NEW H, Consistent(H), CommitNode
  PROVE  (\E G : Consistent(G)') /\ PcOK'
<1>n. PICK n, node, p, slot, ref, up :
        /\ n = Len(stack) /\ node = stack[n].node /\ p = stack[n].parent
        /\ slot = stack[n].slot /\ ref = Reference(node)
        /\ up = stack[p]
  OBVIOUS
<1>l. PICK linked : linked = SetSlot(up.node, slot, ref)
  OBVIOUS
<1>1. StackOK(H) /\ StoreOK(H) /\ RootOK(H) /\ pc = "commit" /\ pc' = "commit"
  BY DEF Consistent, CommitNode
<1>2. /\ n \in Nat \ {0} /\ EntryAt(H, n) /\ Last(stack) = stack[n] /\ Node = node
      /\ Committed(H, node, StemLen - n + 1) /\ Sequence(stack)
      /\ \A i \in 1..n : EntryAt(H, i)
      /\ root # None
  BY <1>1, <1>n, TopIsCommitted DEF StackOK
<1>3. /\ p # 0 /\ Put(ref, node) /\ rootFile' = rootFile
      /\ stack' = [Front(stack) EXCEPT ![p].node = SetSlot(@, slot, ref)]
      /\ root' = [root EXCEPT !.node = stack'[1].node]
  BY <1>2, <1>n DEF CommitNode
<1>g. PICK G : /\ Grows(H, G) /\ StoreOK(G)' /\ ref \in DOMAIN db'
               /\ db'[ref].type = node.type
               /\ node.type = "internal" => G[ref] <= StemLen - n + 1
  BY <1>1, <1>2, <1>3, <1>n, WriteKeepsStore
<1>4. ref # None
  BY <1>2, <1>n, CommittedReference
<1>5. /\ n > 1 /\ p \in 1..(n - 1)
      /\ node.type \in {"internal", "extension"} =>
           up.node.type = "internal" /\ slot \in Chunks
      /\ node.type = "suffix" => up.node.type = "extension"
      /\ node.type \in {"internal", "extension", "suffix"}
  <2>1. CASE node.type = "internal"
    BY <1>2, <1>3, <1>n, <2>1 DEF EntryAt, InternalAt
  <2>2. CASE node.type = "extension"
    <3>1. ExtensionAt(n)
      BY <1>2, <1>n, <2>2 DEF EntryAt
    <3>2. p \in 1..(n - 1) /\ up.node.type = "internal" /\ slot \in Chunks
      BY <1>n, <3>1 DEF ExtensionAt
    <3> QED
      BY <1>2, <2>2, <3>2
  <2>3. CASE node.type = "suffix"
    <3>1. SuffixAt(n)
      BY <1>2, <1>n, <2>3 DEF EntryAt
    <3>2. p \in 1..(n - 1) /\ up.node.type = "extension"
      BY <1>n, <3>1 DEF SuffixAt
    <3> QED
      BY <1>2, <2>3, <3>2
  <2> QED
    BY <1>2, <1>n, <2>1, <2>2, <2>3 DEF EntryAt
<1>6. EntryAt(H, p) /\ up = Entry(up.node, up.parent, up.slot) /\ stack[p] = up
  <2>1. p \in 1..n
    BY <1>2, <1>5
  <2> QED
    BY <1>2, <1>n, <2>1 DEF EntryAt
<1>7. /\ Len(stack') = n - 1 /\ Sequence(stack')
      /\ \A i \in 1..(n - 1) : i # p => stack'[i] = stack[i]
      /\ stack'[p] = Entry(linked, up.parent, up.slot)
  <2>f. PICK f : f = Front(stack)
    OBVIOUS
  <2>1. Len(f) = n - 1 /\ Sequence(f) /\ \A i \in 1..(n - 1) : f[i] = stack[i]
    BY <1>2, <1>n, <2>f, FrontEntries
  <2>2. f = [i \in 1..(n - 1) |-> f[i]]
    BY <2>1 DEF Sequence
  <2>3. stack' = [i \in 1..(n - 1) |->
                    IF i = p THEN [f[p] EXCEPT !.node = SetSlot(f[p].node, slot, ref)] ELSE f[i]]
    BY <1>3, <1>5, <2>2, <2>f
  <2>4. f[p] = up /\ [up EXCEPT !.node = linked] = Entry(linked, up.parent, up.slot)
    BY <1>5, <1>6, <1>l, <2>1 DEF Entry
  <2>5. Len(stack') = n - 1
    BY <1>2, <2>3
  <2>6. Sequence(stack')
    BY <2>3, <2>5 DEF Sequence
  <2> QED
    BY <1>5, <1>l, <2>1, <2>3, <2>4, <2>5, <2>6
<1>8. /\ linked.type = up.node.type
      /\ EntryAt(G, p)'
  <2>e. /\ stack'[p].node = linked /\ stack'[p].parent = up.parent /\ stack'[p].slot = up.slot
        /\ stack[p].node = up.node /\ stack[p].parent = up.parent /\ stack[p].slot = up.slot
    BY <1>6, <1>7 DEF Entry
  <2>1. CASE node.type \in {"internal", "extension"}
    <3>1. up.node.type = "internal" /\ slot \in Chunks
      BY <1>5, <2>1
    <3>2. InternalAt(H, p)
      BY <1>6, <2>e, <3>1 DEF EntryAt
    <3>h. PICK h : h = StemLen - p + 1
      OBVIOUS
    <3>3. h \in Int /\ StemLen - n + 1 < h
      BY <1>2, <1>5, <3>h, StemLenType
    <3>4. InternalNode(H, up.node, h)
      BY <2>e, <3>2, <3>h DEF InternalAt
    <3>5. InternalNode(G, up.node, h)'
      BY <1>g, <3>3, <3>4, InternalNodeKept
    <3>6. Kid(G, ref, h)'
      <4>1. CASE node.type = "extension"
        BY <1>g, <4>1 DEF Kid
      <4>2. CASE node.type = "internal"
        <5>1. G[ref] \in Nat
          BY <1>g DEF StoreOK
        <5>2. G[ref] < h
          BY <1>2, <1>g, <3>3, <4>2, <5>1, StemLenType
        <5> QED
          BY <1>g, <4>2, <5>2 DEF Kid
      <4> QED
        BY <2>1, <4>1, <4>2
    <3>7. /\ InternalNode(G, linked, h)' /\ HasChild(linked) /\ linked.type = "internal"
      BY <1>4, <1>l, <3>1, <3>5, <3>6, LinkIntoInternal
    <3>8. /\ up.parent = p - 1 /\ p <= StemLen
          /\ p > 1 => stack'[p - 1].node.type = "internal" /\ up.slot \in Chunks
      <4>1. p > 1 => p - 1 \in 1..(n - 1) /\ p - 1 # p
        BY <1>2, <1>5
      <4> QED
        BY <1>7, <2>e, <3>2, <4>1 DEF InternalAt
    <3>9. InternalAt(G, p)'
      BY <2>e, <3>7, <3>8, <3>h DEF InternalAt, InternalNode, Kid, HasChild
    <3> QED
      BY <1>7, <2>e, <3>1, <3>7, <3>9 DEF EntryAt
  <2>2. CASE node.type = "suffix"
    <3>1. up.node.type = "extension"
      BY <1>5, <2>2
    <3>2. ExtensionAt(p) /\ p # 1
      BY <1>6, <2>e, <3>1 DEF EntryAt
    <3>3. ExtensionNode(linked) /\ linked.child = ref /\ linked.type = "extension"
      BY <1>l, <2>e, <3>2, LinkIntoExtension DEF ExtensionAt
    <3>4. SuffixRef(ref)'
      BY <1>g, <2>2 DEF SuffixRef
    <3>5. /\ up.parent \in 1..(p - 1) /\ up.slot \in Chunks
          /\ stack'[up.parent].node.type = "internal"
      <4>1. up.parent \in 1..(p - 1) /\ stack[up.parent].node.type = "internal" /\ up.slot \in Chunks
        BY <2>e, <3>2 DEF ExtensionAt
      <4>2. up.parent \in 1..(n - 1) /\ up.parent # p
        BY <1>2, <1>5, <4>1
      <4> QED
        BY <1>7, <4>1, <4>2
    <3>6. ExtensionAt(p)'
      BY <2>e, <3>3, <3>4, <3>5 DEF ExtensionAt, ExtensionNode, SuffixRef
    <3> QED
      BY <1>7, <2>e, <3>1, <3>2, <3>3, <3>6 DEF EntryAt
  <2> QED
    BY <1>5, <2>1, <2>2
<1>9. \A i \in 1..(n - 1) : /\ stack'[i].node.type = stack[i].node.type
                            /\ stack'[i].parent = stack[i].parent
  BY <1>6, <1>7, <1>8 DEF Entry
<1>10. ASSUME NEW i \in 1..(n - 1), i # p PROVE EntryAt(G, i)'
  <2>1. Pending(i) => Pending(i)'
    <3>1. SUFFICES ASSUME NEW j \in (i + 1)..n, stack[j].parent = i
                   PROVE  Pending(i)'
      BY <1>n DEF Pending
    <3>2. j # n
      BY <1>10, <1>n, <3>1
    <3>3. j \in (i + 1)..Len(stack') /\ j \in 1..(n - 1)
      BY <1>2, <1>7, <3>2
    <3> QED
      BY <1>9, <3>1, <3>3 DEF Pending
  <2>2. /\ i \in Nat \ {0} /\ EntryAt(H, i) /\ stack'[i] = stack[i]
        /\ \A j \in 1..(i - 1) : stack'[j].node.type = stack[j].node.type
    BY <1>2, <1>7, <1>9, <1>10
  <2> QED
    BY <1>1, <1>g, <2>1, <2>2, EntryKept
<1>11. \A i \in 1..(n - 1) : EntryAt(G, i)'
  BY <1>8, <1>10
<1>12. RootOK(G)' /\ root' # None /\ root'.node = stack'[1].node
  <2>r. PICK r, v, new : r = root /\ v = root.value /\ new = stack'[1].node
    OBVIOUS
  <2>1. root' = [node |-> new, value |-> v]
    BY <1>1, <1>2, <1>3, <2>r DEF RootOK
  <2>2. InternalNode(G, new, StemLen)'
    <3>1. EntryAt(G, 1)' /\ stack'[1].node.type = "internal"
      <4>1. 1 \in 1..(n - 1)
        BY <1>2, <1>5
      <4> QED
        BY <1>11, <4>1 DEF EntryAt
    <3>2. InternalNode(G, new, StemLen - 1 + 1)'
      BY <3>1, <2>r DEF EntryAt, InternalAt, InternalNode, Kid
    <3>3. StemLen - 1 + 1 = StemLen
      BY StemLenType
    <3> QED
      BY <3>2, <3>3
  <2>3. v = None \/ RootRefOK(G, v)'
    BY <1>1, <1>2, <1>g, <2>r, RootRefKept DEF RootOK
  <2>4. rootFile' \in {None, Truncated} \/ RootRefOK(G, rootFile)'
    BY <1>1, <1>3, <1>g, RootRefKept DEF RootOK, RootRefOK
  <2>5. root' # None /\ root'.node = new /\ root'.value = v
    BY <2>1 DEF NoneIsUnlike
  <2> QED
    BY <2>1, <2>2, <2>3, <2>4, <2>5, <2>r DEF RootOK, InternalNode, Kid, RootRefOK
<1>13. StackOK(G)'
  BY <1>1, <1>2, <1>5, <1>7, <1>11, <1>12 DEF StackOK, Sequence
<1>14. Consistent(G)'
  BY <1>g, <1>12, <1>13 DEF Consistent
<1>15. PcOK'
  BY <1>1 DEF PcOK
<1> QED
  BY <1>14, <1>15

LEMMA CommitRootKeeps ==
  ASSUME NoneIsUnlike, NEW H, Consistent(H), CommitRoot
  PROVE  (\E G : Consistent(G)') /\ PcOK'
<1>n. PICK n, node, ref : n = Len(stack) /\ node = stack[n].node /\ ref = Reference(node)
  OBVIOUS
<1>1. StackOK(H) /\ StoreOK(H) /\ RootOK(H) /\ pc = "commit" /\ pc' = "open"
  BY DEF Consistent, CommitRoot
<1>2. /\ n \in Nat \ {0} /\ EntryAt(H, n) /\ Last(stack) = stack[n] /\ Node = node
      /\ Committed(H, node, StemLen - n + 1)
  BY <1>1, <1>n, TopIsCommitted
<1>3. stack[n].parent = 0 /\ Put(ref, node) /\ rootFile' = rootFile
      /\ root' = [node |-> node, value |-> ref]
  BY <1>2, <1>n DEF CommitRoot
<1>4. node.type = "internal" /\ n = 1 /\ InternalNode(H, node, StemLen)
  <2>1. node.type # "extension"
    BY <1>2, <1>3, <1>n DEF EntryAt, ExtensionAt
  <2>2. node.type # "suffix"
    BY <1>2, <1>3, <1>n DEF EntryAt, SuffixAt
  <2>3. node.type = "internal" /\ InternalAt(H, n)
    BY <1>2, <1>n, <2>1, <2>2 DEF EntryAt
  <2>4. n = 1 /\ InternalNode(H, node, StemLen - n + 1)
    BY <1>2, <1>3, <1>n, <2>3 DEF InternalAt
  <2>5. StemLen - n + 1 = StemLen
    BY <2>4, StemLenType
  <2> QED
    BY <2>3, <2>4, <2>5
<1>g. PICK G : /\ Grows(H, G) /\ StoreOK(G)' /\ ref \in DOMAIN db'
               /\ db'[ref].type = node.type
               /\ node.type = "internal" => G[ref] <= StemLen - n + 1
  BY <1>1, <1>2, <1>3, <1>n, WriteKeepsStore
<1>5. RootRefOK(G, ref)'
  BY <1>4, <1>g, StemLenType DEF RootRefOK
<1>6. InternalNode(G, node, StemLen)'
  BY <1>4, <1>g, StemLenType, InternalNodeKept
<1>7. rootFile' \in {None, Truncated} \/ RootRefOK(G, rootFile)'
  BY <1>1, <1>3, <1>g, RootRefKept DEF RootOK, RootRefOK
<1>8. RootOK(G)'
  BY <1>3, <1>5, <1>6, <1>7 DEF RootOK, InternalNode, Kid, RootRefOK
<1>9. StackOK(G)'
  BY <1>1 DEF StackOK
<1>10. root' # None /\ root'.value # None
  <2>1. ref # None
    BY <1>2, <1>n, CommittedReference
  <2> QED
    BY <1>3, <2>1 DEF NoneIsUnlike
<1>11. PcOK'
  BY <1>1, <1>10 DEF PcOK
<1> QED
  BY <1>8, <1>9, <1>11, <1>g DEF Consistent

LEMMA RaiseKeeps ==
  ASSUME NEW H, Consistent(H), Raise
  PROVE  Consistent(H)' /\ PcOK'
<1>1. UNCHANGED <<db, root, rootFile>> /\ pc' = "ready"
  BY DEF Raise, disk
<1>2. StoreOK(H)' /\ RootOK(H)'
  BY <1>1, GrowsByNothing, RootKept DEF Consistent
<1> QED
  BY <1>1, <1>2 DEF Consistent, StackOK, PcOK

-----------------------------------------------------------------------------
(* The root file, the end of the process and its start *)

LEMMA OpenRootFileKeeps ==
  ASSUME PcOK, NEW H, Consistent(H), OpenRootFile
  PROVE  Consistent(H)' /\ PcOK'
<1>1. db' = db /\ root' = root /\ rootFile' = Truncated /\ pc = "open" /\ pc' = "write"
  BY DEF OpenRootFile
<1>2. StoreOK(H)'
  BY <1>1, GrowsByNothing DEF Consistent
<1>3. RootOK(H)'
  BY <1>1 DEF Consistent, RootOK, InternalNode, Kid, RootRefOK
<1> QED
  BY <1>1, <1>2, <1>3 DEF Consistent, StackOK, PcOK

LEMMA WriteRootFileKeeps ==
  ASSUME PcOK, NEW H, Consistent(H), WriteRootFile
  PROVE  Consistent(H)' /\ PcOK'
<1>1. db' = db /\ root' = root /\ rootFile' = root.value /\ pc = "write" /\ pc' = "ready"
  BY DEF WriteRootFile
<1>2. StoreOK(H)'
  BY <1>1, GrowsByNothing DEF Consistent
<1>3. root # None /\ root.value # None
  BY <1>1 DEF PcOK
<1>4. RootOK(H)'
  BY <1>1, <1>3 DEF Consistent, RootOK, InternalNode, Kid, RootRefOK
<1> QED
  BY <1>1, <1>2, <1>4 DEF Consistent, StackOK, PcOK

LEMMA CrashKeeps ==
  ASSUME NEW H, Consistent(H), Crash
  PROVE  Consistent(H)' /\ PcOK'
<1>1. db' = db /\ rootFile' = rootFile /\ root' = None /\ pc' = "down"
  BY DEF Crash, disk
<1>2. StoreOK(H)'
  BY <1>1, GrowsByNothing DEF Consistent
<1>3. RootOK(H)'
  BY <1>1 DEF Consistent, RootOK, RootRefOK
<1> QED
  BY <1>1, <1>2, <1>3 DEF Consistent, StackOK, PcOK

LEMMA RestartKeeps ==
  ASSUME NEW H, Consistent(H), Restart
  PROVE  Consistent(H)' /\ PcOK'
<1>1. db' = db /\ rootFile' = rootFile /\ pc' = "ready"
      /\ root' = IF rootFile \in {None, Truncated} THEN None
                 ELSE [node |-> Load(rootFile), value |-> rootFile]
  BY DEF Restart, disk
<1>2. StoreOK(H)' /\ Grows(H, H) /\ StoreOK(H)
  BY <1>1, GrowsByNothing DEF Consistent
<1>3. CASE rootFile \in {None, Truncated}
  BY <1>1, <1>2, <1>3 DEF Consistent, RootOK, StackOK, PcOK
<1>4. CASE rootFile \notin {None, Truncated}
  <2>f. PICK f, node : f = rootFile /\ node = Load(rootFile)
    OBVIOUS
  <2>1. RootRefOK(H, f)
    BY <1>4, <2>f DEF Consistent, RootOK
  <2>2. node = db[f] /\ Stored(H, f) /\ H[f] \in Nat /\ db[f].type = "internal"
    BY <1>2, <2>1, <2>f, LoadInternalOrExtension DEF RootRefOK, StoreOK
  <2>3. InternalNode(H, node, H[f]) /\ H[f] <= StemLen
    BY <2>1, <2>2 DEF Stored, RootRefOK
  <2>4. InternalNode(H, node, StemLen)
    BY <1>2, <2>2, <2>3, StemLenType, InternalNodeHigher
  <2>5. InternalNode(H, node, StemLen)' /\ RootRefOK(H, f)'
    BY <1>2, <2>1, <2>4, StemLenType, InternalNodeKept, RootRefKept
  <2>6. root' = [node |-> node, value |-> f] /\ rootFile' = f
    BY <1>1, <1>4, <2>f
  <2>7. RootOK(H)'
    BY <2>5, <2>6 DEF RootOK, InternalNode, Kid, RootRefOK
  <2> QED
    BY <1>1, <1>2, <2>7 DEF Consistent, StackOK, PcOK
<1> QED
  BY <1>3, <1>4

LEMMA StutterKeeps ==
  ASSUME PcOK, NEW H, Consistent(H), UNCHANGED vars
  PROVE  Consistent(H)' /\ PcOK'
<1>1. /\ db' = db /\ rootFile' = rootFile /\ pc' = pc /\ root' = root
      /\ op' = op /\ depth' = depth /\ stack' = stack
  BY DEF vars, disk, call
<1>2. StoreOK(H)' /\ Grows(H, H) /\ RootOK(H)'
  BY <1>1, GrowsByNothing, RootKept DEF Consistent
<1>3. PcOK'
  BY <1>1 DEF PcOK
<1>4. ASSUME pc \in {"walk", "commit"} PROVE StackOK(H)'
  <2>1. StackOK(H)
    BY DEF Consistent
  <2>2. ASSUME NEW i \in 1..Len(stack) PROVE EntryAt(H, i)'
    <3>1. EntryAt(H, i) /\ i \in Nat \ {0}
      BY <1>4, <2>1, <2>2 DEF StackOK
    <3>2. (Pending(i) => Pending(i)') /\ stack'[i] = stack[i]
          /\ (pc = "walk" /\ i = Len(stack) => (pc = "walk" /\ i = Len(stack))')
          /\ \A j \in 1..(i - 1) : stack'[j].node.type = stack[j].node.type
      BY <1>1 DEF Pending
    <3> QED
      BY <1>2, <3>1, <3>2, EntryKept
  <2>3. WalkOK => WalkOK'
    BY <1>1 DEF WalkOK, Node
  <2> QED
    BY <1>1, <1>4, <2>1, <2>2, <2>3 DEF StackOK, Sequence
<1>5. StackOK(H)'
  BY <1>1, <1>4 DEF StackOK
<1> QED
  BY <1>2, <1>3, <1>5 DEF Consistent

-----------------------------------------------------------------------------
(* The invariant and what follows from it *)

LEMMA InvariantInitially == Init => IInv
<1> SUFFICES ASSUME Init PROVE IInv
  OBVIOUS
<1>1. PcOK
  BY DEF Init, PcOK
<1>2. DOMAIN db = {}
  BY DEF Init
<1>h. PICK H : H = [ref \in DOMAIN db |-> 0]
  OBVIOUS
<1>3. StoreOK(H)
  BY <1>2, <1>h DEF StoreOK
<1>4. RootOK(H)
  BY DEF Init, RootOK
<1>5. StackOK(H)
  BY DEF Init, StackOK
<1> QED
  BY <1>1, <1>3, <1>4, <1>5 DEF IInv, Consistent

LEMMA InvariantKept == NoneIsUnlike /\ IInv /\ [Next]_vars => IInv'
<1> SUFFICES ASSUME NoneIsUnlike, IInv, [Next]_vars PROVE IInv'
  OBVIOUS
<1>h. PICK H : Consistent(H)
  BY DEF IInv
<1>0. PcOK
  BY DEF IInv
<1>1. ASSUME NEW k \in Keys, NEW v \in Values, Insert(k, v) PROVE IInv'
  BY <1>h, <1>1, InsertKeeps DEF IInv
<1>2. CASE WalkEmptySlot
  BY <1>h, <1>2, WalkEmptySlotKeeps DEF IInv
<1>3. CASE WalkChild
  BY <1>h, <1>3, WalkChildKeeps DEF IInv
<1>4. CASE WalkSameStem
  BY <1>h, <1>4, WalkSameStemKeeps DEF IInv
<1>5. CASE WalkSplit
  BY <1>h, <1>5, WalkSplitKeeps DEF IInv
<1>6. CASE WalkRaises
  BY <1>h, <1>6, RaiseKeeps DEF IInv, WalkRaises
<1>7. CASE CommitNode
  BY <1>h, <1>0, <1>7, CommitNodeKeeps DEF IInv
<1>8. CASE CommitRaises
  BY <1>h, <1>8, RaiseKeeps DEF IInv, CommitRaises
<1>9. CASE CommitRoot
  BY <1>h, <1>9, CommitRootKeeps DEF IInv
<1>10. CASE OpenRootFile
  BY <1>h, <1>0, <1>10, OpenRootFileKeeps DEF IInv
<1>11. CASE WriteRootFile
  BY <1>h, <1>0, <1>11, WriteRootFileKeeps DEF IInv
<1>12. CASE Crash
  BY <1>h, <1>12, CrashKeeps DEF IInv
<1>13. CASE Restart
  BY <1>h, <1>13, RestartKeeps DEF IInv
<1>14. CASE UNCHANGED vars
  BY <1>h, <1>0, <1>14, StutterKeeps DEF IInv
<1> QED
  BY <1>1, <1>2, <1>3, <1>4, <1>5, <1>6, <1>7, <1>8, <1>9, <1>10, <1>11, <1>12, <1>13, <1>14
     DEF Next, Step

\* The stored nodes keep their shape whatever is written over them, and every
\* path from a root ends before the stem of a key does.
THEOREM Invariant ==
  ASSUME NoneIsUnlike
  PROVE  Spec => []IInv
<1>1. IInv /\ [Next]_vars => IInv'
  BY InvariantKept
<1> QED
  BY InvariantInitially, <1>1, PTL DEF Spec

LEMMA InvariantCloses == IInv => StoreClosed
<1> SUFFICES ASSUME IInv PROVE StoreClosed
  OBVIOUS
<1>h. PICK H : StoreOK(H) /\ RootOK(H)
  BY DEF IInv, Consistent
<1>1. ASSUME NEW ref \in DOMAIN db, db[ref].type = "internal", NEW c \in Chunks,
             db[ref].children[c] # None
      PROVE  /\ db[ref].children[c] \in DOMAIN db
             /\ db[db[ref].children[c]].type \in {"internal", "extension"}
  BY <1>h, <1>1 DEF StoreOK, Stored, InternalNode, Kid
<1>2. ASSUME NEW ref \in DOMAIN db, db[ref].type = "extension"
      PROVE  db[ref].child \in DOMAIN db /\ db[db[ref].child].type = "suffix"
  BY <1>h, <1>2 DEF StoreOK, Stored, SuffixRef
<1>3. ASSUME NEW ref \in {RootRef, rootFile} \ {None, Truncated}
      PROVE  ref \in DOMAIN db /\ db[ref].type = "internal"
  BY <1>h, <1>3 DEF RootOK, RootRefOK, RootRef
<1> QED
  BY <1>1, <1>2, <1>3 DEF StoreClosed

\* verkle_tree.py writes a node after its children and the root last, so no
\* crash and no write over a stored node leaves a reference to a node that is
\* missing or of the wrong kind, for every width, length of keys and set of
\* values.
THEOREM StoreIsClosed ==
  ASSUME NoneIsUnlike
  PROVE  Spec => []StoreClosed
  BY Invariant, InvariantCloses, PTL

LEMMA InvariantHasChunks == IInv => WalkHasChunks
<1> SUFFICES ASSUME IInv, pc = "walk", Node.type = "internal" PROVE NewStem # <<>>
  BY DEF WalkHasChunks
<1>h. PICK H : StackOK(H)
  BY DEF IInv, Consistent
<1>1. Len(NewStem) >= 1
  BY <1>h, WalkTop
<1> QED
  BY <1>1

\* stem[depth] in insert of verkle_tree.py is never past the end of the stem.
THEOREM WalksEndInTime ==
  ASSUME NoneIsUnlike
  PROVE  Spec => []WalkHasChunks
  BY Invariant, InvariantHasChunks, PTL

=============================================================================
