---------------------- MODULE MerklePatriciaTrieProofs ----------------------
(***************************************************************************)
(* Proofs of the properties of MerklePatriciaTrieProps for every set of    *)
(* nibbles, keys and values, both hash functions, every number of inserts  *)
(* and of crashes.  First the facts about the operators of MptNodes: paths,*)
(* nodes and references.                                                   *)
(***************************************************************************)
EXTENDS MerklePatriciaTrieProps, FiniteSetTheorems, SequenceTheorems, TLAPS

\* A reference is never b'' and never None (the code tells them apart by
\* length and by "is None").
LEMMA ReferenceIsNotEmpty ==
  ASSUME NEW n
  PROVE  IntoReference(n) \notin NoNode
<1>1. "of" \in DOMAIN IntoReference(n)
  BY DEF IntoReference
<1>2. "of" \notin DOMAIN EmptyBytes /\ "of" \notin DOMAIN None
  BY DEF EmptyBytes, None
<1> QED
  BY <1>1, <1>2 DEF NoNode

\* More references make more nodes.
LEMMA NodesMonotonic ==
  ASSUME NEW R, NEW S, R \subseteq S
  PROVE  Nodes(R) \subseteq Nodes(S)
BY DEF Nodes, LeafNodes, ExtensionNodes, BranchNodes, Branches

\* A node over R refers only to members of R (node.py, Leaf/Extension/Branch).
LEMMA ChildrenOfNode ==
  ASSUME NEW R, NEW n \in Nodes(R)
  PROVE  Children(n) \subseteq R
BY DEF Nodes, LeafNodes, ExtensionNodes, BranchNodes, Branches, Children

\* A node over R is a node over any set that has its children.
LEMMA NodeOverChildren ==
  ASSUME NEW R, EmptyBytes \notin R, NEW n \in Nodes(R), NEW S, Children(n) \subseteq S
  PROVE  n \in Nodes(S)
<1>1. CASE n \in LeafNodes
  BY <1>1 DEF Nodes
<1>2. CASE n \in ExtensionNodes(R)
  BY <1>2 DEF Nodes, ExtensionNodes, Children
<1>3. CASE n \in BranchNodes(R)
  <2>1. Children(n) = {n.branches[i] : i \in Nibbles} \ {EmptyBytes}
    BY <1>3 DEF BranchNodes, Children
  <2>2. n.branches \in Branches(S)
    BY <1>3, <2>1 DEF BranchNodes, Branches
  <2> QED
    BY <1>3, <2>2 DEF Nodes, BranchNodes
<1> QED
  BY <1>1, <1>2, <1>3 DEF Nodes

\* consume() drops digits from the front (nibble_path.py, consume).
LEMMA ConsumePath ==
  ASSUME NEW p \in Path, NEW n \in 0..Len(p)
  PROVE  /\ Consume(p, n) \in Path
         /\ Len(Consume(p, n)) = Len(p) - n
         /\ \A i \in 1..(Len(p) - n) : Consume(p, n)[i] = p[i + n]
<1>1. Len(p) \in Nat /\ \A i \in 1..Len(p) : p[i] \in Nibbles
  BY LenProperties, ElementOfSeq DEF Path
<1>2. \A i \in (n+1)..Len(p) : p[i] \in Nibbles
  BY <1>1
<1>3. /\ SubSeq(p, n + 1, Len(p)) \in Seq(Nibbles)
      /\ Len(SubSeq(p, n + 1, Len(p))) = IF n + 1 <= Len(p) THEN Len(p) - (n + 1) + 1 ELSE 0
      /\ \A i \in 1..(Len(p) - (n + 1) + 1) : SubSeq(p, n + 1, Len(p))[i] = p[n + 1 + i - 1]
  BY <1>1, <1>2, SubSeqProperties
<1> QED
  BY <1>1, <1>3 DEF Consume, Path

LEMMA PrefixPath ==
  ASSUME NEW p \in Path, NEW n \in 0..Len(p)
  PROVE  SubSeq(p, 1, n) \in Path
<1>1. Len(p) \in Nat /\ \A i \in 1..Len(p) : p[i] \in Nibbles
  BY LenProperties, ElementOfSeq DEF Path
<1>2. \A i \in 1..n : p[i] \in Nibbles
  BY <1>1
<1> QED
  BY <1>1, <1>2, SubSeqProperties DEF Path

LEMMA CountToN ==
  ASSUME NEW n \in Nat
  PROVE  IsFiniteSet(1..n) /\ Cardinality(1..n) = n
<1>1. /\ IsFiniteSet(1..n)
      /\ Cardinality(1..n) = IF 1 > n THEN 0 ELSE n - 1 + 1
  BY FS_Interval, 1 \in Int, n \in Int, Zenon
<1> QED
  BY <1>1

\* common_prefix() stops at the first digit that differs or at the end of the
\* shorter path, and not before (nibble_path.py, common_prefix).
LEMMA CommonLenIsMaximal ==
  ASSUME NEW p \in Path, NEW q \in Path
  PROVE  /\ CommonLen(p, q) \in 0..Len(p)
         /\ CommonLen(p, q) <= Len(q)
         /\ \A i \in 1..CommonLen(p, q) : p[i] = q[i]
         /\ CommonLen(p, q) < Len(p) /\ CommonLen(p, q) < Len(q)
              => p[CommonLen(p, q) + 1] # q[CommonLen(p, q) + 1]
<1> DEFINE D == {n \in 1..Len(p) : n <= Len(q) /\ \A i \in 1..n : p[i] = q[i]}
           c == Cardinality(D)
<1>1. Len(p) \in Nat /\ Len(q) \in Nat
  BY LenProperties DEF Path
<1>2. /\ IsFiniteSet(1..Len(p)) /\ Cardinality(1..Len(p)) = Len(p)
      /\ D \subseteq 1..Len(p)
  BY <1>1, CountToN
<1>3. /\ IsFiniteSet(D) /\ c \in Nat /\ c <= Len(p)
  BY <1>2, FS_Subset, FS_CardinalityType
<1>4. \A n \in 1..c : n \in D
  <2> SUFFICES ASSUME NEW n \in 1..c, n \notin D PROVE FALSE
    OBVIOUS
  <2>1. \A m \in D : m < n
    BY <1>1, <1>3
  <2>2. D \subseteq 1..(n-1)
    BY <2>1, <1>1, <1>3
  <2>3. IsFiniteSet(1..(n-1)) /\ Cardinality(1..(n-1)) = n - 1
    <3>1. n - 1 \in Nat
      BY <1>3
    <3> QED
      BY <3>1, CountToN
  <2>4. c <= n - 1
    BY <2>2, <2>3, FS_Subset
  <2> QED
    BY <2>4, <1>3
<1>5. c + 1 \notin D
  <2> SUFFICES ASSUME c + 1 \in D PROVE FALSE
    OBVIOUS
  <2>1. 1..(c+1) \subseteq D
    <3> SUFFICES ASSUME NEW m \in 1..(c+1) PROVE m \in D
      OBVIOUS
    <3>1. CASE m = c + 1
      BY <3>1
    <3>2. CASE m # c + 1
      <4>1. m \in 1..c
        BY <3>2, <1>3
      <4> QED
        BY <4>1, <1>4
    <3> QED
      BY <3>1, <3>2
  <2>2. Cardinality(1..(c+1)) = c + 1
    BY <1>3, CountToN
  <2>3. c + 1 <= c
    BY <2>1, <2>2, <1>3, FS_Subset
  <2> QED
    BY <2>3, <1>3
<1>6. \A i \in 1..c : p[i] = q[i]
  BY <1>4, <1>3
<1>7. c <= Len(q)
  BY <1>4, <1>3, <1>1
<1>8. c < Len(p) /\ c < Len(q) => p[c + 1] # q[c + 1]
  <2> SUFFICES ASSUME c < Len(p), c < Len(q), p[c + 1] = q[c + 1] PROVE FALSE
    OBVIOUS
  <2>1. \A i \in 1..(c+1) : p[i] = q[i]
    BY <1>6, <1>3
  <2>2. c + 1 \in D
    BY <2>1, <1>1, <1>3
  <2> QED
    BY <2>2, <1>5
<1>9. CommonLen(p, q) = c
  BY DEF CommonLen
<1> HIDE DEF c
<1> QED
  BY <1>1, <1>3, <1>6, <1>7, <1>8, <1>9

-----------------------------------------------------------------------------
(* Sequences of nodes to store *)

\* The references that storing the nodes of s makes.
Stored(s) == {IntoReference(s[i]) : i \in 1..Len(s)}

\* Each node of s refers only to R and to the nodes before it.
Storable(s, R) ==
  /\ s \in Seq(Nodes(R \cup Stored(s)))
  /\ \A i \in 1..Len(s) : /\ s[i] \in Nodes(R \cup {IntoReference(s[j]) : j \in 1..(i-1)})
                          /\ Compressed(s[i])

\* Nothing to store, or one node over R (merkle_tree.py, _create_branch_leaf).
LEMMA StorableShort ==
  ASSUME NEW R
  PROVE  /\ Storable(<<>>, R)
         /\ \A n \in Nodes(R) : Compressed(n) => Storable(<<n>>, R)
<1>1. Storable(<<>>, R)
  BY EmptySeq DEF Storable
<1>2. ASSUME NEW n \in Nodes(R), Compressed(n) PROVE Storable(<<n>>, R)
  <2>1. n \in Nodes(R \cup Stored(<<n>>)) /\ n \in Nodes(R \cup {IntoReference(<<n>>[j]) : j \in 1..(1-1)})
    BY NodesMonotonic
  <2> QED
    BY <1>2, <2>1 DEF Storable
<1> QED
  BY <1>1, <1>2

\* More references do no harm.
LEMMA StorableMonotonic ==
  ASSUME NEW R, NEW S, R \subseteq S, NEW s, Storable(s, R)
  PROVE  Storable(s, S)
<1>1. Nodes(R \cup Stored(s)) \subseteq Nodes(S \cup Stored(s))
  BY NodesMonotonic
<1>2. s \in Seq(Nodes(S \cup Stored(s)))
  BY <1>1, SeqMonotonic DEF Storable
<1>3. ASSUME NEW i \in 1..Len(s)
      PROVE  s[i] \in Nodes(S \cup {IntoReference(s[j]) : j \in 1..(i-1)})
  <2> DEFINE B == {IntoReference(s[j]) : j \in 1..(i-1)}
  <2>1. Nodes(R \cup B) \subseteq Nodes(S \cup B)
    BY NodesMonotonic
  <2> QED
    BY <2>1 DEF Storable
<1> QED
  BY <1>2, <1>3 DEF Storable

\* Storing s and then t (merkle_tree.py, _create_branch_node).
LEMMA StorableConcat ==
  ASSUME NEW R, NEW s, Storable(s, R), NEW t, Storable(t, R \cup Stored(s))
  PROVE  /\ Storable(s \o t, R)
         /\ Stored(s \o t) = Stored(s) \cup Stored(t)
         /\ t # <<>> => s \o t # <<>>
<1> DEFINE S == Nodes(R \cup Stored(s) \cup Stored(t))
           u == s \o t
<1>1. Nodes(R \cup Stored(s)) \subseteq S
  BY NodesMonotonic
<1>2. s \in Seq(S) /\ t \in Seq(S)
  BY <1>1, SeqMonotonic DEF Storable
<1>3. /\ u \in Seq(S) /\ Len(u) = Len(s) + Len(t)
      /\ \A i \in 1..Len(u) : u[i] = IF i <= Len(s) THEN s[i] ELSE t[i - Len(s)]
  BY <1>2, ConcatProperties
<1>4. Len(s) \in Nat /\ Len(t) \in Nat
  BY <1>2, LenProperties
<1> HIDE DEF S, u
<1>5. \A i \in 1..Len(s) : i \in 1..Len(u) /\ u[i] = s[i]
  BY <1>3, <1>4
<1>6. \A i \in 1..Len(t) : Len(s) + i \in 1..Len(u) /\ u[Len(s) + i] = t[i]
  <2> SUFFICES ASSUME NEW i \in 1..Len(t)
               PROVE  Len(s) + i \in 1..Len(u) /\ u[Len(s) + i] = t[i]
    OBVIOUS
  <2> DEFINE k == Len(s) + i
  <2>1. k \in 1..Len(u) /\ ~(k <= Len(s)) /\ k - Len(s) = i
    BY <1>3, <1>4
  <2> HIDE DEF k
  <2>2. u[k] = t[i]
    BY <2>1, <1>3
  <2> QED
    BY <2>1, <2>2 DEF k
<1>7. \A i \in 1..Len(u) : i \in 1..Len(s) \/ i - Len(s) \in 1..Len(t)
  BY <1>3, <1>4
<1>8. Stored(u) = Stored(s) \cup Stored(t)
  <2>1. \A i \in 1..Len(s) : IntoReference(s[i]) \in Stored(u)
    BY <1>5 DEF Stored
  <2>2. \A i \in 1..Len(t) : IntoReference(t[i]) \in Stored(u)
    BY <1>6 DEF Stored
  <2>3. \A i \in 1..Len(u) : IntoReference(u[i]) \in Stored(s) \cup Stored(t)
    <3> SUFFICES ASSUME NEW i \in 1..Len(u)
                 PROVE  IntoReference(u[i]) \in Stored(s) \cup Stored(t)
      OBVIOUS
    <3>1. CASE i \in 1..Len(s)
      BY <3>1, <1>5 DEF Stored
    <3>2. CASE i \notin 1..Len(s)
      <4>1. i - Len(s) \in 1..Len(t) /\ Len(s) + (i - Len(s)) = i
        BY <3>2, <1>7, <1>4
      <4>2. u[i] = t[i - Len(s)]
        BY <4>1, <1>6
      <4> QED
        BY <4>1, <4>2 DEF Stored
    <3> QED
      BY <3>1, <3>2
  <2> QED
    BY <2>1, <2>2, <2>3 DEF Stored
<1>9. ASSUME NEW i \in 1..Len(u)
      PROVE  /\ u[i] \in Nodes(R \cup {IntoReference(u[j]) : j \in 1..(i-1)})
             /\ Compressed(u[i])
  <2> DEFINE B == {IntoReference(u[j]) : j \in 1..(i-1)}
  <2>1. CASE i \in 1..Len(s)
    <3> DEFINE A == {IntoReference(s[j]) : j \in 1..(i-1)}
    <3>1. A \subseteq B
      BY <2>1, <1>4, <1>5
    <3>2. s[i] \in Nodes(R \cup A) /\ Compressed(s[i])
      BY <2>1 DEF Storable
    <3>3. Nodes(R \cup A) \subseteq Nodes(R \cup B)
      BY <3>1, NodesMonotonic
    <3> QED
      BY <2>1, <3>2, <3>3, <1>5
  <2>2. CASE i \notin 1..Len(s)
    <3> DEFINE k == i - Len(s)
               A == {IntoReference(t[j]) : j \in 1..(k-1)}
    <3>1. k \in 1..Len(t) /\ Len(s) + k = i
      BY <2>2, <1>7, <1>4
    <3>2. t[k] \in Nodes(R \cup Stored(s) \cup A) /\ Compressed(t[k])
      BY <3>1 DEF Storable
    <3>3. \A j \in 1..(k-1) : IntoReference(t[j]) \in B
      <4> SUFFICES ASSUME NEW j \in 1..(k-1) PROVE IntoReference(t[j]) \in B
        OBVIOUS
      <4>1. j \in 1..Len(t) /\ Len(s) + j \in 1..(i-1)
        BY <3>1, <1>4
      <4>2. u[Len(s) + j] = t[j]
        BY <4>1, <1>6
      <4> QED
        BY <4>1, <4>2
    <3>4. \A j \in 1..Len(s) : j \in 1..(i-1) /\ u[j] = s[j]
      BY <3>1, <1>4, <1>5
    <3>5. Stored(s) \subseteq B
      BY <3>4 DEF Stored
    <3>6. Nodes(R \cup Stored(s) \cup A) \subseteq Nodes(R \cup B)
      BY <3>3, <3>5, NodesMonotonic
    <3>7. u[i] = t[k]
      BY <3>1, <1>6
    <3> QED
      BY <3>2, <3>6, <3>7
  <2> QED
    BY <2>1, <2>2
<1>10. u \in Seq(Nodes(R \cup Stored(u)))
  <2>1. R \cup Stored(u) = R \cup Stored(s) \cup Stored(t)
    BY <1>8
  <2> QED
    BY <1>3, <2>1 DEF S
<1>11. t # <<>> => s \o t # <<>>
  BY <1>2, ConcatEqualIffEmpty
<1> QED
  BY <1>8, <1>9, <1>10, <1>11 DEF Storable, u

\* Once the first node is stored the others may refer to it.
LEMMA StorableTail ==
  ASSUME NEW R, NEW s, Storable(s, R), s # <<>>
  PROVE  /\ Head(s) = s[1] /\ Head(s) \in Nodes(R) /\ Compressed(Head(s))
         /\ Storable(Tail(s), R \cup {IntoReference(Head(s))})
         /\ Tail(s) # <<>> => Tail(s)[Len(Tail(s))] = s[Len(s)]
         /\ Len(s) \in Nat \ {0} /\ (Tail(s) = <<>> <=> Len(s) = 1)
<1> DEFINE S == Nodes(R \cup Stored(s))
           t == Tail(s)
           Q == R \cup {IntoReference(s[1])}
<1>1. s \in Seq(S)
  BY DEF Storable
<1>2. /\ Len(s) \in Nat \ {0}
      /\ t \in Seq(S) /\ Len(t) = Len(s) - 1
      /\ \A i \in 1..Len(t) : t[i] = s[i + 1]
  BY <1>1, EmptySeq, HeadTailProperties
<1>3. Head(s) = s[1]
  BY <1>1
<1> HIDE DEF S, t
<1>4. s[1] \in Nodes(R) /\ Compressed(s[1])
  <2>1. s[1] \in Nodes(R \cup {IntoReference(s[j]) : j \in 1..(1-1)}) /\ Compressed(s[1])
    BY <1>2 DEF Storable
  <2>2. R \cup {IntoReference(s[j]) : j \in 1..(1-1)} = R
    OBVIOUS
  <2> QED
    BY <2>1, <2>2
<1>5. \A i \in 1..Len(s) : i = 1 \/ (i - 1 \in 1..Len(t) /\ t[i - 1] = s[i])
  BY <1>2
<1>6. Stored(s) \subseteq {IntoReference(s[1])} \cup Stored(t)
  BY <1>5 DEF Stored
<1>7. t \in Seq(Nodes(Q \cup Stored(t)))
  <2>1. Nodes(R \cup Stored(s)) \subseteq Nodes(Q \cup Stored(t))
    BY <1>6, NodesMonotonic
  <2> QED
    BY <2>1, <1>2, SeqMonotonic DEF S
<1>8. ASSUME NEW i \in 1..Len(t)
      PROVE  /\ t[i] \in Nodes(Q \cup {IntoReference(t[j]) : j \in 1..(i-1)})
             /\ Compressed(t[i])
  <2> DEFINE A == {IntoReference(s[j]) : j \in 1..i}
             B == {IntoReference(t[j]) : j \in 1..(i-1)}
  <2>1. i + 1 \in 1..Len(s) /\ t[i] = s[i + 1] /\ (i + 1) - 1 = i
    BY <1>2
  <2>2. s[i + 1] \in Nodes(R \cup {IntoReference(s[j]) : j \in 1..((i + 1)-1)}) /\ Compressed(s[i + 1])
    BY <2>1 DEF Storable
  <2>3. \A j \in 1..i : j = 1 \/ (j - 1 \in 1..(i-1) /\ s[j] = t[j - 1])
    BY <2>1, <1>2
  <2>4. R \cup A \subseteq Q \cup B
    BY <2>3
  <2>5. Nodes(R \cup A) \subseteq Nodes(Q \cup B)
    BY <2>4, NodesMonotonic
  <2> QED
    BY <2>1, <2>2, <2>5
<1>9. Storable(t, Q)
  BY <1>7, <1>8 DEF Storable
<1>10. t # <<>> => t[Len(t)] = s[Len(s)]
  <2> SUFFICES ASSUME t # <<>> PROVE t[Len(t)] = s[Len(s)]
    OBVIOUS
  <2>1. Len(t) \in Nat \ {0}
    BY <1>2, EmptySeq
  <2> QED
    BY <2>1, <1>2
<1>11. t = <<>> <=> Len(s) = 1
  <2>1. t # <<>> => Len(t) \in Nat \ {0}
    BY <1>2, EmptySeq
  <2>2. Len(<<>>) = 0
    BY EmptySeq
  <2> QED
    BY <2>1, <2>2, <1>2
<1> QED
  BY <1>2, <1>3, <1>4, <1>9, <1>10, <1>11 DEF t

-----------------------------------------------------------------------------
(* What the splits of _update store *)

\* Where two paths part: past the common prefix they differ at once, and if
\* neither has a rest they are one path.
LEMMA SplitPoint ==
  ASSUME NEW p \in Path, NEW q \in Path,
         NEW c, c = CommonLen(p, q),
         NEW a, a = Consume(p, c),
         NEW b, b = Consume(q, c)
  PROVE  /\ a \in Path /\ b \in Path /\ SubSeq(p, 1, c) \in Path
         /\ a = <<>> /\ b = <<>> => p = q
         /\ a # <<>> => a[1] \in Nibbles
         /\ b # <<>> => b[1] \in Nibbles
         /\ a # <<>> /\ b # <<>> => a[1] # b[1]
         /\ b = <<>> => StartsWith(p, q)
<1>1. /\ c \in 0..Len(p) /\ c \in 0..Len(q) /\ c <= Len(q)
      /\ \A i \in 1..c : p[i] = q[i]
      /\ c < Len(p) /\ c < Len(q) => p[c + 1] # q[c + 1]
  <2>1. Len(p) \in Nat /\ Len(q) \in Nat
    BY LenProperties DEF Path
  <2> QED
    BY <2>1, CommonLenIsMaximal
<1>2. /\ a \in Path /\ Len(a) = Len(p) - c /\ \A i \in 1..(Len(p) - c) : a[i] = p[i + c]
      /\ b \in Path /\ Len(b) = Len(q) - c /\ \A i \in 1..(Len(q) - c) : b[i] = q[i + c]
      /\ SubSeq(p, 1, c) \in Path
  BY <1>1, ConsumePath, PrefixPath
<1>3. Len(p) \in Nat /\ Len(q) \in Nat /\ Len(a) \in Nat /\ Len(b) \in Nat
  BY <1>2, LenProperties DEF Path
<1>4. (a = <<>> <=> Len(a) = 0) /\ (b = <<>> <=> Len(b) = 0)
  BY <1>2, <1>3, EmptySeq DEF Path
<1>5. ASSUME a = <<>>, b = <<>> PROVE p = q
  <2>1. c = Len(p) /\ c = Len(q)
    BY <1>5, <1>4, <1>2, <1>3, <1>1
  <2> QED
    BY <2>1, <1>1, SeqEqual DEF Path
<1>6. ASSUME a # <<>> PROVE a[1] \in Nibbles /\ a[1] = p[c + 1] /\ c < Len(p)
  <2>1. 1 \in 1..Len(a) /\ c < Len(p) /\ 1 \in 1..(Len(p) - c) /\ 1 + c = c + 1
    BY <1>6, <1>4, <1>3, <1>2, <1>1
  <2> QED
    BY <2>1, <1>2, ElementOfSeq DEF Path
<1>7. ASSUME b # <<>> PROVE b[1] \in Nibbles /\ b[1] = q[c + 1] /\ c < Len(q)
  <2>1. 1 \in 1..Len(b) /\ c < Len(q) /\ 1 \in 1..(Len(q) - c) /\ 1 + c = c + 1
    BY <1>7, <1>4, <1>3, <1>2, <1>1
  <2> QED
    BY <2>1, <1>2, ElementOfSeq DEF Path
<1>8. ASSUME b = <<>> PROVE StartsWith(p, q)
  <2>1. c = Len(q)
    BY <1>8, <1>4, <1>2, <1>3, <1>1
  <2> QED
    BY <2>1, <1>1, <1>3 DEF StartsWith
<1> QED
  BY <1>1, <1>2, <1>5, <1>6, <1>7, <1>8

\* _create_branch_leaf stores at most a leaf and fills the slot of its digit.
LEMMA BranchLeafStorable ==
  ASSUME NEW R, NEW b \in Branches(R),
         NEW p \in Path, p # <<>> => p[1] \in Nibbles, NEW v \in Values
  PROVE  /\ Storable(BranchLeaf(p, v), R)
         /\ AddBranchLeaf(b, p, v) \in Branches(R \cup Stored(BranchLeaf(p, v)))
         /\ p # <<>> => AddBranchLeaf(b, p, v)[p[1]] # EmptyBytes
         /\ \A i \in Nibbles : b[i] # EmptyBytes => AddBranchLeaf(b, p, v)[i] # EmptyBytes
<1>1. CASE p = <<>>
  BY <1>1, StorableShort DEF BranchLeaf, AddBranchLeaf, Branches
<1>2. CASE p # <<>>
  <2> DEFINE n == Leaf(Consume(p, 1), v)
  <2>1. Consume(p, 1) \in Path
    <3>1. 1 \in 0..Len(p)
      BY <1>2, EmptySeq DEF Path
    <3> QED
      BY <3>1, ConsumePath
  <2>2. n \in Nodes(R) /\ Compressed(n)
    BY <2>1 DEF Nodes, LeafNodes, Leaf, Compressed
  <2> HIDE DEF n
  <2>3. Storable(<<n>>, R)
    BY <2>2, StorableShort
  <2>4. IntoReference(n) \in Stored(<<n>>) /\ IntoReference(n) # EmptyBytes
    BY ReferenceIsNotEmpty DEF Stored, NoNode
  <2>5. BranchLeaf(p, v) = <<n>> /\ AddBranchLeaf(b, p, v) = SetBranch(b, p[1], IntoReference(n))
    BY <1>2 DEF BranchLeaf, AddBranchLeaf, n
  <2> QED
    BY <1>2, <2>3, <2>4, <2>5 DEF SetBranch, Branches
<1> QED
  BY <1>1, <1>2

\* _create_branch_extension stores at most an extension over what the old one
\* led to, and fills the slot of its digit.
LEMMA BranchExtensionStorable ==
  ASSUME NEW R, NEW b \in Branches(R),
         NEW p \in Path, p # <<>>, p[1] \in Nibbles,
         NEW r \in R, r # EmptyBytes, r.of.type = "branch"
  PROVE  /\ Storable(BranchExtension(p, r), R)
         /\ AddBranchExtension(b, p, r) \in Branches(R \cup Stored(BranchExtension(p, r)))
         /\ AddBranchExtension(b, p, r)[p[1]] # EmptyBytes
         /\ \A i \in Nibbles : b[i] # EmptyBytes => AddBranchExtension(b, p, r)[i] # EmptyBytes
<1>0. Len(p) \in Nat \ {0}
  BY EmptySeq DEF Path
<1>1. CASE Len(p) = 1
  BY <1>1, StorableShort DEF BranchExtension, AddBranchExtension, SetBranch, Branches
<1>2. CASE Len(p) # 1
  <2> DEFINE n == Extension(Consume(p, 1), r)
  <2>1. Consume(p, 1) \in Path /\ Consume(p, 1) # <<>>
    <3>1. Consume(p, 1) \in Path /\ Len(Consume(p, 1)) = Len(p) - 1
      BY <1>0, ConsumePath
    <3>2. Len(<<>>) = 0
      BY EmptySeq
    <3> QED
      BY <1>0, <1>2, <3>1, <3>2
  <2>2. n \in Nodes(R) /\ Compressed(n)
    BY <2>1 DEF Nodes, ExtensionNodes, Extension, Compressed
  <2> HIDE DEF n
  <2>3. Storable(<<n>>, R)
    BY <2>2, StorableShort
  <2>4. IntoReference(n) \in Stored(<<n>>) /\ IntoReference(n) # EmptyBytes
    BY ReferenceIsNotEmpty DEF Stored, NoNode
  <2>5. /\ BranchExtension(p, r) = <<n>>
        /\ AddBranchExtension(b, p, r) = SetBranch(b, p[1], IntoReference(n))
    BY <1>2 DEF BranchExtension, AddBranchExtension, n
  <2> QED
    BY <2>3, <2>4, <2>5 DEF SetBranch, Branches
<1> QED
  BY <1>1, <1>2

\* The branch of a split, under an extension for what the paths share.
LEMMA BranchBelowStorable ==
  ASSUME NEW R, NEW n \in BranchNodes(R), Compressed(n), NEW p \in Path
  PROVE  Storable(BranchBelow(p, n), R) /\ BranchBelow(p, n) # <<>>
<1>1. n \in Nodes(R) /\ Storable(<<n>>, R)
  BY StorableShort DEF Nodes
<1>2. CASE p = <<>>
  BY <1>1, <1>2 DEF BranchBelow
<1>3. CASE p # <<>>
  <2> DEFINE r == IntoReference(n)
             e == Extension(p, r)
  <2>1. r \in Stored(<<n>>) /\ r.of.type = "branch"
    BY DEF Stored, IntoReference, BranchNodes
  <2> HIDE DEF r
  <2>2. e \in Nodes(R \cup Stored(<<n>>)) /\ Compressed(e)
    BY <1>3, <2>1 DEF Nodes, ExtensionNodes, Extension, Compressed
  <2> HIDE DEF e
  <2>3. Storable(<<e>>, R \cup Stored(<<n>>))
    BY <2>2, StorableShort
  <2>4. Storable(<<n>> \o <<e>>, R)
    BY <1>1, <2>3, StorableConcat
  <2>5. BranchBelow(p, n) = <<n>> \o <<e>> /\ <<n>> \o <<e>> # <<>>
    BY <1>3 DEF BranchBelow, e, r
  <2> QED
    BY <2>4, <2>5
<1> QED
  BY <1>2, <1>3

\* Three parts stored one after the other.
LEMMA StorableParts ==
  ASSUME NEW R, NEW s, Storable(s, R), NEW t, Storable(t, R),
         NEW u, Storable(u, R \cup Stored(s) \cup Stored(t)), u # <<>>
  PROVE  Storable(s \o t \o u, R) /\ s \o t \o u # <<>>
<1>1. Storable(t, R \cup Stored(s))
  BY StorableMonotonic
<1>2. Storable(s \o t, R) /\ Stored(s \o t) = Stored(s) \cup Stored(t)
  BY <1>1, StorableConcat
<1>3. R \cup Stored(s \o t) = R \cup Stored(s) \cup Stored(t)
  BY <1>2
<1> HIDE DEF Storable, Stored
<1> QED
  BY <1>2, <1>3, StorableConcat

\* Splitting a leaf: the branch has two ways on and everything it refers to is
\* stored before it (merkle_tree.py, _create_branch_node).
LEMMA LeafSplitStorable ==
  ASSUME NEW R, NEW p \in Path, NEW v \in Values,
         NEW node \in LeafNodes, node.path # p
  PROVE  Storable(LeafSplit(p, v, node), R) /\ LeafSplit(p, v, node) # <<>>
<1> DEFINE c == CommonLen(p, node.path)
           a == Consume(p, c)
           b == Consume(node.path, c)
           w == node.data
           s == BranchLeaf(a, v)
           t == BranchLeaf(b, w)
           ba == AddBranchLeaf(NoBranches, a, v)
           bb == AddBranchLeaf(ba, b, w)
           d == IF a = <<>> THEN v ELSE IF b = <<>> THEN w ELSE EmptyBytes
           n == Branch(bb, d)
           below == BranchBelow(SubSeq(p, 1, c), n)
<1>1. node.path \in Path /\ w \in Values /\ EmptyBytes \notin Values
  BY NodeAssumption DEF LeafNodes
<1>2. /\ a \in Path /\ b \in Path /\ SubSeq(p, 1, c) \in Path
      /\ ~(a = <<>> /\ b = <<>>)
      /\ a # <<>> => a[1] \in Nibbles
      /\ b # <<>> => b[1] \in Nibbles
      /\ a # <<>> /\ b # <<>> => a[1] # b[1]
  BY <1>1, SplitPoint
<1>3. LeafSplit(p, v, node) = s \o t \o below
  BY DEF LeafSplit
<1>4. NoBranches \in Branches(R)
  BY DEF NoBranches, Branches
<1> HIDE DEF a, b, w
<1>5. /\ Storable(s, R)
      /\ ba \in Branches(R \cup Stored(s))
      /\ a # <<>> => ba[a[1]] # EmptyBytes
  BY <1>2, <1>4, BranchLeafStorable
<1> HIDE DEF ba
<1>6. /\ Storable(t, R) /\ Storable(t, R \cup Stored(s))
      /\ bb \in Branches(R \cup Stored(s) \cup Stored(t))
      /\ b # <<>> => bb[b[1]] # EmptyBytes
      /\ \A i \in Nibbles : ba[i] # EmptyBytes => bb[i] # EmptyBytes
  <2> DEFINE Q == R \cup Stored(s)
  <2>1. Storable(t, R) /\ Storable(t, Q)
    BY <1>1, <1>2, <1>4, BranchLeafStorable, StorableMonotonic
  <2>2. ba \in Branches(Q)
    BY <1>5
  <2> HIDE DEF Q, s, t, bb
  <2>3. /\ bb \in Branches(Q \cup Stored(t))
        /\ b # <<>> => bb[b[1]] # EmptyBytes
        /\ \A i \in Nibbles : ba[i] # EmptyBytes => bb[i] # EmptyBytes
    BY <2>2, <1>1, <1>2, BranchLeafStorable DEF t, bb
  <2> QED
    BY <2>1, <2>3 DEF Q
<1> HIDE DEF bb, s, t
<1>7. d \in Values \cup {EmptyBytes} /\ (a = <<>> \/ b = <<>> => d # EmptyBytes)
  BY <1>1
<1> HIDE DEF d
<1>8. Compressed(n)
  <2>1. n.type = "branch" /\ n.branches = bb /\ n.data = d
    BY DEF Branch
  <2>2. CASE a # <<>> /\ b # <<>>
    <3>1. a[1] # b[1] /\ bb[a[1]] # EmptyBytes /\ bb[b[1]] # EmptyBytes
      BY <2>2, <1>2, <1>5, <1>6
    <3> QED
      BY <2>1, <2>2, <3>1, <1>2 DEF Compressed
  <2>3. CASE a = <<>> \/ b = <<>>
    <3>1. d # EmptyBytes /\ \E i \in Nibbles : bb[i] # EmptyBytes
      BY <2>3, <1>2, <1>5, <1>6, <1>7
    <3> QED
      BY <2>1, <3>1 DEF Compressed
  <2> QED
    BY <2>2, <2>3
<1>9. n \in BranchNodes(R \cup Stored(s) \cup Stored(t))
  BY <1>6, <1>7 DEF BranchNodes, Branch
<1> HIDE DEF n
<1>10. Storable(below, R \cup Stored(s) \cup Stored(t)) /\ below # <<>>
  BY <1>2, <1>8, <1>9, BranchBelowStorable
<1> HIDE DEF below
<1> QED
  BY <1>3, <1>5, <1>6, <1>10, StorableParts

\* Splitting an extension: what it led to stays where it was in the trie
\* (merkle_tree.py, _update's extension case).
LEMMA ExtensionSplitStorable ==
  ASSUME NEW R, NEW p \in Path, NEW v \in Values, EmptyBytes \notin R,
         NEW node \in ExtensionNodes(R), Compressed(node), ~StartsWith(p, node.path)
  PROVE  Storable(ExtensionSplit(p, v, node), R) /\ ExtensionSplit(p, v, node) # <<>>
<1> DEFINE c == CommonLen(p, node.path)
           a == Consume(p, c)
           b == Consume(node.path, c)
           r == node.next
           s == BranchLeaf(a, v)
           t == BranchExtension(b, r)
           ba == AddBranchLeaf(NoBranches, a, v)
           bb == AddBranchExtension(ba, b, r)
           d == IF a = <<>> THEN v ELSE EmptyBytes
           n == Branch(bb, d)
           below == BranchBelow(SubSeq(p, 1, c), n)
<1>1. /\ node.path \in Path /\ r \in R /\ r # EmptyBytes /\ r.of.type = "branch"
      /\ EmptyBytes \notin Values
  BY NodeAssumption DEF ExtensionNodes, Compressed
<1>2. /\ a \in Path /\ b \in Path /\ SubSeq(p, 1, c) \in Path
      /\ b # <<>> /\ b[1] \in Nibbles
      /\ a # <<>> => a[1] \in Nibbles /\ a[1] # b[1]
  BY <1>1, SplitPoint
<1>3. ExtensionSplit(p, v, node) = s \o t \o below
  BY DEF ExtensionSplit
<1>4. NoBranches \in Branches(R)
  BY DEF NoBranches, Branches
<1> HIDE DEF a, b, r
<1>5. /\ Storable(s, R)
      /\ ba \in Branches(R \cup Stored(s))
      /\ a # <<>> => ba[a[1]] # EmptyBytes
  BY <1>2, <1>4, BranchLeafStorable
<1> HIDE DEF ba
<1>6. /\ Storable(t, R)
      /\ bb \in Branches(R \cup Stored(s) \cup Stored(t))
      /\ bb[b[1]] # EmptyBytes
      /\ \A i \in Nibbles : ba[i] # EmptyBytes => bb[i] # EmptyBytes
  <2>1. Storable(t, R)
    BY <1>1, <1>2, <1>4, BranchExtensionStorable
  <2> DEFINE Q == R \cup Stored(s)
  <2>2. r \in Q /\ ba \in Branches(Q)
    BY <1>1, <1>5
  <2> HIDE DEF Q, s, t, bb
  <2>3. /\ bb \in Branches(Q \cup Stored(t))
        /\ bb[b[1]] # EmptyBytes
        /\ \A i \in Nibbles : ba[i] # EmptyBytes => bb[i] # EmptyBytes
    BY <2>2, <1>1, <1>2, BranchExtensionStorable DEF t, bb
  <2> QED
    BY <2>1, <2>3 DEF Q
<1> HIDE DEF bb, s, t
<1>7. d \in Values \cup {EmptyBytes} /\ (a = <<>> => d # EmptyBytes)
  BY <1>1
<1> HIDE DEF d
<1>8. Compressed(n)
  <2>1. n.type = "branch" /\ n.branches = bb /\ n.data = d
    BY DEF Branch
  <2>2. CASE a # <<>>
    <3>1. a[1] # b[1] /\ bb[a[1]] # EmptyBytes /\ bb[b[1]] # EmptyBytes
      BY <2>2, <1>2, <1>5, <1>6
    <3> QED
      BY <2>1, <2>2, <3>1, <1>2 DEF Compressed
  <2>3. CASE a = <<>>
    <3>1. d # EmptyBytes /\ \E i \in Nibbles : bb[i] # EmptyBytes
      BY <2>3, <1>2, <1>6, <1>7
    <3> QED
      BY <2>1, <3>1 DEF Compressed
  <2> QED
    BY <2>2, <2>3
<1>9. n \in BranchNodes(R \cup Stored(s) \cup Stored(t))
  BY <1>6, <1>7 DEF BranchNodes, Branch
<1> HIDE DEF n
<1>10. Storable(below, R \cup Stored(s) \cup Stored(t)) /\ below # <<>>
  BY <1>2, <1>8, <1>9, BranchBelowStorable
<1> HIDE DEF below
<1> QED
  BY <1>3, <1>5, <1>6, <1>10, StorableParts

-----------------------------------------------------------------------------
(* The inductive invariant.  R is a set of references in use: those of the  *)
(* database, the roots, and the in-place ones on their way up the recursion. *)

\* The database and R: nodes over R, in shape; what R names by a digest is
\* stored.
StoreInv(R) ==
  /\ db \subseteq R
  /\ db \subseteq [len : {32}, of : Nodes(R)]
  /\ \A ref \in R : Resolves(ref) /\ ref \notin NoNode
  /\ \A ref \in R : /\ ref = IntoReference(ref.of)
                   /\ ref.of \in Nodes(R) /\ Compressed(ref.of)

\* The copies of the root agree except while insert saves a new one.
RootInv(R) ==
  /\ rootRef \in R \cup NoNode /\ rootFile \in R \cup NoNode
  /\ pc \notin {"open", "write", "down"} => rootRef = rootFile /\ rootValue = rootFile

\* The innermost call of _update.
CallInv(R) ==
  /\ pc \in {"ready", "update", "store", "return", "open", "write", "down"}
  /\ op \in [key : Keys, value : Values] \cup {NoOp}
  /\ pc \notin {"ready", "down"} => op \in [key : Keys, value : Values]
  /\ cur \in R \cup NoNode
  /\ path \in Path
  /\ pc = "store" => Storable(todo, R) /\ todo # <<>>
  /\ pc = "return" => ret \in R
  /\ inserts \in 0..MaxInserts /\ crashes \in 0..MaxCrashes

ExtensionFrames == {f \in [node : {ref.of : ref \in db}] : f.node.type = "extension"}
BranchFrames    == {f \in [node : {ref.of : ref \in db}, slot : Nibbles] : f.node.type = "branch"}

\* The enclosing calls wait at an extension or a branch, and below an
\* extension always comes a branch.
StackInv ==
  /\ stack \in Seq(ExtensionFrames \cup BranchFrames)
  /\ pc \notin {"update", "store", "return"} => stack = <<>>
  /\ \A i \in 1..(Len(stack) - 1) :
       stack[i].node.type = "extension" => stack[i + 1].node.type = "branch"

\* What returns to an extension is the reference of a branch.
BelowInv ==
  stack # <<>> /\ stack[Len(stack)].node.type = "extension" =>
    /\ pc = "update" => cur \notin NoNode /\ cur.of.type = "branch"
    /\ pc = "store"  => todo[Len(todo)].type = "branch"
    /\ pc = "return" => ret.of.type = "branch"

Inv(R) == StoreInv(R) /\ RootInv(R) /\ CallInv(R) /\ StackInv /\ BelowInv

\* The run keeps a database closed under references.
IInv == \E R : Inv(R)

LEMMA InitInv == Init => IInv
<1> SUFFICES ASSUME Init PROVE Inv({})
  BY DEF IInv
<1>1. StoreInv({})
  BY DEF Init, StoreInv
<1>2. RootInv({}) /\ CallInv({})
  BY TrieAssumption DEF Init, RootInv, CallInv, NoNode, Path, NoOp
<1>3. StackInv /\ BelowInv
  BY EmptySeq DEF Init, StackInv, BelowInv
<1> QED
  BY <1>1, <1>2, <1>3 DEF Inv

\* What a frame or a node read from the database is.
LEMMA NodeOfRef ==
  ASSUME NEW R, StoreInv(R), NEW ref \in db
  PROVE  /\ ref.of \in Nodes(R) /\ Compressed(ref.of)
         /\ ref.of.type \in {"leaf", "extension", "branch"}
         /\ ref.of.type = "leaf" => ref.of \in LeafNodes
         /\ ref.of.type = "extension" => ref.of \in ExtensionNodes(R)
         /\ ref.of.type = "branch" => ref.of \in BranchNodes(R)
<1>1. ref.of \in Nodes(R) /\ Compressed(ref.of)
  BY DEF StoreInv
<1> QED
  BY <1>1 DEF Nodes, LeafNodes, ExtensionNodes, BranchNodes

\* A call that has built its nodes: nothing changes but todo and pc.
LEMMA StoreNodesInv ==
  ASSUME NEW R, Inv(R), pc = "update",
         NEW nodes, Storable(nodes, R), nodes # <<>>, StoreNodes(nodes),
         stack # <<>> /\ stack[Len(stack)].node.type = "extension"
           => nodes[Len(nodes)].type = "branch"
  PROVE  Inv(R)'
<1>1. StoreInv(R)'
  BY DEF Inv, StoreInv, StoreNodes, disk, Resolves
<1>2. RootInv(R)'
  BY DEF Inv, RootInv, StoreNodes, disk
<1>3. CallInv(R)'
  BY DEF Inv, CallInv, RootInv, StoreNodes, bounds
<1>4. StackInv'
  BY DEF Inv, StackInv, StoreNodes, ExtensionFrames, BranchFrames, disk
<1>5. BelowInv'
  BY DEF Inv, BelowInv, StoreNodes
<1> QED
  BY <1>1, <1>2, <1>3, <1>4, <1>5 DEF Inv

\* A call that goes on in a child, which is a branch if the node is an extension.
LEMMA DescendInv ==
  ASSUME NEW R, Inv(R), pc = "update", cur \notin NoNode,
         NEW frame \in ExtensionFrames \cup BranchFrames, frame.node = cur.of,
         NEW child \in R \cup NoNode, NEW n \in 0..Len(path),
         frame.node.type = "extension" => child \notin NoNode /\ child.of.type = "branch",
         Descend(frame, child, n)
  PROVE  Inv(R)'
<1> DEFINE F == ExtensionFrames \cup BranchFrames
           last == Len(stack)
<1>1. StoreInv(R)'
  BY DEF Inv, StoreInv, Descend, disk, Resolves
<1>2. RootInv(R)'
  BY DEF Inv, RootInv, Descend, disk
<1>3. CallInv(R)'
  <2>1. Consume(path, n) \in Path
    BY ConsumePath DEF Inv, CallInv
  <2> QED
    BY <2>1 DEF Inv, CallInv, Descend, bounds
<1>4. stack \in Seq(F)
  BY DEF Inv, StackInv
<1>5. last \in Nat /\ (stack # <<>> => last \in Nat \ {0}) /\ (stack = <<>> => last = 0)
  BY <1>4, EmptySeq, LenProperties
<1>6. /\ stack' \in Seq(F) /\ stack' # <<>> /\ Len(stack') = last + 1
      /\ \A i \in 1..last : stack'[i] = stack[i]
      /\ stack'[last + 1] = frame
  BY <1>4, AppendProperties DEF Descend
<1> HIDE DEF F, last
<1>7. StackInv'
  <2>1. F' = F
    BY DEF F, ExtensionFrames, BranchFrames, Descend, disk
  <2>2. ASSUME NEW i \in 1..(Len(stack') - 1), stack'[i].node.type = "extension"
        PROVE  stack'[i + 1].node.type = "branch"
    <3>1. CASE i = last
      <4>1. stack # <<>> /\ stack[last].node.type = "extension"
        BY <3>1, <2>2, <1>5, <1>6
      <4>2. frame.node.type = "branch"
        BY <4>1 DEF Inv, BelowInv, last
      <4> QED
        BY <3>1, <4>2, <1>6
    <3>2. CASE i # last
      <4>1. i \in 1..(last - 1) /\ i \in 1..last /\ i + 1 \in 1..last
        BY <3>2, <1>5, <1>6
      <4>2. stack[i].node.type = "extension" => stack[i + 1].node.type = "branch"
        BY <4>1 DEF Inv, StackInv, last
      <4> QED
        BY <2>2, <4>1, <4>2, <1>6
    <3> QED
      BY <3>1, <3>2
  <2> QED
    BY <1>6, <2>1, <2>2 DEF StackInv, Descend, F
<1>8. BelowInv'
  BY <1>6, <1>5 DEF BelowInv, Descend
<1> QED
  BY <1>1, <1>2, <1>3, <1>7, <1>8 DEF Inv

-----------------------------------------------------------------------------
(* One lemma per group of actions *)

\* insert is called, or fails at a reference that is not in the database.
LEMMA InsertInv ==
  ASSUME NEW R, Inv(R), \E k \in Keys, v \in Values : Insert(k, v)
  PROVE  Inv(R)'
<1> PICK k \in Keys, v \in Values : Insert(k, v)
  OBVIOUS
<1>1. StoreInv(R)'
  BY DEF Inv, StoreInv, Insert, disk, Resolves
<1>2. RootInv(R)'
  BY DEF Inv, RootInv, Insert, disk
<1>3. CallInv(R)'
  BY TrieAssumption DEF Inv, CallInv, RootInv, Insert
<1>4. StackInv' /\ BelowInv'
  BY DEF Inv, StackInv, BelowInv, Insert, ExtensionFrames, BranchFrames, disk
<1> QED
  BY <1>1, <1>2, <1>3, <1>4 DEF Inv

LEMMA UpdateMissingInv ==
  ASSUME NEW R, Inv(R), UpdateMissing
  PROVE  Inv(R)'
<1>1. StoreInv(R)'
  BY DEF Inv, StoreInv, UpdateMissing, disk, Resolves
<1>2. RootInv(R)'
  BY DEF Inv, RootInv, UpdateMissing, disk
<1>3. CallInv(R)'
  BY EmptySeq DEF Inv, CallInv, RootInv, UpdateMissing, bounds, NoNode, Path
<1>4. StackInv' /\ BelowInv'
  BY EmptySeq DEF StackInv, BelowInv, UpdateMissing
<1> QED
  BY <1>1, <1>2, <1>3, <1>4 DEF Inv

\* The steps that end in _store_node calls.
LEMMA UpdateStoresInv ==
  ASSUME NEW R, Inv(R),
         \/ UpdateEmpty \/ UpdateLeafValue \/ UpdateLeafSplit
         \/ UpdateExtensionSplit \/ UpdateBranchValue
  PROVE  Inv(R)'
<1> DEFINE v == op.value
           node == cur.of
           below == stack # <<>> /\ stack[Len(stack)].node.type = "extension"
<1>1. pc = "update" /\ StoreInv(R) /\ path \in Path /\ v \in Values
  BY DEF Inv, CallInv, UpdateEmpty, UpdateLeafValue, UpdateLeafSplit,
         UpdateExtensionSplit, UpdateBranchValue, AtNode
<1>2. below => cur \notin NoNode /\ node.type = "branch"
  BY <1>1 DEF Inv, BelowInv
<1>3. Leaf(path, v) \in Nodes(R) /\ Compressed(Leaf(path, v))
  BY <1>1 DEF Nodes, LeafNodes, Leaf, Compressed
<1>4. Storable(<<Leaf(path, v)>>, R) /\ <<Leaf(path, v)>> # <<>>
  BY <1>3, StorableShort
<1>5. CASE UpdateEmpty
  BY <1>1, <1>2, <1>4, <1>5, StoreNodesInv DEF UpdateEmpty
<1>6. CASE UpdateLeafValue
  BY <1>1, <1>2, <1>4, <1>6, StoreNodesInv DEF UpdateLeafValue, AtNode
<1>7. CASE UpdateLeafSplit
  <2>1. cur \in db /\ node \in LeafNodes /\ node.type = "leaf" /\ node.path # path
    BY <1>1, <1>7, NodeOfRef DEF UpdateLeafSplit, AtNode
  <2>2. Storable(LeafSplit(path, v, node), R) /\ LeafSplit(path, v, node) # <<>>
    BY <2>1, <1>1, LeafSplitStorable
  <2> QED
    BY <1>1, <1>2, <1>7, <2>1, <2>2, StoreNodesInv DEF UpdateLeafSplit
<1>8. CASE UpdateExtensionSplit
  <2>1. /\ cur \in db /\ node \in ExtensionNodes(R) /\ Compressed(node)
        /\ node.type = "extension" /\ ~StartsWith(path, node.path)
    BY <1>1, <1>8, NodeOfRef DEF UpdateExtensionSplit, AtNode
  <2>2. EmptyBytes \notin R
    BY <1>1 DEF StoreInv, NoNode
  <2>3. Storable(ExtensionSplit(path, v, node), R) /\ ExtensionSplit(path, v, node) # <<>>
    BY <2>1, <2>2, <1>1, ExtensionSplitStorable
  <2> QED
    BY <1>1, <1>2, <1>8, <2>1, <2>3, StoreNodesInv DEF UpdateExtensionSplit
<1>9. CASE UpdateBranchValue
  <2> DEFINE n == Branch(node.branches, v)
  <2>1. cur \in db /\ node \in BranchNodes(R) /\ Compressed(node) /\ node.type = "branch"
    BY <1>1, <1>9, NodeOfRef DEF UpdateBranchValue, AtNode
  <2>2. n \in Nodes(R)
    BY <1>1, <2>1 DEF Nodes, BranchNodes, Branch
  <2>3. Compressed(n)
    <3>1. v # EmptyBytes
      BY <1>1, NodeAssumption
    <3>2. \E i \in Nibbles : node.branches[i] # EmptyBytes
      BY <2>1 DEF Compressed
    <3> QED
      BY <3>1, <3>2 DEF Compressed, Branch
  <2>4. n.type = "branch"
    BY DEF Branch
  <2> HIDE DEF n
  <2>5. Storable(<<n>>, R) /\ <<n>> # <<>> /\ <<n>>[Len(<<n>>)] = n
    BY <2>2, <2>3, StorableShort
  <2>6. StoreNodes(<<n>>)
    BY <1>9 DEF UpdateBranchValue, n
  <2> QED
    BY <1>1, <2>4, <2>5, <2>6, StoreNodesInv
<1> QED
  BY <1>5, <1>6, <1>7, <1>8, <1>9

\* The steps that go on in a child.
LEMMA UpdateFollowsInv ==
  ASSUME NEW R, Inv(R), UpdateExtensionFollow \/ UpdateBranchFollow
  PROVE  Inv(R)'
<1>1. pc = "update" /\ StoreInv(R) /\ path \in Path /\ cur \in db /\ cur \notin NoNode
  BY DEF Inv, StoreInv, CallInv, UpdateExtensionFollow, UpdateBranchFollow, AtNode
<1>2. CASE UpdateExtensionFollow
  <2> DEFINE frame == [node |-> cur.of]
  <2>1. /\ cur.of \in ExtensionNodes(R) /\ Compressed(cur.of) /\ cur.of.type = "extension"
        /\ StartsWith(path, cur.of.path)
    BY <1>1, <1>2, NodeOfRef DEF UpdateExtensionFollow, AtNode
  <2>2. frame \in ExtensionFrames /\ frame.node = cur.of
    BY <1>1, <2>1 DEF ExtensionFrames
  <2>3. cur.of.next \in R /\ cur.of.next \notin NoNode /\ cur.of.next.of.type = "branch"
    BY <1>1, <2>1 DEF ExtensionNodes, Compressed, StoreInv
  <2>4. Len(cur.of.path) \in 0..Len(path)
    <3>1. Len(cur.of.path) \in Nat /\ Len(path) \in Nat
      BY <1>1, <2>1, LenProperties DEF ExtensionNodes, Path
    <3> QED
      BY <2>1, <3>1 DEF StartsWith
  <2>5. Descend(frame, cur.of.next, Len(cur.of.path))
    BY <1>2 DEF UpdateExtensionFollow
  <2> HIDE DEF frame
  <2> QED
    BY <1>1, <2>2, <2>3, <2>4, <2>5, DescendInv
<1>3. CASE UpdateBranchFollow
  <2> DEFINE frame == [node |-> cur.of, slot |-> path[1]]
             child == cur.of.branches[path[1]]
  <2>1. cur.of \in BranchNodes(R) /\ cur.of.type = "branch" /\ path # <<>>
    BY <1>1, <1>3, NodeOfRef DEF UpdateBranchFollow, AtNode
  <2>2. Len(path) \in Nat \ {0}
    BY <1>1, <2>1, EmptySeq DEF Path
  <2>3. path[1] \in Nibbles /\ 1 \in 0..Len(path)
    BY <1>1, <2>2, ElementOfSeq DEF Path
  <2>4. frame \in BranchFrames /\ frame.node = cur.of
    BY <1>1, <2>1, <2>3 DEF BranchFrames
  <2>5. child \in R \cup NoNode
    BY <2>1, <2>3 DEF BranchNodes, Branches, NoNode
  <2>6. Descend(frame, child, 1)
    BY <1>3 DEF UpdateBranchFollow
  <2> HIDE DEF frame, child
  <2> QED
    BY <1>1, <2>1, <2>3, <2>4, <2>5, <2>6, DescendInv
<1> QED
  BY <1>2, <1>3

\* One _store_node: its reference joins those in use.
LEMMA StoreNodeInv ==
  ASSUME NEW R, Inv(R), StoreNode,
         NEW S, S = R \cup {IntoReference(Head(todo))}
  PROVE  Inv(S)'
<1> DEFINE ref == IntoReference(Head(todo))
<1>1. pc = "store" /\ Storable(todo, R) /\ todo # <<>>
  BY DEF Inv, CallInv, StoreNode
<1>2. /\ Head(todo) = todo[1] /\ Head(todo) \in Nodes(R) /\ Compressed(Head(todo))
      /\ Storable(Tail(todo), S)
      /\ Tail(todo) # <<>> => Tail(todo)[Len(Tail(todo))] = todo[Len(todo)]
      /\ Len(todo) \in Nat \ {0} /\ (Tail(todo) = <<>> <=> Len(todo) = 1)
  BY <1>1, StorableTail
<1>3. /\ todo' = Tail(todo) /\ ret' = ref /\ ref \in S
      /\ pc' = IF Len(todo) = 1 THEN "return" ELSE "store"
      /\ db' = IF ref.len = 32 THEN db \cup {ref} ELSE db
      /\ UNCHANGED <<rootFile, rootRef, rootValue, op, cur, path, stack, bounds>>
  BY DEF StoreNode
<1>4. ref \notin NoNode /\ ref.of = Head(todo) /\ ref \in [len : {ref.len}, of : Nodes(R)]
  <2>1. ref = [len |-> ref.len, of |-> Head(todo)]
    BY DEF IntoReference
  <2> QED
    BY <2>1, <1>2, ReferenceIsNotEmpty
<1> HIDE DEF ref
<1>5. StoreInv(S)'
  <2>1. StoreInv(R) /\ Nodes(R) \subseteq Nodes(S) /\ R \subseteq S /\ db \subseteq db'
    BY <1>3, NodesMonotonic DEF Inv
  <2>2. db' \subseteq S
    BY <2>1, <1>3 DEF StoreInv
  <2>3. db' \subseteq [len : {32}, of : Nodes(S)]
    <3> SUFFICES ASSUME NEW r \in db' PROVE r \in [len : {32}, of : Nodes(S)]
      OBVIOUS
    <3>1. CASE r \in db
      BY <3>1, <2>1 DEF StoreInv
    <3>2. CASE r = ref /\ ref.len = 32
      BY <3>2, <2>1, <1>4
    <3> QED
      BY <3>1, <3>2, <1>3
  <2>4. \A r \in S : (r.len = 32 => r \in db') /\ r \notin NoNode
    <3> SUFFICES ASSUME NEW r \in S PROVE (r.len = 32 => r \in db') /\ r \notin NoNode
      OBVIOUS
    <3>1. CASE r \in R
      BY <3>1, <2>1 DEF StoreInv, Resolves
    <3>2. CASE r = ref
      BY <3>2, <1>3, <1>4
    <3> QED
      BY <3>1, <3>2 DEF ref
  <2>5. \A r \in S : r = IntoReference(r.of) /\ r.of \in Nodes(S) /\ Compressed(r.of)
    <3> SUFFICES ASSUME NEW r \in S
                 PROVE  r = IntoReference(r.of) /\ r.of \in Nodes(S) /\ Compressed(r.of)
      OBVIOUS
    <3>1. CASE r \in R
      BY <3>1, <2>1 DEF StoreInv
    <3>2. CASE r = ref
      <4>1. ref = IntoReference(ref.of)
        BY <1>4 DEF ref
      <4> QED
        BY <3>2, <4>1, <2>1, <1>2, <1>4
    <3> QED
      BY <3>1, <3>2 DEF ref
  <2> QED
    BY <2>2, <2>3, <2>4, <2>5 DEF StoreInv, Resolves
<1>6. RootInv(S)'
  BY <1>1, <1>3 DEF Inv, RootInv
<1>7. CallInv(S)'
  BY <1>1, <1>2, <1>3 DEF Inv, CallInv, bounds
<1>8. StackInv'
  <2>1. db \subseteq db'
    BY <1>3
  <2>2. ExtensionFrames \cup BranchFrames \subseteq (ExtensionFrames \cup BranchFrames)'
    BY <2>1 DEF ExtensionFrames, BranchFrames
  <2>3. stack \in Seq((ExtensionFrames \cup BranchFrames)')
    BY <2>2, SeqMonotonic DEF Inv, StackInv
  <2>4. pc' \in {"update", "store", "return"}
    BY <1>3
  <2> QED
    BY <2>3, <2>4, <1>3 DEF Inv, StackInv
<1>9. BelowInv'
  <2> SUFFICES ASSUME stack # <<>>, stack[Len(stack)].node.type = "extension"
               PROVE  /\ pc' = "store"  => todo'[Len(todo')].type = "branch"
                      /\ pc' = "return" => ret'.of.type = "branch"
    BY <1>3 DEF BelowInv
  <2>1. todo[Len(todo)].type = "branch"
    BY <1>1 DEF Inv, BelowInv
  <2>2. CASE Len(todo) = 1
    BY <2>1, <2>2, <1>2, <1>3, <1>4
  <2>3. CASE Len(todo) # 1
    BY <2>1, <2>3, <1>2, <1>3
  <2> QED
    BY <2>2, <2>3
<1> QED
  BY <1>5, <1>6, <1>7, <1>8, <1>9 DEF Inv

\* The enclosing call takes the child's new reference into its node.
LEMMA ReturnToCallerInv ==
  ASSUME NEW R, Inv(R), ReturnToCaller
  PROVE  Inv(R)'
<1> DEFINE last  == Len(stack)
           frame == stack[last]
           n     == WithNewChild(frame, ret)
           F     == ExtensionFrames \cup BranchFrames
<1>1. pc = "return" /\ stack # <<>> /\ ret \in R /\ ret \notin NoNode /\ StoreInv(R)
  BY DEF Inv, StoreInv, CallInv, ReturnToCaller
<1>2. stack \in Seq(F) /\ last \in Nat \ {0} /\ frame \in F
  <2>1. stack \in Seq(F)
    BY DEF Inv, StackInv
  <2>2. last \in Nat \ {0}
    BY <2>1, <1>1, EmptySeq
  <2> QED
    BY <2>1, <2>2, ElementOfSeq
<1>3. /\ todo' = <<n>> /\ pc' = "store"
      /\ stack' = SubSeq(stack, 1, last - 1)
      /\ UNCHANGED <<disk, rootRef, rootValue, op, cur, path, ret, bounds>>
  BY DEF ReturnToCaller
<1> HIDE DEF n, F, last
<1>4. \/ /\ frame.node.type = "extension" /\ n.type = "extension"
         /\ n \in ExtensionNodes(R) /\ Compressed(n)
      \/ /\ frame.node.type = "branch" /\ n.type = "branch"
         /\ n \in BranchNodes(R) /\ Compressed(n)
  <2>1. PICK ref \in db : frame.node = ref.of
    BY <1>2 DEF F, ExtensionFrames, BranchFrames
  <2>2. CASE frame \in ExtensionFrames
    <3>1. frame.node.type = "extension" /\ frame.node \in ExtensionNodes(R) /\ Compressed(frame.node)
      BY <2>1, <2>2, <1>1, NodeOfRef DEF ExtensionFrames
    <3>2. ret.of.type = "branch"
      BY <3>1, <1>1 DEF Inv, BelowInv, last
    <3>3. n = Extension(frame.node.path, ret)
      BY <3>1 DEF WithNewChild, n
    <3> QED
      BY <3>1, <3>2, <3>3, <1>1 DEF Extension, ExtensionNodes, Compressed
  <2>3. CASE frame \in BranchFrames
    <3>1. /\ frame.node.type = "branch" /\ frame.node \in BranchNodes(R)
          /\ Compressed(frame.node) /\ frame.slot \in Nibbles
      BY <2>1, <2>3, <1>1, NodeOfRef DEF BranchFrames
    <3> DEFINE b == SetBranch(frame.node.branches, frame.slot, ret)
    <3>2. n = Branch(b, frame.node.data)
      BY <3>1 DEF WithNewChild, n
    <3>3. /\ b \in Branches(R)
          /\ \A i \in Nibbles : frame.node.branches[i] # EmptyBytes => b[i] # EmptyBytes
      BY <3>1, <1>1 DEF SetBranch, BranchNodes, Branches, NoNode
    <3> HIDE DEF b
    <3>4. n \in BranchNodes(R) /\ n.type = "branch"
      BY <3>1, <3>2, <3>3 DEF Branch, BranchNodes
    <3>5. n.branches = b /\ n.data = frame.node.data
      BY <3>2 DEF Branch
    <3>6. Compressed(n)
      BY <3>1, <3>3, <3>4, <3>5 DEF Compressed
    <3> QED
      BY <3>1, <3>4, <3>6
  <2> QED
    BY <2>2, <2>3, <1>2 DEF F
<1>5. Storable(<<n>>, R) /\ <<n>> # <<>> /\ <<n>>[Len(<<n>>)] = n
  <2>1. n \in Nodes(R) /\ Compressed(n)
    BY <1>4 DEF Nodes
  <2> QED
    BY <2>1, StorableShort
<1>6. /\ stack' \in Seq(F) /\ Len(stack') = last - 1
      /\ \A i \in 1..(last - 1) : stack'[i] = stack[i]
  <2>1. \A i \in 1..(last - 1) : stack[i] \in F
    BY <1>2, ElementOfSeq DEF last
  <2>2. /\ SubSeq(stack, 1, last - 1) \in Seq(F)
        /\ Len(SubSeq(stack, 1, last - 1)) = IF 1 <= last - 1 THEN (last - 1) - 1 + 1 ELSE 0
        /\ \A i \in 1..((last - 1) - 1 + 1) : SubSeq(stack, 1, last - 1)[i] = stack[1 + i - 1]
    BY <1>2, <2>1, SubSeqProperties
  <2>3. Len(SubSeq(stack, 1, last - 1)) = last - 1 /\ (last - 1) - 1 + 1 = last - 1
    BY <2>2, <1>2
  <2>4. \A i \in 1..(last - 1) : 1 + i - 1 = i
    BY <1>2
  <2> QED
    BY <1>3, <2>2, <2>3, <2>4
<1>7. StoreInv(R)'
  BY <1>3 DEF Inv, StoreInv, disk, Resolves
<1>8. RootInv(R)'
  BY <1>1, <1>3 DEF Inv, RootInv, disk
<1>9. CallInv(R)'
  BY <1>1, <1>3, <1>5 DEF Inv, CallInv, bounds
<1>10. StackInv'
  <2>1. F' = F
    BY <1>3 DEF F, ExtensionFrames, BranchFrames, disk
  <2>2. \A i \in 1..(Len(stack') - 1) :
          stack'[i].node.type = "extension" => stack'[i + 1].node.type = "branch"
    <3> SUFFICES ASSUME NEW i \in 1..(Len(stack') - 1), stack'[i].node.type = "extension"
                 PROVE  stack'[i + 1].node.type = "branch"
      OBVIOUS
    <3>1. i \in 1..(last - 1) /\ i + 1 \in 1..(last - 1)
      BY <1>2, <1>6
    <3> QED
      BY <3>1, <1>6 DEF Inv, StackInv, last
  <2> QED
    BY <1>3, <1>6, <2>1, <2>2 DEF StackInv, F
<1>11. BelowInv'
  <2> SUFFICES ASSUME stack' # <<>>, stack'[Len(stack')].node.type = "extension"
               PROVE  n.type = "branch"
    BY <1>3, <1>5 DEF BelowInv
  <2>1. last - 1 \in Nat \ {0}
    BY <1>2, <1>6, EmptySeq
  <2>2. last - 1 \in 1..(last - 1) /\ (last - 1) + 1 = last
    BY <2>1, <1>2
  <2>3. stack[last - 1].node.type = "extension"
    BY <2>2, <1>6
  <2>4. stack[(last - 1) + 1].node.type = "branch"
    BY <2>2, <2>3 DEF Inv, StackInv, last
  <2> QED
    BY <2>2, <2>4, <1>4
<1> QED
  BY <1>7, <1>8, <1>9, <1>10, <1>11 DEF Inv

\* insert assigns the root, truncates the file and writes it.
LEMMA SaveRootInv ==
  ASSUME NEW R, Inv(R), SetRoot \/ OpenRootFile \/ WriteRootFile
  PROVE  Inv(R)'
<1>1. db' = db /\ StoreInv(R)
  BY DEF Inv, SetRoot, OpenRootFile, WriteRootFile, disk
<1>2. StoreInv(R)'
  BY <1>1 DEF StoreInv, Resolves
<1>3. RootInv(R)'
  BY DEF Inv, RootInv, CallInv, SetRoot, OpenRootFile, WriteRootFile, disk, NoNode
<1>4. CallInv(R)'
  BY EmptySeq DEF Inv, CallInv, SetRoot, OpenRootFile, WriteRootFile, call, bounds, NoNode, Path
<1>5. StackInv' /\ BelowInv'
  <2>1. stack' = <<>> /\ pc' \notin {"update", "store", "return"}
    BY DEF Inv, StackInv, SetRoot, OpenRootFile, WriteRootFile, call
  <2> QED
    BY <2>1, EmptySeq DEF StackInv, BelowInv
<1> QED
  BY <1>2, <1>3, <1>4, <1>5 DEF Inv

\* The process ends, and is started again from what the file holds.
LEMMA CrashInv ==
  ASSUME NEW R, Inv(R), Crash \/ Restart
  PROVE  Inv(R)'
<1>1. db' = db /\ rootFile' = rootFile /\ StoreInv(R) /\ RootInv(R)
  BY DEF Inv, Crash, Restart, disk
<1>2. StoreInv(R)'
  BY <1>1 DEF StoreInv, Resolves
<1>3. RootInv(R)'
  BY <1>1 DEF RootInv, Crash, Restart, NoNode
<1>4. CallInv(R)'
  <2>1. CASE Crash
    <3>1. <<>> \in Path
      BY EmptySeq DEF Path
    <3>2. inserts' = inserts /\ crashes' \in 0..MaxCrashes
      BY <2>1, TrieAssumption DEF Crash, Inv, CallInv
    <3> QED
      BY <2>1, <3>1, <3>2 DEF Inv, CallInv, Crash, NoNode
  <2>2. CASE Restart
    BY <2>2 DEF Inv, CallInv, Restart, call, bounds
  <2> QED
    BY <2>1, <2>2
<1>5. StackInv' /\ BelowInv'
  <2>1. stack' = <<>> /\ pc' \notin {"update", "store", "return"}
    BY DEF Inv, StackInv, Crash, Restart, call
  <2> QED
    BY <2>1, EmptySeq DEF StackInv, BelowInv
<1> QED
  BY <1>2, <1>3, <1>4, <1>5 DEF Inv

LEMMA StutterInv ==
  ASSUME NEW R, Inv(R), UNCHANGED vars
  PROVE  Inv(R)'
<1> USE DEF vars, disk, call, bounds
<1>1. StoreInv(R)' /\ RootInv(R)' /\ CallInv(R)'
  BY DEF Inv, StoreInv, Resolves, RootInv, CallInv
<1>2. StackInv' /\ BelowInv'
  BY DEF Inv, StackInv, BelowInv, ExtensionFrames, BranchFrames
<1> QED
  BY <1>1, <1>2 DEF Inv

LEMMA NextInv == IInv /\ [Next]_vars => IInv'
<1> SUFFICES ASSUME IInv, [Next]_vars PROVE IInv'
  OBVIOUS
<1> PICK R : Inv(R)
  BY DEF IInv
<1>1. CASE StoreNode
  <2> PICK S : S = R \cup {IntoReference(Head(todo))}
    OBVIOUS
  <2>1. Inv(S)'
    BY <1>1, StoreNodeInv
  <2> QED
    BY <2>1 DEF IInv
<1>2. CASE ~StoreNode
  <2>1. Inv(R)'
    <3>1. CASE \E k \in Keys, v \in Values : Insert(k, v)
      BY <3>1, InsertInv
    <3>2. CASE Update
      BY <3>2, UpdateMissingInv, UpdateStoresInv, UpdateFollowsInv DEF Update
    <3>3. CASE ReturnToCaller
      BY <3>3, ReturnToCallerInv
    <3>4. CASE SetRoot \/ OpenRootFile \/ WriteRootFile
      BY <3>4, SaveRootInv
    <3>5. CASE Crash \/ Restart
      BY <3>5, CrashInv
    <3>6. CASE UNCHANGED vars
      BY <3>6, StutterInv
    <3> QED
      BY <1>2, <3>1, <3>2, <3>3, <3>4, <3>5, <3>6 DEF Next, Step
  <2> QED
    BY <2>1 DEF IInv
<1> QED
  BY <1>1, <1>2

LEMMA Invariance == Spec => []IInv
BY InitInv, NextInv, PTL DEF Spec

-----------------------------------------------------------------------------
(* The properties *)

\* The type invariant of merkle_tree.py's state.
THEOREM TypeCorrect == Spec => []TypeOK
<1>1. IInv => TypeOK
  <2> SUFFICES ASSUME NEW R, Inv(R) PROVE TypeOK
    BY DEF IInv
  <2>1. db \subseteq [len : {32}, of : Nodes(References)]
    <3> SUFFICES ASSUME NEW ref \in db PROVE ref \in [len : {32}, of : Nodes(References)]
      OBVIOUS
    <3>1. ref.of \in Nodes(R) /\ StoreInv(R)
      BY NodeOfRef DEF Inv
    <3>2. Children(ref.of) \subseteq R
      BY <3>1, ChildrenOfNode
    <3>3. Children(ref.of) \subseteq References
      <4> SUFFICES ASSUME NEW c \in Children(ref.of), c \notin db PROVE c.len # 32
        BY DEF References, InPlaceRefs
      <4> QED
        BY <3>1, <3>2 DEF StoreInv, Resolves
    <3>4. ref.of \in Nodes(References)
      BY <3>1, <3>3, NodeOverChildren DEF StoreInv, NoNode
    <3> QED
      BY <3>1, <3>4 DEF StoreInv
  <2>2. stack \in Seq(Frames)
    <3>1. ExtensionFrames \cup BranchFrames \subseteq Frames
      BY DEF ExtensionFrames, BranchFrames, Frames
    <3> QED
      BY <3>1, SeqMonotonic DEF Inv, StackInv
  <2> QED
    BY <2>1, <2>2 DEF TypeOK, Inv, CallInv
<1> QED
  BY <1>1, Invariance, PTL

\* No node of the database and no root, in memory or in the file, refers to a
\* node that is missing, at any moment and after any crash.
THEOREM StoreIsClosed == Spec => []StoreClosed
<1>1. IInv => StoreClosed
  <2> SUFFICES ASSUME NEW R, Inv(R) PROVE StoreClosed
    BY DEF IInv
  <2>1. \A ref \in db : \A c \in Children(ref.of) : Resolves(c)
    <3> SUFFICES ASSUME NEW ref \in db, NEW c \in Children(ref.of) PROVE Resolves(c)
      OBVIOUS
    <3>1. ref.of \in Nodes(R) /\ StoreInv(R)
      BY NodeOfRef DEF Inv
    <3> QED
      BY <3>1, ChildrenOfNode DEF StoreInv
  <2>2. \A ref \in {rootRef, rootFile} \ NoNode : Resolves(ref)
    BY DEF Inv, RootInv, StoreInv
  <2> QED
    BY <2>1, <2>2 DEF StoreClosed
<1> QED
  BY <1>1, Invariance, PTL

\* _update never stores a node out of the shape of a compressed trie.
THEOREM StoreIsCompressed == Spec => []StoreCompressed
<1>1. IInv => StoreCompressed
  BY DEF IInv, Inv, StoreInv, StoreCompressed
<1> QED
  BY <1>1, Invariance, PTL

\* Between inserts the prover's root, the verifier's and the saved one agree.
THEOREM RootsAlwaysAgree == Spec => []RootsAgree
<1>1. IInv => RootsAgree
  BY DEF IInv, Inv, RootInv, RootsAgree
<1> QED
  BY <1>1, Invariance, PTL

=============================================================================
