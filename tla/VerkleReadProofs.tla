--------------------------- MODULE VerkleReadProofs ---------------------------
(***************************************************************************)
(* Proofs of the properties of VerkleRead and VerkleProof: get is exact,   *)
(* what serialization writes is what the commitments are of, and the       *)
(* provers and verifiers agree with the tree.                              *)
(*                                                                         *)
(* The walk of the code takes one way; what the tree holds is read level   *)
(* by level off all its nodes.  They meet in Holds, a path and a value     *)
(* under a reference, which says how each kind of node holds them          *)
(* (HoldsSuffix, HoldsExtension, HoldsInternal) and that no path has two   *)
(* values (HoldsOnce): what is held under the root for a key is, at every  *)
(* place of its walk, held there for the chunks that are left (OnPath).    *)
(* Two invariants are added to that of VerkleTreeProofs: the root in       *)
(* memory is the node its value refers to (RootLoaded), and every suffix   *)
(* node is stored as the encoding of slots that the decoder reads back     *)
(* (SuffixesOK).                                                           *)
(***************************************************************************)
EXTENDS VerkleProof, VerkleTreeProofs, NaturalsInduction, WellFoundedInduction, SequenceTheorems

-----------------------------------------------------------------------------
(* Induction over the natural numbers, for a set instead of a property     *)

LEMMA SetInduction ==
  ASSUME NEW S, 0 \in S, \A n \in Nat : n \in S => n + 1 \in S
  PROVE  Nat \subseteq S
<1>1. SUFFICES ASSUME Nat \ S # {} PROVE FALSE
  OBVIOUS
<1>2. \E x \in Nat \ S : \A y \in Nat \ S : ~(<<y, x>> \in OpToRel(<, Nat))
  <2>1. IsWellFoundedOn(OpToRel(<, Nat), Nat)
    BY NatLessThanWellFounded
  <2>2. Nat \ S \subseteq Nat
    OBVIOUS
  <2> QED
    BY <1>1, <2>1, <2>2, WFMin, Zenon
<1>3. PICK x \in Nat \ S : \A y \in Nat \ S : ~(<<y, x>> \in OpToRel(<, Nat))
  BY <1>2
<1>4. ASSUME NEW y \in Nat \ S PROVE ~(y < x)
  BY <1>3 DEF OpToRel
<1>5. x # 0 /\ x - 1 \in Nat /\ (x - 1) + 1 = x
  OBVIOUS
<1> QED
  BY <1>4, <1>5

\* A non-empty set of naturals has a least member.
LEMMA LeastNumber ==
  ASSUME NEW S, S \subseteq Nat, S # {}
  PROVE  \E n \in S : \A m \in 0..(n-1) : m \notin S
<1> SUFFICES ASSUME \A n \in S : \E m \in 0..(n-1) : m \in S PROVE FALSE
  OBVIOUS
<1> DEFINE T == {n \in Nat : \A m \in 0..n : m \notin S}
<1>1. 0 \in T
  OBVIOUS
<1>2. ASSUME NEW n \in Nat, n \in T PROVE n + 1 \in T
  <2>1. \A m \in 0..(n+1) : m \in 0..n \/ m = n + 1
    OBVIOUS
  <2>2. (n + 1) - 1 = n
    OBVIOUS
  <2>3. n + 1 \notin S
    BY <1>2, <2>2
  <2> QED
    BY <1>2, <2>1, <2>3
<1> HIDE DEF T
<1>3. Nat \subseteq T
  BY <1>1, <1>2, SetInduction
<1>4. \A n \in Nat : n \in 0..n
  OBVIOUS
<1> QED
  BY <1>3, <1>4 DEF T

-----------------------------------------------------------------------------
(* The functions defined by recursion on a number of steps                 *)

\* The places of a walk, one after the other.
LEMMA WalkSteps ==
  ASSUME NEW stem
  PROVE  /\ Walk(stem)[0] = Here
         /\ \A n \in Nat : Walk(stem)[n + 1] = Forward(Walk(stem)[n], stem)
<1> DEFINE first == Here
           Turn(f, n) == IF n = 0 THEN first ELSE Forward(f[n - 1], stem)
           Upto(f, n) == f = [m \in 0..n |-> Turn(f, m)]
           S == {n \in Nat : \E f : Upto(f, n)}
           T == {n \in Nat : \A f, g, k, l : Upto(f, k) /\ Upto(g, l) /\ n \in 0..k /\ n \in 0..l
                                               /\ k \in Nat /\ l \in Nat => f[n] = g[n]}
<1>1. Nat \subseteq S
  <2>1. 0 \in S
    <3>1. Upto([m \in 0..0 |-> first], 0)
      OBVIOUS
    <3> QED
      BY <3>1
  <2>2. ASSUME NEW n \in Nat, n \in S PROVE n + 1 \in S
    <3>1. PICK f : Upto(f, n)
      BY <2>2
    <3> DEFINE g == [m \in 0..(n+1) |-> IF m = n + 1 THEN Forward(f[n], stem) ELSE f[m]]
    <3>2. \A m \in 0..(n+1) : g[m] = Turn(g, m)
      <4> TAKE m \in 0..(n+1)
      <4> HIDE DEF first
      <4>1. CASE m = n + 1
        BY <4>1
      <4>2. CASE m # n + 1
        <5>1. m \in 0..n /\ (m # 0 => m - 1 \in 0..n /\ m - 1 # n + 1 /\ m - 1 \in 0..(n+1))
          BY <4>2
        <5>2. g[m] = f[m] /\ (m # 0 => g[m-1] = f[m-1])
          BY <5>1, <4>2
        <5>3. f[m] = Turn(f, m)
          BY <3>1, <5>1
        <5> QED
          BY <5>2, <5>3
      <4> QED
        BY <4>1, <4>2
    <3>3. Upto(g, n + 1)
      BY <3>2
    <3> HIDE DEF Upto, g
    <3> QED
      BY <3>3
  <2> HIDE DEF S
  <2> QED
    BY <2>1, <2>2, SetInduction
<1>2. Nat \subseteq T
  <2>1. 0 \in T
    OBVIOUS
  <2>2. ASSUME NEW n \in Nat, n \in T PROVE n + 1 \in T
    <3> SUFFICES ASSUME NEW f, NEW g, NEW k \in Nat, NEW l \in Nat, Upto(f, k), Upto(g, l),
                        n + 1 \in 0..k, n + 1 \in 0..l
                 PROVE  f[n + 1] = g[n + 1]
      <4> HIDE DEF Upto
      <4> QED
        OBVIOUS
    <3>1. f[n] = g[n]
      <4>1. n \in 0..k /\ n \in 0..l
        OBVIOUS
      <4> HIDE DEF Upto
      <4> QED
        BY <2>2, <4>1
    <3> HIDE DEF first
    <3>2. f[n+1] = Turn(f, n + 1) /\ g[n+1] = Turn(g, n + 1)
      OBVIOUS
    <3> QED
      BY <3>1, <3>2
  <2> HIDE DEF T
  <2> QED
    BY <2>1, <2>2, SetInduction
<1> DEFINE Some_(n) == CHOOSE f : Upto(f, n)
           h == [n \in Nat |-> Some_(n)[n]]
<1>3. ASSUME NEW n \in Nat PROVE Upto(Some_(n), n)
  <2>1. \E f : Upto(f, n)
    BY <1>1
  <2> HIDE DEF Upto
  <2> QED
    BY <2>1
<1>4. \A n \in Nat : h[n] = Turn(h, n)
  <2> TAKE n \in Nat
  <2>1. Some_(n)[n] = Turn(Some_(n), n)
    <3>1. Upto(Some_(n), n)
      BY <1>3
    <3> HIDE DEF Some_, first
    <3> QED
      BY <3>1
  <2>2. CASE n = 0
    BY <2>1, <2>2
  <2>3. CASE n # 0
    <3>1. n - 1 \in Nat /\ n - 1 \in 0..n /\ n - 1 \in 0..(n-1)
      BY <2>3
    <3>2. Upto(Some_(n), n) /\ Upto(Some_(n - 1), n - 1)
      BY <3>1, <1>3
    <3> HIDE DEF Some_
    <3>3. Some_(n)[n-1] = Some_(n-1)[n-1]
      <4>1. n - 1 \in T
        BY <3>1, <1>2
      <4> HIDE DEF Upto
      <4> QED
        BY <4>1, <3>1, <3>2
    <3>4. h[n-1] = Some_(n-1)[n-1] /\ h[n] = Some_(n)[n]
      BY <3>1
    <3> QED
      BY <2>1, <2>3, <3>3, <3>4
  <2> QED
    BY <2>2, <2>3
<1>5. h = [n \in Nat |-> Turn(h, n)]
  <2>1. h = [n \in Nat |-> h[n]]
    OBVIOUS
  <2> HIDE DEF h, first
  <2> QED
    BY <1>4, <2>1
<1> HIDE DEF h, first
<1> DEFINE w == CHOOSE f : f = [n \in Nat |-> IF n = 0 THEN first ELSE Forward(f[n - 1], stem)]
<1>6. w = [n \in Nat |-> IF n = 0 THEN first ELSE Forward(w[n - 1], stem)]
  BY <1>5
<1>7. Walk(stem) = w
  BY DEF Walk, first
<1> HIDE DEF w
<1>8. \A n \in Nat : w[n + 1] = Forward(w[n], stem)
  BY <1>6
<1> QED
  BY <1>6, <1>7, <1>8 DEF first

\* The levels of a tree, from the top.
LEMMA LevelSteps ==
  ASSUME NEW store, NEW ref
  PROVE  /\ Level(store, ref)[0] = {[chunks |-> <<>>, ref |-> ref]}
         /\ \A n \in Nat : Level(store, ref)[n + 1] = Deeper(store, Level(store, ref)[n])
         /\ Level(store, ref)[1] = Deeper(store, Level(store, ref)[0])
<1> DEFINE first == {[chunks |-> <<>>, ref |-> ref]}
           Turn(f, n) == IF n = 0 THEN first ELSE Deeper(store, f[n - 1])
           Upto(f, n) == f = [m \in 0..n |-> Turn(f, m)]
           S == {n \in Nat : \E f : Upto(f, n)}
           T == {n \in Nat : \A f, g, k, l : Upto(f, k) /\ Upto(g, l) /\ n \in 0..k /\ n \in 0..l
                                               /\ k \in Nat /\ l \in Nat => f[n] = g[n]}
<1>1. Nat \subseteq S
  <2>1. 0 \in S
    <3>1. Upto([m \in 0..0 |-> first], 0)
      OBVIOUS
    <3> QED
      BY <3>1
  <2>2. ASSUME NEW n \in Nat, n \in S PROVE n + 1 \in S
    <3>1. PICK f : Upto(f, n)
      BY <2>2
    <3> DEFINE g == [m \in 0..(n+1) |-> IF m = n + 1 THEN Deeper(store, f[n]) ELSE f[m]]
    <3>2. \A m \in 0..(n+1) : g[m] = Turn(g, m)
      <4> TAKE m \in 0..(n+1)
      <4> HIDE DEF first
      <4>1. CASE m = n + 1
        BY <4>1
      <4>2. CASE m # n + 1
        <5>1. m \in 0..n /\ (m # 0 => m - 1 \in 0..n /\ m - 1 # n + 1 /\ m - 1 \in 0..(n+1))
          BY <4>2
        <5>2. g[m] = f[m] /\ (m # 0 => g[m-1] = f[m-1])
          BY <5>1, <4>2
        <5>3. f[m] = Turn(f, m)
          BY <3>1, <5>1
        <5> QED
          BY <5>2, <5>3
      <4> QED
        BY <4>1, <4>2
    <3>3. Upto(g, n + 1)
      BY <3>2
    <3> HIDE DEF Upto, g
    <3> QED
      BY <3>3
  <2> HIDE DEF S
  <2> QED
    BY <2>1, <2>2, SetInduction
<1>2. Nat \subseteq T
  <2>1. 0 \in T
    OBVIOUS
  <2>2. ASSUME NEW n \in Nat, n \in T PROVE n + 1 \in T
    <3> SUFFICES ASSUME NEW f, NEW g, NEW k \in Nat, NEW l \in Nat, Upto(f, k), Upto(g, l),
                        n + 1 \in 0..k, n + 1 \in 0..l
                 PROVE  f[n + 1] = g[n + 1]
      <4> HIDE DEF Upto
      <4> QED
        OBVIOUS
    <3>1. f[n] = g[n]
      <4>1. n \in 0..k /\ n \in 0..l
        OBVIOUS
      <4> HIDE DEF Upto
      <4> QED
        BY <2>2, <4>1
    <3> HIDE DEF first
    <3>2. f[n+1] = Turn(f, n + 1) /\ g[n+1] = Turn(g, n + 1)
      OBVIOUS
    <3> QED
      BY <3>1, <3>2
  <2> HIDE DEF T
  <2> QED
    BY <2>1, <2>2, SetInduction
<1> DEFINE Some_(n) == CHOOSE f : Upto(f, n)
           h == [n \in Nat |-> Some_(n)[n]]
<1>3. ASSUME NEW n \in Nat PROVE Upto(Some_(n), n)
  <2>1. \E f : Upto(f, n)
    BY <1>1
  <2> HIDE DEF Upto
  <2> QED
    BY <2>1
<1>4. \A n \in Nat : h[n] = Turn(h, n)
  <2> TAKE n \in Nat
  <2>1. Some_(n)[n] = Turn(Some_(n), n)
    <3>1. Upto(Some_(n), n)
      BY <1>3
    <3> HIDE DEF Some_, first
    <3> QED
      BY <3>1
  <2>2. CASE n = 0
    BY <2>1, <2>2
  <2>3. CASE n # 0
    <3>1. n - 1 \in Nat /\ n - 1 \in 0..n /\ n - 1 \in 0..(n-1)
      BY <2>3
    <3>2. Upto(Some_(n), n) /\ Upto(Some_(n - 1), n - 1)
      BY <3>1, <1>3
    <3> HIDE DEF Some_
    <3>3. Some_(n)[n-1] = Some_(n-1)[n-1]
      <4>1. n - 1 \in T
        BY <3>1, <1>2
      <4> HIDE DEF Upto
      <4> QED
        BY <4>1, <3>1, <3>2
    <3>4. h[n-1] = Some_(n-1)[n-1] /\ h[n] = Some_(n)[n]
      BY <3>1
    <3> QED
      BY <2>1, <2>3, <3>3, <3>4
  <2> QED
    BY <2>2, <2>3
<1>5. h = [n \in Nat |-> Turn(h, n)]
  <2>1. h = [n \in Nat |-> h[n]]
    OBVIOUS
  <2> HIDE DEF h, first
  <2> QED
    BY <1>4, <2>1
<1> HIDE DEF h, first
<1> DEFINE w == CHOOSE f : f = [n \in Nat |-> IF n = 0 THEN first ELSE Deeper(store, f[n - 1])]
<1>6. w = [n \in Nat |-> IF n = 0 THEN first ELSE Deeper(store, w[n - 1])]
  BY <1>5
<1>7. Level(store, ref) = w
  BY DEF Level, first
<1> HIDE DEF w
<1>8. \A n \in Nat : w[n + 1] = Deeper(store, w[n])
  BY <1>6
<1>9. w[1] = Deeper(store, w[0])
  BY <1>6, 1 \in Nat, 1 # 0, 1 - 1 = 0
<1> QED
  BY <1>6, <1>7, <1>8, <1>9 DEF first

-----------------------------------------------------------------------------
(* Stores of trees *)

\* A node of a store whose references have heights, under a reference of this
\* height: an internal node is above its internal children.
TreeNode(store, H, node, height) ==
  /\ node.type \in {"internal", "extension", "suffix"}
  /\ node.type = "internal" =>
       /\ height > 0
       /\ node.children \in [Chunks -> DOMAIN store \cup {None}]
       /\ \A c \in Chunks : LET kid == node.children[c] IN
            \/ kid = None
            \/ store[kid].type = "extension"
            \/ store[kid].type = "internal" /\ H[kid] < height
  /\ node.type = "extension" =>
       /\ node.stem \in Seq(Chunks)
       /\ node.child \in DOMAIN store /\ store[node.child].type = "suffix"
  /\ node.type = "suffix" => node.children = [c \in Chunks |-> node.children[c]]

\* StoreOK, of any store, as its nodes are read.
Trees(store, H) ==
  /\ H \in [DOMAIN store -> Nat]
  /\ None \notin DOMAIN store
  /\ \A ref \in DOMAIN store :
       /\ Decode(store[ref]).type = store[ref].type
       /\ TreeNode(store, H, Decode(store[ref]), H[ref])

\* A consistent store has the trees of its references, all of known kinds.
LEMMA StoreHasTrees ==
  ASSUME NoneIsUnlike, NEW H, StoreOK(H)
  PROVE  Trees(db, H)
<1>1. None \notin DOMAIN db
  <2> SUFFICES ASSUME None \in DOMAIN db PROVE FALSE
    OBVIOUS
  <2>1. Stored(H, None)
    BY DEF StoreOK
  <2>2. CASE db[None].type = "internal"
    BY <2>1, <2>2, InternalReference DEF Stored, InternalNode, NoneIsUnlike
  <2>3. CASE db[None].type = "extension"
    BY <2>1, <2>3, ExtensionReference DEF Stored, ExtensionNode, NoneIsUnlike
  <2>4. CASE db[None].type = "suffix"
    BY <2>1, <2>4 DEF Stored, ArrayOfNumbers, NoneIsUnlike
  <2> QED
    BY <2>1, <2>2, <2>3, <2>4 DEF Stored
<1>2. ASSUME NEW ref \in DOMAIN db
      PROVE  /\ Decode(db[ref]).type = db[ref].type
             /\ TreeNode(db, H, Decode(db[ref]), H[ref])
  <2>1. Stored(H, ref)
    BY DEF StoreOK
  <2>2. CASE db[ref].type = "internal"
    <3>1. Decode(db[ref]) = db[ref]
      BY <2>2 DEF Decode
    <3>2. InternalNode(H, db[ref], H[ref]) /\ H[ref] > 0
      BY <2>1, <2>2 DEF Stored
    <3> QED
      BY <2>2, <3>1, <3>2 DEF InternalNode, Kid, TreeNode
  <2>3. CASE db[ref].type = "extension"
    <3>1. Decode(db[ref]) = db[ref]
      BY <2>3 DEF Decode
    <3> QED
      BY <2>1, <2>3, <3>1 DEF Stored, ExtensionNode, SuffixRef, TreeNode
  <2>4. CASE db[ref].type = "suffix"
    <3>1. PICK f : Decode(db[ref]) = Suffix([c \in Chunks |-> f[c]])
      <4> DEFINE f == [c \in Chunks |->
           IF c \notin db[ref].bitmap THEN None
           ELSE LET before == Cardinality({d \in db[ref].bitmap : d < c})
                IN  Slice(db[ref].data, before * ValueLen, (before + 1) * ValueLen)]
      <4>1. Decode(db[ref]) = Suffix(f)
        BY <2>4 DEF Decode
      <4>2. f = [c \in Chunks |-> f[c]]
        OBVIOUS
      <4> HIDE DEF f
      <4> QED
        BY <4>1, <4>2
    <3> QED
      BY <2>4, <3>1 DEF Suffix, TreeNode
  <2> QED
    BY <2>1, <2>2, <2>3, <2>4 DEF Stored
<1> QED
  BY <1>1, <1>2 DEF StoreOK, Trees

\* Chunks before chunks are chunks.
LEMMA ChunksConcat ==
  /\ <<>> \in Seq(Chunks)
  /\ \A a, b \in Seq(Chunks) : a \o b \in Seq(Chunks) /\ Len(a \o b) = Len(a) + Len(b)
  /\ \A a, b, c \in Seq(Chunks) : (a \o b) \o c = a \o (b \o c)
  /\ \A a \in Seq(Chunks) : <<>> \o a = a /\ a \o <<>> = a
  /\ \A c \in Chunks : <<c>> \in Seq(Chunks)
<1>1. <<>> \in Seq(Chunks) /\ \A c \in Chunks : <<c>> \in Seq(Chunks)
  OBVIOUS
<1>2. \A a, b \in Seq(Chunks) : a \o b \in Seq(Chunks) /\ Len(a \o b) = Len(a) + Len(b)
  OBVIOUS
<1>3. \A a, b, c \in Seq(Chunks) : (a \o b) \o c = a \o (b \o c)
  OBVIOUS
<1>4. \A a \in Seq(Chunks) : <<>> \o a = a /\ a \o <<>> = a
  BY ConcatEmptySeq
<1> QED
  BY <1>1, <1>2, <1>3, <1>4

\* The ways down from a node and the values at it.
LEMMA WaysOfNode ==
  ASSUME NEW store, NEW H, NEW node, NEW height, TreeNode(store, H, node, height)
  PROVE  /\ Ways(node) \subseteq [chunks : Seq(Chunks), ref : DOMAIN store]
         /\ \A e \in Slots(node) : /\ e.chunks \in Seq(Chunks)
                                   /\ e = [chunks |-> e.chunks, value |-> e.value]
         /\ node.type = "internal" =>
              /\ Ways(node) = {[chunks |-> <<c>>, ref |-> node.children[c]]
                                 : c \in {d \in Chunks : node.children[d] # None}}
              /\ Slots(node) = {}
         /\ node.type = "extension" => /\ Ways(node) = {[chunks |-> node.stem, ref |-> node.child]}
                                       /\ Slots(node) = {}
         /\ node.type = "suffix" =>
              /\ Ways(node) = {}
              /\ Slots(node) = {[chunks |-> <<c>>, value |-> node.children[c]]
                                  : c \in {d \in Chunks : node.children[d] # None}}
<1> DEFINE Kids == {[chunks |-> <<c>>, ref |-> node.children[c]]
                     : c \in {d \in Chunks : node.children[d] # None}}
           Vals == {[chunks |-> <<c>>, value |-> node.children[c]]
                     : c \in {d \in Chunks : node.children[d] # None}}
<1>0. /\ node.type = "internal" => Ways(node) = Kids /\ Slots(node) = {}
      /\ node.type = "suffix" => Ways(node) = {} /\ Slots(node) = Vals
      /\ node.type = "extension" => /\ Ways(node) = {[chunks |-> node.stem, ref |-> node.child]}
                                    /\ Slots(node) = {}
  BY Zenon DEF Ways, Slots
<1>1. CASE node.type = "internal"
  <2>1. \A c \in Chunks : <<c>> \in Seq(Chunks)
    BY ChunksConcat
  <2>2. \A c \in Chunks : node.children[c] # None => node.children[c] \in DOMAIN store
    BY <1>1 DEF TreeNode
  <2>3. ASSUME NEW e \in Kids PROVE e \in [chunks : Seq(Chunks), ref : DOMAIN store]
    <3>1. PICK c \in Chunks : /\ node.children[c] # None
                              /\ e = [chunks |-> <<c>>, ref |-> node.children[c]]
      OBVIOUS
    <3> QED
      BY <2>1, <2>2, <3>1
  <2> HIDE DEF Kids, Vals
  <2>4. Ways(node) = Kids /\ Slots(node) = {}
    BY <1>0, <1>1
  <2> QED
    BY <1>1, <2>3, <2>4 DEF Kids
<1>2. CASE node.type = "extension"
  BY <1>2, <1>0 DEF TreeNode
<1>3. CASE node.type = "suffix"
  <2>1. \A c \in Chunks : <<c>> \in Seq(Chunks)
    BY ChunksConcat
  <2>2. ASSUME NEW e \in Vals
        PROVE  e.chunks \in Seq(Chunks) /\ e = [chunks |-> e.chunks, value |-> e.value]
    <3>1. PICK c \in Chunks : e = [chunks |-> <<c>>, value |-> node.children[c]]
      OBVIOUS
    <3> QED
      BY <2>1, <3>1
  <2> HIDE DEF Kids, Vals
  <2>3. Ways(node) = {} /\ Slots(node) = Vals
    BY <1>0, <1>3
  <2> QED
    BY <1>3, <2>2, <2>3 DEF Vals
<1> QED
  BY <1>1, <1>2, <1>3 DEF TreeNode

\* The ways down and the slots of a stored node, and what lies at their ends.
LEMMA StoreWays ==
  ASSUME NEW store, NEW H, Trees(store, H), NEW ref \in DOMAIN store
  PROVE  /\ Ways(Decode(store[ref])) \subseteq [chunks : Seq(Chunks), ref : DOMAIN store]
         /\ \A e \in Slots(Decode(store[ref])) :
              /\ e.chunks \in Seq(Chunks)
              /\ e = [chunks |-> e.chunks, value |-> e.value]
<1>1. TreeNode(store, H, Decode(store[ref]), H[ref])
  BY DEF Trees
<1> QED
  BY <1>1, WaysOfNode

\* What it is for e to be a place below those of P, or a path and value there.
Reached(store, P, e) ==
  \E pl \in P : /\ pl.ref \in DOMAIN store
                /\ \E way \in Ways(Decode(store[pl.ref])) :
                     e = [chunks |-> pl.chunks \o way.chunks, ref |-> way.ref]

Found(store, P, e) ==
  \E pl \in P : /\ pl.ref \in DOMAIN store
                /\ \E h \in Slots(Decode(store[pl.ref])) :
                     e = [chunks |-> pl.chunks \o h.chunks, value |-> h.value]

\* The places one level down, one by one.
LEMMA DeeperMember ==
  ASSUME NEW store, NEW P, NEW e
  PROVE  e \in Deeper(store, P) <=> Reached(store, P, e)
<1> DEFINE G(pl) == {[chunks |-> pl.chunks \o way.chunks, ref |-> way.ref] : way \in Ways(Decode(store[pl.ref]))}
           Q == {pl \in P : pl.ref \in DOMAIN store}
<1>1. Deeper(store, P) = UNION {G(pl) : pl \in Q}
  BY DEF Deeper
<1>2. \A pl : e \in G(pl) <=> \E way \in Ways(Decode(store[pl.ref])) :
                               e = [chunks |-> pl.chunks \o way.chunks, ref |-> way.ref]
  OBVIOUS
<1> HIDE DEF G
<1>3. e \in UNION {G(pl) : pl \in Q} <=> \E pl \in Q : e \in G(pl)
  BY Zenon
<1> QED
  BY <1>1, <1>2, <1>3 DEF Reached

\* The paths and values at some places, one by one.
LEMMA HeldAtMember ==
  ASSUME NEW store, NEW P, NEW e
  PROVE  e \in HeldAt(store, P) <=> Found(store, P, e)
<1> DEFINE G(pl) == {[chunks |-> pl.chunks \o h.chunks, value |-> h.value] : h \in Slots(Decode(store[pl.ref]))}
           Q == {pl \in P : pl.ref \in DOMAIN store}
<1>1. HeldAt(store, P) = UNION {G(pl) : pl \in Q}
  BY DEF HeldAt
<1>2. \A pl : e \in G(pl) <=> \E h \in Slots(Decode(store[pl.ref])) :
                               e = [chunks |-> pl.chunks \o h.chunks, value |-> h.value]
  OBVIOUS
<1> HIDE DEF G
<1>3. e \in UNION {G(pl) : pl \in Q} <=> \E pl \in Q : e \in G(pl)
  BY Zenon
<1> QED
  BY <1>1, <1>2, <1>3 DEF Found


\* Below places of the store are places of the store.
LEMMA DeeperTyped ==
  ASSUME NEW store, NEW H, Trees(store, H),
         NEW P, P \subseteq [chunks : Seq(Chunks), ref : DOMAIN store]
  PROVE  Deeper(store, P) \subseteq [chunks : Seq(Chunks), ref : DOMAIN store]
<1> SUFFICES ASSUME NEW e \in Deeper(store, P)
             PROVE  e \in [chunks : Seq(Chunks), ref : DOMAIN store]
  OBVIOUS
<1>1. PICK pl \in P : /\ pl.ref \in DOMAIN store
                      /\ \E way \in Ways(Decode(store[pl.ref])) :
                           e = [chunks |-> pl.chunks \o way.chunks, ref |-> way.ref]
  <2>1. Reached(store, P, e)
    BY DeeperMember
  <2> QED
    BY <2>1 DEF Reached
<1>2. PICK way \in Ways(Decode(store[pl.ref])) :
         e = [chunks |-> pl.chunks \o way.chunks, ref |-> way.ref]
  BY <1>1
<1>3. way \in [chunks : Seq(Chunks), ref : DOMAIN store]
  BY <1>1, StoreWays
<1> QED
  BY <1>1, <1>2, <1>3, ChunksConcat

\* The places of every level are chunks and stored references.
LEMMA LevelTyped ==
  ASSUME NEW store, NEW H, Trees(store, H), NEW r \in DOMAIN store
  PROVE  \A n \in Nat : Level(store, r)[n] \subseteq [chunks : Seq(Chunks), ref : DOMAIN store]
<1> DEFINE S == {n \in Nat : Level(store, r)[n] \subseteq [chunks : Seq(Chunks), ref : DOMAIN store]}
<1>1. 0 \in S
  <2>1. Level(store, r)[0] = {[chunks |-> <<>>, ref |-> r]}
    BY LevelSteps
  <2>2. <<>> \in Seq(Chunks)
    BY ChunksConcat
  <2>3. [chunks |-> <<>>, ref |-> r] \in [chunks : Seq(Chunks), ref : DOMAIN store]
    BY <2>2
  <2>4. Level(store, r)[0] \subseteq [chunks : Seq(Chunks), ref : DOMAIN store]
    BY <2>1, <2>3, Zenon
  <2> QED
    BY <2>4
<1>2. ASSUME NEW n \in Nat, n \in S PROVE n + 1 \in S
  <2>1. Level(store, r)[n + 1] = Deeper(store, Level(store, r)[n])
    BY LevelSteps
  <2>2. Deeper(store, Level(store, r)[n]) \subseteq [chunks : Seq(Chunks), ref : DOMAIN store]
    BY <1>2, DeeperTyped
  <2> QED
    BY <2>1, <2>2
<1> HIDE DEF S
<1>3. Nat \subseteq S
  BY <1>1, <1>2, SetInduction
<1> QED
  BY <1>3 DEF S

\* One level below r come the trees its ways lead to, each behind the chunks
\* of its way.
InBelow(store, r, n, d, s) ==
  \E way \in Ways(Decode(store[r])) : \E pl \in Level(store, way.ref)[n] :
    d = way.chunks \o pl.chunks /\ s = pl.ref

\* A level below a node is the level before it below its children.
LEMMA LevelBelow ==
  ASSUME NEW store, NEW H, Trees(store, H), NEW r \in DOMAIN store
  PROVE  \A n \in Nat : \A d, s :
           [chunks |-> d, ref |-> s] \in Level(store, r)[n + 1] <=> InBelow(store, r, n, d, s)
<1> DEFINE T == [chunks : Seq(Chunks), ref : DOMAIN store]
           S == {n \in Nat : \A d, s : [chunks |-> d, ref |-> s] \in Level(store, r)[n + 1] <=> InBelow(store, r, n, d, s)}
<1>0. Ways(Decode(store[r])) \subseteq T
  BY StoreWays
<1>1. 0 \in S
  <2>1. Level(store, r)[1] = Deeper(store, {[chunks |-> <<>>, ref |-> r]})
    BY LevelSteps
  <2>2. \A way \in Ways(Decode(store[r])) : Level(store, way.ref)[0] = {[chunks |-> <<>>, ref |-> way.ref]}
    BY LevelSteps
  <2>3. \A way \in Ways(Decode(store[r])) : <<>> \o way.chunks = way.chunks /\ way.chunks \o <<>> = way.chunks
    BY <1>0, ChunksConcat
  <2>4. ASSUME NEW d, NEW s
        PROVE  [chunks |-> d, ref |-> s] \in Level(store, r)[1] <=> InBelow(store, r, 0, d, s)
    <3>1. [chunks |-> d, ref |-> s] \in Level(store, r)[1]
            <=> \E way \in Ways(Decode(store[r])) : d = <<>> \o way.chunks /\ s = way.ref
      <4>1. [chunks |-> d, ref |-> s] \in Level(store, r)[1]
              <=> Reached(store, {[chunks |-> <<>>, ref |-> r]}, [chunks |-> d, ref |-> s])
        BY <2>1, DeeperMember
      <4>2. Reached(store, {[chunks |-> <<>>, ref |-> r]}, [chunks |-> d, ref |-> s])
              <=> \E way \in Ways(Decode(store[r])) : [chunks |-> d, ref |-> s] = [chunks |-> <<>> \o way.chunks, ref |-> way.ref]
        BY DEF Reached
      <4>3. \A x, y : [chunks |-> d, ref |-> s] = [chunks |-> x, ref |-> y] <=> d = x /\ s = y
        OBVIOUS
      <4> QED
        BY <2>1, <4>1, <4>2, <4>3
    <3>2. InBelow(store, r, 0, d, s) <=> \E way \in Ways(Decode(store[r])) : d = way.chunks \o <<>> /\ s = way.ref
      <4>1. ASSUME NEW way \in Ways(Decode(store[r]))
            PROVE  (\E pl \in Level(store, way.ref)[0] : d = way.chunks \o pl.chunks /\ s = pl.ref)
                     <=> d = way.chunks \o <<>> /\ s = way.ref
        <5> DEFINE e == [chunks |-> <<>>, ref |-> way.ref]
        <5>1. Level(store, way.ref)[0] = {e} /\ e.chunks = <<>> /\ e.ref = way.ref
          BY <2>2
        <5> HIDE DEF e
        <5> QED
          BY <5>1
      <4> QED
        BY <4>1 DEF InBelow
    <3> QED
      BY <2>3, <3>1, <3>2
  <2> QED
    BY <2>4, 0 + 1 = 1
<1>2. ASSUME NEW n \in Nat, n \in S PROVE n + 1 \in S
  <2> SUFFICES ASSUME NEW d, NEW s
               PROVE  [chunks |-> d, ref |-> s] \in Level(store, r)[(n + 1) + 1] <=> InBelow(store, r, n + 1, d, s)
    OBVIOUS
  <2>1. Level(store, r)[(n + 1) + 1] = Deeper(store, Level(store, r)[n + 1])
    BY LevelSteps
  <2>2. \A way \in Ways(Decode(store[r])) : /\ Level(store, way.ref)[n + 1] = Deeper(store, Level(store, way.ref)[n])
                                /\ Level(store, way.ref)[n] \subseteq T
    BY <1>0, LevelSteps, LevelTyped, SMTT(20)
  <2>3. Level(store, r)[n + 1] \subseteq T
    BY LevelTyped
  <2>4. ASSUME [chunks |-> d, ref |-> s] \in Level(store, r)[(n + 1) + 1] PROVE InBelow(store, r, n + 1, d, s)
    <3>0. PICK pl \in Level(store, r)[n + 1] : \E w \in Ways(Decode(store[pl.ref])) :
             pl.ref \in DOMAIN store /\ d = pl.chunks \o w.chunks /\ s = w.ref
      <4>1. Reached(store, Level(store, r)[n + 1], [chunks |-> d, ref |-> s])
        BY <2>1, <2>4, DeeperMember
      <4> QED
        BY <4>1 DEF Reached
    <3>1. PICK w \in Ways(Decode(store[pl.ref])) :
             pl.ref \in DOMAIN store /\ d = pl.chunks \o w.chunks /\ s = w.ref
      BY <3>0
    <3>2. [chunks |-> pl.chunks, ref |-> pl.ref] = pl
      BY <2>3
    <3>7. PICK way \in Ways(Decode(store[r])) : \E q \in Level(store, way.ref)[n] :
             pl.chunks = way.chunks \o q.chunks /\ pl.ref = q.ref
      <4>1. InBelow(store, r, n, pl.chunks, pl.ref)
        BY <1>2, <3>2
      <4> QED
        BY <4>1 DEF InBelow
    <3>3. PICK q \in Level(store, way.ref)[n] :
             pl.chunks = way.chunks \o q.chunks /\ pl.ref = q.ref
      BY <3>7
    <3> DEFINE e == [chunks |-> q.chunks \o w.chunks, ref |-> w.ref]
    <3>4. e \in Level(store, way.ref)[n + 1]
      <4>1. Reached(store, Level(store, way.ref)[n], e)
        BY <3>1, <3>3 DEF Reached
      <4> QED
        BY <2>2, <4>1, DeeperMember
    <3>5. w.chunks \in Seq(Chunks) /\ way.chunks \in Seq(Chunks) /\ q.chunks \in Seq(Chunks)
      <4>1. pl.ref \in DOMAIN store
        BY <2>3, <3>1
      <4>2. w \in T
        BY <4>1, StoreWays 
      <4> QED
        BY <1>0, <2>2, <3>3, <4>2
    <3>6. d = way.chunks \o e.chunks /\ s = e.ref
      <4>1. (way.chunks \o q.chunks) \o w.chunks = way.chunks \o (q.chunks \o w.chunks)
        BY <3>5, ChunksConcat, ZenonT(30)
      <4> QED
        BY <3>1, <3>3, <4>1
    <3> QED
      BY <3>4, <3>6 DEF InBelow
  <2>5. ASSUME InBelow(store, r, n + 1, d, s) PROVE [chunks |-> d, ref |-> s] \in Level(store, r)[(n + 1) + 1]
    <3>0. PICK way \in Ways(Decode(store[r])) : \E e \in Level(store, way.ref)[n + 1] :
             d = way.chunks \o e.chunks /\ s = e.ref
      BY <2>5 DEF InBelow
    <3>1. PICK e \in Level(store, way.ref)[n + 1] : d = way.chunks \o e.chunks /\ s = e.ref
      BY <3>0
    <3>6. PICK q \in Level(store, way.ref)[n] : \E w \in Ways(Decode(store[q.ref])) :
             q.ref \in DOMAIN store /\ e = [chunks |-> q.chunks \o w.chunks, ref |-> w.ref]
      <4>1. Reached(store, Level(store, way.ref)[n], e)
        BY <2>2, <3>1, DeeperMember
      <4> QED
        BY <4>1 DEF Reached
    <3>2. PICK w \in Ways(Decode(store[q.ref])) :
             q.ref \in DOMAIN store /\ e = [chunks |-> q.chunks \o w.chunks, ref |-> w.ref]
      BY <3>6
    <3> DEFINE pl == [chunks |-> way.chunks \o q.chunks, ref |-> q.ref]
    <3>3. pl \in Level(store, r)[n + 1]
      <4>1. InBelow(store, r, n, pl.chunks, pl.ref)
        BY <3>6 DEF InBelow
      <4> QED
        BY <1>2, <4>1
    <3>4. w.chunks \in Seq(Chunks) /\ way.chunks \in Seq(Chunks) /\ q.chunks \in Seq(Chunks)
      <4>1. q.ref \in DOMAIN store
        BY <2>2, <3>2
      <4>2. w \in T
        BY <4>1, StoreWays 
      <4> QED
        BY <1>0, <2>2, <3>2, <4>2
    <3>5. d = pl.chunks \o w.chunks /\ s = w.ref
      <4>1. (way.chunks \o q.chunks) \o w.chunks = way.chunks \o (q.chunks \o w.chunks)
        BY <3>4, ChunksConcat, ZenonT(30)
      <4> QED
        BY <3>1, <3>2, <4>1
    <3> QED
      <4>1. Reached(store, Level(store, r)[n + 1], [chunks |-> d, ref |-> s])
        BY <3>2, <3>3, <3>5 DEF Reached
      <4> QED
        BY <2>1, <4>1, DeeperMember
  <2> QED
    BY <2>4, <2>5
<1> HIDE DEF S
<1>3. Nat \subseteq S
  BY <1>1, <1>2, SetInduction
<1>4. \A n \in Nat : n \in S
  BY <1>3
<1> QED
  BY <1>4, Zenon DEF S

-----------------------------------------------------------------------------
(* What a tree holds *)

\* The tree under r holds the value v at the end of the chunks k.
Holds(store, r, k, v) ==
  \E n \in Nat : [chunks |-> k, value |-> v] \in HeldAt(store, Level(store, r)[n])

\* What is held are paths of chunks.
LEMMA HoldsTyped ==
  ASSUME NEW store, NEW H, Trees(store, H), NEW r \in DOMAIN store, NEW k, NEW v,
         Holds(store, r, k, v)
  PROVE  k \in Seq(Chunks)
<1>1. PICK n \in Nat : [chunks |-> k, value |-> v] \in HeldAt(store, Level(store, r)[n])
  BY DEF Holds
<1>2. Found(store, Level(store, r)[n], [chunks |-> k, value |-> v])
  BY <1>1, HeldAtMember
<1>3. PICK pl \in Level(store, r)[n] :
         /\ pl.ref \in DOMAIN store
         /\ \E h \in Slots(Decode(store[pl.ref])) :
              [chunks |-> k, value |-> v] = [chunks |-> pl.chunks \o h.chunks, value |-> h.value]
  BY <1>2 DEF Found
<1>4. PICK h \in Slots(Decode(store[pl.ref])) : k = pl.chunks \o h.chunks
  BY <1>3
<1>5. pl.chunks \in Seq(Chunks)
  BY LevelTyped
<1>6. h.chunks \in Seq(Chunks)
  BY <1>3, StoreWays
<1> QED
  BY <1>4, <1>5, <1>6, ChunksConcat

\* A node holds the values at it and, behind the chunks of each way, what the
\* tree there holds.
LEMMA HoldsBelow ==
  ASSUME NEW store, NEW H, Trees(store, H), NEW r \in DOMAIN store, NEW k \in Seq(Chunks), NEW v
  PROVE  Holds(store, r, k, v) <=>
           \/ [chunks |-> k, value |-> v] \in Slots(Decode(store[r]))
           \/ \E way \in Ways(Decode(store[r])) : \E d \in Seq(Chunks) :
                k = way.chunks \o d /\ Holds(store, way.ref, d, v)
<1> DEFINE e == [chunks |-> k, value |-> v]
           T == [chunks : Seq(Chunks), ref : DOMAIN store]
<1>1. /\ Ways(Decode(store[r])) \subseteq T
      /\ \A h \in Slots(Decode(store[r])) :
       h.chunks \in Seq(Chunks) /\ h = [chunks |-> h.chunks, value |-> h.value]
  BY StoreWays
<1>2. HeldAt(store, Level(store, r)[0]) = Slots(Decode(store[r]))
  <2> SUFFICES ASSUME NEW f PROVE f \in HeldAt(store, Level(store, r)[0]) <=> f \in Slots(Decode(store[r]))
    OBVIOUS
  <2>1. f \in HeldAt(store, Level(store, r)[0]) <=> Found(store, {[chunks |-> <<>>, ref |-> r]}, f)
    BY LevelSteps, HeldAtMember
  <2>2. Found(store, {[chunks |-> <<>>, ref |-> r]}, f)
          <=> \E h \in Slots(Decode(store[r])) : f = [chunks |-> <<>> \o h.chunks, value |-> h.value]
    BY DEF Found
  <2>3. \A h \in Slots(Decode(store[r])) : [chunks |-> <<>> \o h.chunks, value |-> h.value] = h
    <3> TAKE h \in Slots(Decode(store[r]))
    <3>1. <<>> \o h.chunks = h.chunks
      BY <1>1, ChunksConcat
    <3> QED
      BY <1>1, <3>1
  <2> QED
    BY <2>1, <2>2, <2>3
<1>3. ASSUME Holds(store, r, k, v), e \notin Slots(Decode(store[r]))
      PROVE  \E way \in Ways(Decode(store[r])) : \E d \in Seq(Chunks) :
               k = way.chunks \o d /\ Holds(store, way.ref, d, v)
  <2>1. PICK m \in Nat : e \in HeldAt(store, Level(store, r)[m])
    BY <1>3 DEF Holds
  <2>2. m # 0
    BY <1>2, <1>3, <2>1
  <2>3. PICK n \in Nat : m = n + 1
    <3>1. m - 1 \in Nat /\ m = (m - 1) + 1
      BY <2>2
    <3> QED
      BY <3>1
  <2>4. Found(store, Level(store, r)[n + 1], e)
    BY <2>1, <2>3, HeldAtMember
  <2>5. PICK pl \in Level(store, r)[n + 1] :
           pl.ref \in DOMAIN store /\ \E h \in Slots(Decode(store[pl.ref])) :
             e = [chunks |-> pl.chunks \o h.chunks, value |-> h.value]
    BY <2>4 DEF Found
  <2>6. PICK h \in Slots(Decode(store[pl.ref])) : e = [chunks |-> pl.chunks \o h.chunks, value |-> h.value]
    BY <2>5
  <2>7. pl \in T /\ [chunks |-> pl.chunks, ref |-> pl.ref] = pl
    BY LevelTyped
  <2>8. InBelow(store, r, n, pl.chunks, pl.ref)
    BY <2>7, LevelBelow
  <2>9. PICK way \in Ways(Decode(store[r])) : \E q \in Level(store, way.ref)[n] :
           pl.chunks = way.chunks \o q.chunks /\ pl.ref = q.ref
    BY <2>8 DEF InBelow
  <2>10. PICK q \in Level(store, way.ref)[n] : pl.chunks = way.chunks \o q.chunks /\ pl.ref = q.ref
    BY <2>9
  <2>11. way.chunks \in Seq(Chunks) /\ q.chunks \in Seq(Chunks) /\ h.chunks \in Seq(Chunks)
    <3>1. way \in T /\ q \in T
      BY <1>1, LevelTyped
    <3>2. pl.ref \in DOMAIN store
      BY <2>5, <2>7
    <3>3. h.chunks \in Seq(Chunks)
      BY <3>2, StoreWays 
    <3> QED
      BY <3>1, <3>3
  <2> DEFINE d == q.chunks \o h.chunks
  <2>12. d \in Seq(Chunks) /\ (way.chunks \o q.chunks) \o h.chunks = way.chunks \o d
    <3>1. d \in Seq(Chunks)
      BY <2>11, ChunksConcat
    <3>2. (way.chunks \o q.chunks) \o h.chunks = way.chunks \o (q.chunks \o h.chunks)
      BY <2>11, ChunksConcat, ZenonT(30)
    <3> QED
      BY <3>1, <3>2
  <2>13. k = way.chunks \o d /\ v = h.value
    BY <2>6, <2>10, <2>12
  <2>14. Found(store, Level(store, way.ref)[n], [chunks |-> d, value |-> v])
    BY <2>5, <2>6, <2>10, <2>13 DEF Found
  <2>15. Holds(store, way.ref, d, v)
    BY <2>14, HeldAtMember DEF Holds
  <2> QED
    BY <2>12, <2>13, <2>15
<1>4. ASSUME NEW way \in Ways(Decode(store[r])), NEW d \in Seq(Chunks), k = way.chunks \o d, Holds(store, way.ref, d, v)
      PROVE  Holds(store, r, k, v)
  <2>1. PICK n \in Nat : [chunks |-> d, value |-> v] \in HeldAt(store, Level(store, way.ref)[n])
    BY <1>4 DEF Holds
  <2>2. Found(store, Level(store, way.ref)[n], [chunks |-> d, value |-> v])
    BY <2>1, HeldAtMember
  <2>3. PICK q \in Level(store, way.ref)[n] :
           q.ref \in DOMAIN store /\ \E h \in Slots(Decode(store[q.ref])) :
             [chunks |-> d, value |-> v] = [chunks |-> q.chunks \o h.chunks, value |-> h.value]
    BY <2>2 DEF Found
  <2>4. PICK h \in Slots(Decode(store[q.ref])) : d = q.chunks \o h.chunks /\ v = h.value
    BY <2>3
  <2>5. way.chunks \in Seq(Chunks) /\ q.chunks \in Seq(Chunks) /\ h.chunks \in Seq(Chunks)
    <3>1. way \in T /\ q \in T
      BY <1>1, LevelTyped
    <3>2. q.ref \in DOMAIN store
      BY <2>3, <3>1
    <3>3. h.chunks \in Seq(Chunks)
      BY <3>2, StoreWays 
    <3> QED
      BY <3>1, <3>3
  <2> DEFINE pl == [chunks |-> way.chunks \o q.chunks, ref |-> q.ref]
  <2>6. pl \in Level(store, r)[n + 1]
    <3>1. InBelow(store, r, n, pl.chunks, pl.ref)
      BY <2>3 DEF InBelow
    <3> QED
      BY <3>1, LevelBelow
  <2>7. k = pl.chunks \o h.chunks
    <3>1. (way.chunks \o q.chunks) \o h.chunks = way.chunks \o (q.chunks \o h.chunks)
      <4>1. \A a, b, c \in Seq(Chunks) : (a \o b) \o c = a \o (b \o c)
        BY ChunksConcat
      <4> QED
        BY <2>5, <4>1, ZenonT(30)
    <3>2. pl.chunks = way.chunks \o q.chunks
      OBVIOUS
    <3> HIDE DEF pl
    <3> QED
      BY <1>4, <2>4, <3>1, <3>2
  <2>8. Found(store, Level(store, r)[n + 1], e)
    BY <2>3, <2>4, <2>6, <2>7 DEF Found
  <2>9. e \in HeldAt(store, Level(store, r)[n + 1]) /\ n + 1 \in Nat
    BY <2>8, HeldAtMember
  <2> QED
    BY <2>9 DEF Holds
<1>5. ASSUME e \in Slots(Decode(store[r])) PROVE Holds(store, r, k, v)
  BY <1>2, <1>5 DEF Holds
<1> QED
  <2>1. ASSUME Holds(store, r, k, v)
        PROVE  \/ e \in Slots(Decode(store[r]))
               \/ \E way \in Ways(Decode(store[r])) : \E d \in Seq(Chunks) :
                    k = way.chunks \o d /\ Holds(store, way.ref, d, v)
    BY <1>3, <2>1
  <2>2. ASSUME \E way \in Ways(Decode(store[r])) : \E d \in Seq(Chunks) :
                 k = way.chunks \o d /\ Holds(store, way.ref, d, v)
        PROVE  Holds(store, r, k, v)
    BY <1>4, <2>2
  <2> QED
    BY <1>5, <2>1, <2>2

\* The same for each kind of a node.
LEMMA HoldsSuffix ==
  ASSUME NEW store, NEW H, Trees(store, H), NEW r \in DOMAIN store, store[r].type = "suffix",
         NEW k \in Seq(Chunks), NEW v
  PROVE  Holds(store, r, k, v) <=>
           \E c \in Chunks : /\ k = <<c>>
                             /\ v = Decode(store[r]).children[c] /\ v # None
<1> DEFINE node == Decode(store[r])
<1>1. TreeNode(store, H, node, H[r]) /\ node.type = "suffix"
  BY DEF Trees
<1> HIDE DEF node
<1>2. /\ Ways(node) = {}
      /\ Slots(node) = {[chunks |-> <<c>>, value |-> node.children[c]]
                          : c \in {d \in Chunks : node.children[d] # None}}
  BY <1>1, WaysOfNode
<1>3. Holds(store, r, k, v) <=> [chunks |-> k, value |-> v] \in Slots(node)
  <2>1. Holds(store, r, k, v) <=>
          \/ [chunks |-> k, value |-> v] \in Slots(node)
          \/ \E way \in Ways(node) : \E d \in Seq(Chunks) :
               k = way.chunks \o d /\ Holds(store, way.ref, d, v)
    BY HoldsBelow, SMTT(20) DEF node
  <2> QED
    BY <1>2, <2>1
<1>4. \A c : [chunks |-> k, value |-> v] = [chunks |-> <<c>>, value |-> node.children[c]]
               <=> k = <<c>> /\ v = node.children[c]
  OBVIOUS
<1>5. [chunks |-> k, value |-> v] \in Slots(node)
        <=> \E c \in Chunks : /\ node.children[c] # None
                              /\ [chunks |-> k, value |-> v] = [chunks |-> <<c>>, value |-> node.children[c]]
  <2> DEFINE e == [chunks |-> k, value |-> v]
             f(c) == [chunks |-> <<c>>, value |-> node.children[c]]
  <2>1. Slots(node) = {f(c) : c \in {d \in Chunks : node.children[d] # None}}
    BY <1>2
  <2> HIDE DEF e, f
  <2>2. e \in Slots(node) <=> \E c \in Chunks : node.children[c] # None /\ e = f(c)
    BY <2>1
  <2> QED
    BY <2>2 DEF e, f
<1>6. Holds(store, r, k, v) <=> \E c \in Chunks : k = <<c>> /\ v = node.children[c] /\ v # None
  BY <1>3, <1>4, <1>5
<1> QED
  BY <1>6 DEF node

\* An extension holds what its suffix node does, after its stem.
LEMMA HoldsExtension ==
  ASSUME NEW store, NEW H, Trees(store, H), NEW r \in DOMAIN store, store[r].type = "extension",
         NEW k \in Seq(Chunks), NEW v
  PROVE  Holds(store, r, k, v) <=>
           \E d \in Seq(Chunks) : /\ k = Decode(store[r]).stem \o d
                                  /\ Holds(store, Decode(store[r]).child, d, v)
<1>0. Holds(store, r, k, v) <=>
        \/ [chunks |-> k, value |-> v] \in Slots(Decode(store[r]))
        \/ \E way \in Ways(Decode(store[r])) : \E d \in Seq(Chunks) :
             k = way.chunks \o d /\ Holds(store, way.ref, d, v)
  BY HoldsBelow, SMTT(20)
<1> DEFINE node == Decode(store[r])
           path == [chunks |-> node.stem, ref |-> node.child]
<1>1. TreeNode(store, H, node, H[r]) /\ node.type = "extension"
  BY DEF Trees
<1>2. path.chunks = node.stem /\ path.ref = node.child
  OBVIOUS
<1> HIDE DEF node
<1>3. Ways(node) = {path} /\ Slots(node) = {}
  BY <1>1, WaysOfNode
<1> HIDE DEF path
<1>4. Holds(store, r, k, v) <=>
        \/ [chunks |-> k, value |-> v] \in Slots(node)
        \/ \E w \in Ways(node) : \E d \in Seq(Chunks) :
             k = w.chunks \o d /\ Holds(store, w.ref, d, v)
  BY <1>0 DEF node
<1>5. Holds(store, r, k, v) <=>
        \E d \in Seq(Chunks) : k = node.stem \o d /\ Holds(store, node.child, d, v)
  BY <1>2, <1>3, <1>4
<1> QED
  BY <1>5 DEF node

\* The first chunk of a path and the rest of it.
LEMMA ChunkAndRest ==
  ASSUME NEW c \in Chunks, NEW d \in Seq(Chunks), NEW k \in Seq(Chunks)
  PROVE  <<c>> \o d = k <=> k # <<>> /\ k[1] = c /\ From(k, 1) = d
<1>1. ASSUME <<c>> \o d = k PROVE k # <<>> /\ k[1] = c /\ From(k, 1) = d
  <2>1. Len(k) = 1 + Len(d) /\ \A i \in 1..Len(k) : k[i] = IF i = 1 THEN c ELSE d[i - 1]
    BY <1>1
  <2>2. k # <<>> /\ k[1] = c
    BY <2>1
  <2>3. From(k, 1) \in Seq(Chunks) /\ Len(From(k, 1)) = Len(d)
    BY <2>1, FromType
  <2>4. \A i \in 1..Len(d) : From(k, 1)[i] = d[i]
    BY <2>1 DEF From
  <2> QED
    BY <2>2, <2>3, <2>4, SeqEqual
<1>2. ASSUME k # <<>>, k[1] = c, From(k, 1) = d PROVE <<c>> \o d = k
  <2>1. Len(k) \in Nat \ {0}
    BY <1>2
  <2>2. Len(d) = Len(k) - 1
    BY <1>2, <2>1, FromType
  <2>3. \A i \in 1..Len(d) : d[i] = k[i + 1]
    BY <1>2, <2>1, <2>2 DEF From
  <2>4. <<c>> \o d \in Seq(Chunks) /\ Len(<<c>> \o d) = Len(k)
    BY <2>2
  <2>5. \A i \in 1..Len(k) : (<<c>> \o d)[i] = k[i]
    <3> TAKE i \in 1..Len(k)
    <3>1. CASE i = 1
      BY <1>2, <3>1
    <3>2. CASE i # 1
      <4>1. i - 1 \in 1..Len(d) /\ (<<c>> \o d)[i] = d[i - 1] /\ (i - 1) + 1 = i
        BY <2>1, <2>2, <3>2
      <4> QED
        BY <2>3, <4>1
    <3> QED
      BY <3>1, <3>2
  <2> QED
    BY <2>4, <2>5, SeqEqual
<1> QED
  BY <1>1, <1>2

\* An internal node holds what its children do, each after its chunk.
LEMMA HoldsInternal ==
  ASSUME NEW store, NEW H, Trees(store, H), NEW r \in DOMAIN store, store[r].type = "internal",
         NEW k \in Seq(Chunks), NEW v
  PROVE  Holds(store, r, k, v) <=>
           /\ k # <<>> /\ Decode(store[r]).children[k[1]] # None
           /\ Holds(store, Decode(store[r]).children[k[1]], From(k, 1), v)
<1>0. Holds(store, r, k, v) <=>
        \/ [chunks |-> k, value |-> v] \in Slots(Decode(store[r]))
        \/ \E way \in Ways(Decode(store[r])) : \E d \in Seq(Chunks) :
             k = way.chunks \o d /\ Holds(store, way.ref, d, v)
  BY HoldsBelow, SMTT(20)
<1> DEFINE node == Decode(store[r])
           path(c) == [chunks |-> <<c>>, ref |-> node.children[c]]
<1>1. TreeNode(store, H, node, H[r]) /\ node.type = "internal"
  BY DEF Trees
<1>2. \A c : path(c).chunks = <<c>> /\ path(c).ref = node.children[c]
  OBVIOUS
<1> HIDE DEF node
<1>3. /\ Ways(node) = {path(c) : c \in {d \in Chunks : node.children[d] # None}}
      /\ Slots(node) = {}
  BY <1>1, WaysOfNode
<1> HIDE DEF path
<1>4. Holds(store, r, k, v) <=>
        \/ [chunks |-> k, value |-> v] \in Slots(node)
        \/ \E w \in Ways(node) : \E d \in Seq(Chunks) :
             k = w.chunks \o d /\ Holds(store, w.ref, d, v)
  BY <1>0 DEF node
<1>5. Holds(store, r, k, v) <=>
        \E c \in Chunks : /\ node.children[c] # None
                          /\ \E d \in Seq(Chunks) : k = <<c>> \o d /\ Holds(store, node.children[c], d, v)
  <2> DEFINE Used == {d \in Chunks : node.children[d] # None}
  <2>1. \A c : c \in Used <=> c \in Chunks /\ node.children[c] # None
    OBVIOUS
  <2>2. Ways(node) = {path(c) : c \in Used}
    BY <1>3, Zenon
  <2> HIDE DEF Used
  <2>3. \A w : w \in Ways(node) <=> \E c \in Used : w = path(c)
    BY <2>2
  <2>4. Holds(store, r, k, v) <=>
          \E w \in Ways(node) : \E d \in Seq(Chunks) : k = w.chunks \o d /\ Holds(store, w.ref, d, v)
    BY <1>3, <1>4, Zenon
  <2>5. Holds(store, r, k, v) <=>
          \E c \in Used : \E d \in Seq(Chunks) : k = path(c).chunks \o d /\ Holds(store, path(c).ref, d, v)
    BY <2>3, <2>4
  <2> QED
    BY <1>2, <2>1, <2>5
<1>6. \A c \in Chunks : \A d \in Seq(Chunks) :
        k = <<c>> \o d <=> k # <<>> /\ k[1] = c /\ From(k, 1) = d
  BY ChunkAndRest
<1>7. k # <<>> => k[1] \in Chunks /\ From(k, 1) \in Seq(Chunks)
  <2> SUFFICES ASSUME k # <<>> PROVE k[1] \in Chunks /\ From(k, 1) \in Seq(Chunks)
    OBVIOUS
  <2>1. 1 \in 0..Len(k)
    OBVIOUS
  <2> QED
    BY <2>1, FromType
<1>8. Holds(store, r, k, v) <=>
        k # <<>> /\ node.children[k[1]] # None /\ Holds(store, node.children[k[1]], From(k, 1), v)
  BY <1>5, <1>6, <1>7
<1> QED
  BY <1>8 DEF node

\* A tree holds one value at most for a path.
LEMMA HoldsOnce ==
  ASSUME NEW store, NEW H, Trees(store, H)
  PROVE  \A r \in DOMAIN store, k \in Seq(Chunks) : \A v, w :
           Holds(store, r, k, v) /\ Holds(store, r, k, w) => v = w
<1> DEFINE Once(r, k) == \A v, w : Holds(store, r, k, v) /\ Holds(store, r, k, w) => v = w
           S == {n \in Nat : \A k \in Seq(Chunks) : Len(k) < n => \A r \in DOMAIN store : Once(r, k)}
<1>0. \A r \in DOMAIN store : TreeNode(store, H, Decode(store[r]), H[r])
                              /\ Decode(store[r]).type = store[r].type
  BY DEF Trees
<1>3. ASSUME NEW r \in DOMAIN store, store[r].type = "suffix", NEW k \in Seq(Chunks) PROVE Once(r, k)
  <2> SUFFICES ASSUME NEW v, NEW w, Holds(store, r, k, v), Holds(store, r, k, w) PROVE v = w
    OBVIOUS
  <2>1. PICK c \in Chunks : k = <<c>> /\ v = Decode(store[r]).children[c]
    BY <1>3, HoldsSuffix
  <2>2. PICK d \in Chunks : k = <<d>> /\ w = Decode(store[r]).children[d]
    BY <1>3, HoldsSuffix
  <2>3. c = d
    BY <2>1, <2>2
  <2> QED
    BY <2>1, <2>2, <2>3
<1>4. ASSUME NEW r \in DOMAIN store, store[r].type = "extension", NEW k \in Seq(Chunks) PROVE Once(r, k)
  <2> DEFINE node == Decode(store[r])
  <2> SUFFICES ASSUME NEW v, NEW w, Holds(store, r, k, v), Holds(store, r, k, w) PROVE v = w
    OBVIOUS
  <2>1. /\ node.stem \in Seq(Chunks) /\ node.child \in DOMAIN store
        /\ store[node.child].type = "suffix"
    BY <1>0, <1>4 DEF TreeNode
  <2>2. PICK d \in Seq(Chunks) : k = node.stem \o d /\ Holds(store, node.child, d, v)
    BY <1>4, HoldsExtension
  <2>3. PICK e \in Seq(Chunks) : k = node.stem \o e /\ Holds(store, node.child, e, w)
    BY <1>4, HoldsExtension
  <2> HIDE DEF node
  <2>4. d = e
    <3>1. \A s, a, b \in Seq(Chunks) : s \o a = s \o b => a = b
      <4> SUFFICES ASSUME NEW s \in Seq(Chunks), NEW a \in Seq(Chunks), NEW b \in Seq(Chunks),
                          s \o a = s \o b
                   PROVE  a = b
        OBVIOUS
      <4>1. Len(a) = Len(b)
        <5>1. Len(s \o a) = Len(s) + Len(a) /\ Len(s \o b) = Len(s) + Len(b)
          BY ChunksConcat
        <5> QED
          BY <5>1
      <4>2. \A i \in 1..Len(a) : a[i] = b[i]
        <5> TAKE i \in 1..Len(a)
        <5>1. (s \o a)[Len(s) + i] = a[i] /\ (s \o b)[Len(s) + i] = b[i]
          BY <4>1
        <5> QED
          BY <5>1
      <4> QED
        BY <4>1, <4>2, SeqEqual
    <3> QED
      BY <2>1, <2>2, <2>3, <3>1
  <2>5. Once(node.child, d)
    BY <1>3, <2>1
  <2> QED
    BY <2>2, <2>3, <2>4, <2>5
<1>1. 0 \in S
  OBVIOUS
<1>2. ASSUME NEW n \in Nat, n \in S PROVE n + 1 \in S
  <2> SUFFICES ASSUME NEW k \in Seq(Chunks), Len(k) < n + 1, NEW r \in DOMAIN store PROVE Once(r, k)
    <3> HIDE DEF Once
    <3> QED
      OBVIOUS
  <2>1. CASE store[r].type = "internal"
    <3> DEFINE node == Decode(store[r])
    <3> SUFFICES ASSUME NEW v, NEW w, Holds(store, r, k, v), Holds(store, r, k, w) PROVE v = w
      OBVIOUS
    <3>1. /\ k # <<>> /\ node.children[k[1]] # None
          /\ Holds(store, node.children[k[1]], From(k, 1), v)
          /\ Holds(store, node.children[k[1]], From(k, 1), w)
      BY <2>1, HoldsInternal
    <3>2. k[1] \in Chunks /\ 1 \in 0..Len(k)
      BY <3>1
    <3>3. From(k, 1) \in Seq(Chunks) /\ Len(From(k, 1)) = Len(k) - 1
      BY <3>2, FromType
    <3>4. node.children[k[1]] \in DOMAIN store
      <4>1. TreeNode(store, H, node, H[r]) /\ node.type = "internal"
        BY <1>0, <2>1
      <4> HIDE DEF node
      <4>2. node.children \in [Chunks -> DOMAIN store \cup {None}]
        BY <4>1 DEF TreeNode
      <4> QED
        BY <3>1, <3>2, <4>2
    <3>5. Once(node.children[k[1]], From(k, 1))
      <4>1. Len(From(k, 1)) < n
        BY <3>3
      <4> HIDE DEF Once
      <4> QED
        BY <1>2, <3>3, <3>4, <4>1
    <3> QED
      BY <3>1, <3>5
  <2> QED
    BY <1>0, <1>3, <1>4, <2>1 DEF TreeNode
<1> HIDE DEF S
<1>5. Nat \subseteq S
  BY <1>1, <1>2, SetInduction
<1>6. ASSUME NEW r \in DOMAIN store, NEW k \in Seq(Chunks) PROVE Once(r, k)
  <2>1. Len(k) + 1 \in S /\ Len(k) < Len(k) + 1
    BY <1>5
  <2> HIDE DEF Once
  <2> QED
    BY <2>1 DEF S
<1> QED
  BY <1>6

\* How high the nodes of a tree can be: level n of a tree of full height.
Ranked(store, H, ref, n) ==
  /\ ref \in DOMAIN store
  /\ store[ref].type = "internal" => H[ref] <= StemLen - n
  /\ store[ref].type = "extension" => n <= StemLen
  /\ n <= NumChunks

\* A tree of full height.
FullTree(store, H, r) ==
  r \in DOMAIN store /\ store[r].type = "internal" /\ H[r] <= StemLen

\* A level is reached by ways that each lower the height.
LEMMA LevelRanks ==
  ASSUME NEW store, NEW H, Trees(store, H), NEW r, FullTree(store, H, r)
  PROVE  \A n \in Nat : \A pl \in Level(store, r)[n] : Ranked(store, H, pl.ref, n)
<1> DEFINE S == {n \in Nat : \A pl \in Level(store, r)[n] : Ranked(store, H, pl.ref, n)}
<1>0. StemLen \in Nat \ {0} /\ NumChunks = StemLen + 1
  BY StemLenType, VerkleAssumption DEF StemLen, NumChunks, VerkleAssumption
<1>1. 0 \in S
  <2>1. Level(store, r)[0] = {[chunks |-> <<>>, ref |-> r]}
    BY LevelSteps
  <2>2. Ranked(store, H, r, 0)
    BY <1>0 DEF FullTree, Ranked
  <2> QED
    BY <2>1, <2>2
<1>2. ASSUME NEW n \in Nat, n \in S PROVE n + 1 \in S
  <2> SUFFICES ASSUME NEW e \in Level(store, r)[n + 1] PROVE Ranked(store, H, e.ref, n + 1)
    OBVIOUS
  <2>1. Level(store, r)[n + 1] = Deeper(store, Level(store, r)[n])
    BY LevelSteps
  <2>2. Reached(store, Level(store, r)[n], e)
    BY <2>1, DeeperMember
  <2>3. PICK pl \in Level(store, r)[n] :
           /\ pl.ref \in DOMAIN store
           /\ \E way \in Ways(Decode(store[pl.ref])) :
                e = [chunks |-> pl.chunks \o way.chunks, ref |-> way.ref]
    BY <2>2 DEF Reached
  <2>4. PICK way \in Ways(Decode(store[pl.ref])) : e.ref = way.ref
    <3>1. PICK way \in Ways(Decode(store[pl.ref])) :
             e = [chunks |-> pl.chunks \o way.chunks, ref |-> way.ref]
      BY <2>3
    <3> QED
      BY <3>1
  <2> DEFINE p == pl.ref
             node == Decode(store[p])
  <2>5. Ranked(store, H, p, n)
    BY <1>2
  <2>6. TreeNode(store, H, node, H[p]) /\ node.type = store[p].type /\ H[p] \in Nat /\ p \in DOMAIN store
    BY <2>3 DEF Trees
  <2>7. way \in Ways(node)
    BY <2>4
  <2> HIDE DEF node, p
  <2>8. CASE node.type = "internal"
    <3>1. PICK c \in Chunks : node.children[c] # None /\ way.ref = node.children[c]
      <4>1. Ways(node) = {[chunks |-> <<c>>, ref |-> node.children[c]]
                            : c \in {d \in Chunks : node.children[d] # None}}
        BY <2>6, <2>8, WaysOfNode
      <4> QED
        BY <2>7, <4>1
    <3>2. H[p] > 0 /\ H[p] <= StemLen - n
      BY <2>5, <2>6, <2>8 DEF TreeNode, Ranked
    <3>3. way.ref \in DOMAIN store
      BY <2>6, <2>8, <3>1 DEF TreeNode
    <3>4. \/ store[way.ref].type = "extension"
          \/ store[way.ref].type = "internal" /\ H[way.ref] < H[p]
      BY <2>6, <2>8, <3>1 DEF TreeNode
    <3>5. H[way.ref] \in Nat
      BY <3>3 DEF Trees
    <3>6. store[way.ref].type = "internal" => H[way.ref] <= StemLen - (n + 1)
      <4>1. \A a, b, m, h \in Nat : h > 0 /\ h <= b - m /\ a < h => a <= b - (m + 1)
        OBVIOUS
      <4> QED
        BY <1>0, <2>6, <3>2, <3>4, <3>5, <4>1
    <3>7. n + 1 <= StemLen
      <4>1. \A b, m, h \in Nat : h > 0 /\ h <= b - m => m + 1 <= b
        OBVIOUS
      <4> QED
        BY <1>0, <2>6, <3>2, <4>1
    <3>8. n + 1 <= NumChunks
      BY <1>0, <3>7
    <3> QED
      BY <2>4, <3>3, <3>6, <3>7, <3>8 DEF Ranked
  <2>9. CASE node.type = "extension"
    <3>1. way.ref = node.child
      <4>1. Ways(node) = {[chunks |-> node.stem, ref |-> node.child]}
        BY <2>6, <2>9, WaysOfNode
      <4> QED
        BY <2>7, <4>1
    <3>2. way.ref \in DOMAIN store /\ store[way.ref].type = "suffix"
      BY <2>6, <2>9, <3>1 DEF TreeNode
    <3>3. n <= StemLen
      BY <2>5, <2>6, <2>9 DEF Ranked
    <3>4. n + 1 <= NumChunks
      BY <1>0, <3>3
    <3> QED
      BY <2>4, <3>2, <3>4 DEF Ranked
  <2>10. CASE node.type = "suffix"
    <3>1. Ways(node) = {}
      BY <2>6, <2>10, WaysOfNode
    <3> QED
      BY <2>7, <3>1
  <2> QED
    BY <2>6, <2>8, <2>9, <2>10 DEF TreeNode
<1> HIDE DEF S
<1>3. Nat \subseteq S
  BY <1>1, <1>2, SetInduction
<1> QED
  BY <1>3 DEF S

\* The levels that Pairs reads are all there are.
LEMMA PairsHold ==
  ASSUME NEW store, NEW H, Trees(store, H), NEW r, FullTree(store, H, r)
  PROVE  /\ \A e \in Pairs(store, r) : /\ e = [chunks |-> e.chunks, value |-> e.value]
                                       /\ Holds(store, r, e.chunks, e.value)
         /\ \A k, v : Holds(store, r, k, v) => [chunks |-> k, value |-> v] \in Pairs(store, r)
<1> DEFINE P == Pairs(store, r)
<1>0. NumChunks \in Nat
  BY StemLenType, VerkleAssumption DEF StemLen, NumChunks, VerkleAssumption
<1>1. \A e : e \in P <=> \E n \in 0..NumChunks : e \in HeldAt(store, Level(store, r)[n])
  BY DEF Pairs
<1>2. ASSUME NEW e \in P
      PROVE  e = [chunks |-> e.chunks, value |-> e.value] /\ Holds(store, r, e.chunks, e.value)
  <2>1. PICK n \in 0..NumChunks : e \in HeldAt(store, Level(store, r)[n])
    BY <1>1
  <2>2. Found(store, Level(store, r)[n], e)
    BY <2>1, HeldAtMember
  <2>3. e = [chunks |-> e.chunks, value |-> e.value]
    BY <2>2 DEF Found
  <2> QED
    BY <1>0, <2>1, <2>3 DEF Holds
<1>3. ASSUME NEW k, NEW v, Holds(store, r, k, v) PROVE [chunks |-> k, value |-> v] \in P
  <2> DEFINE e == [chunks |-> k, value |-> v]
  <2>1. PICK n \in Nat : e \in HeldAt(store, Level(store, r)[n])
    BY <1>3 DEF Holds
  <2>2. Found(store, Level(store, r)[n], e)
    BY <2>1, HeldAtMember
  <2>3. \E pl \in Level(store, r)[n] : TRUE
    BY <2>2 DEF Found
  <2>4. n <= NumChunks
    BY <2>3, LevelRanks DEF Ranked
  <2>5. n \in 0..NumChunks
    BY <1>0, <2>4
  <2> HIDE DEF P, e
  <2> QED
    BY <1>1, <2>1, <2>5 DEF e
<1> QED
  BY <1>2, <1>3

\* The map read off a tree has a value for a key exactly when the tree holds it.
LEMMA MapHolds ==
  ASSUME NEW store, NEW H, Trees(store, H), NEW r, FullTree(store, H, r)
  PROVE  /\ MapOf(Pairs(store, r)) = [k \in Keys |-> MapOf(Pairs(store, r))[k]]
         /\ \A k \in Keys : \A v : Holds(store, r, KeyChunks(k), v) => MapOf(Pairs(store, r))[k] = v
         /\ \A k \in Keys : (\A v : ~Holds(store, r, KeyChunks(k), v)) => MapOf(Pairs(store, r))[k] = None
<1> DEFINE P == Pairs(store, r)
           At(k) == IF \E e \in P : e.chunks = KeyChunks(k)
                    THEN (CHOOSE e \in P : e.chunks = KeyChunks(k)).value ELSE None
<1>1. MapOf(P) = [k \in Keys |-> At(k)]
  BY DEF MapOf
<1>2. /\ \A e \in P : Holds(store, r, e.chunks, e.value)
      /\ \A k, v : Holds(store, r, k, v) => [chunks |-> k, value |-> v] \in P
  BY PairsHold
<1>3. \A k \in Keys : KeyChunks(k) \in Seq(Chunks)
  BY KeyChunksType
<1> HIDE DEF P
<1>4. ASSUME NEW k \in Keys, NEW v, Holds(store, r, KeyChunks(k), v) PROVE At(k) = v
  <2> DEFINE e == CHOOSE e \in P : e.chunks = KeyChunks(k)
  <2>1. \E f \in P : f.chunks = KeyChunks(k)
    <3>1. [chunks |-> KeyChunks(k), value |-> v] \in P
      BY <1>2, <1>4
    <3> QED
      BY <3>1
  <2>2. e \in P /\ e.chunks = KeyChunks(k)
    BY <2>1
  <2>3. Holds(store, r, KeyChunks(k), e.value)
    BY <1>2, <2>2
  <2>4. e.value = v
    <3>1. r \in DOMAIN store
      BY DEF FullTree
    <3> QED
      BY <1>3, <1>4, <2>3, <3>1, HoldsOnce
  <2> QED
    BY <2>1, <2>4
<1>5. ASSUME NEW k \in Keys, \A v : ~Holds(store, r, KeyChunks(k), v) PROVE At(k) = None
  BY <1>2, <1>5
<1> HIDE DEF At
<1>6. /\ MapOf(P) = [k \in Keys |-> MapOf(P)[k]]
      /\ \A k \in Keys : MapOf(P)[k] = At(k)
  BY <1>1
<1>7. /\ \A k \in Keys : \A v : Holds(store, r, KeyChunks(k), v) => At(k) = v
      /\ \A k \in Keys : (\A v : ~Holds(store, r, KeyChunks(k), v)) => At(k) = None
  BY <1>4, <1>5
<1> QED
  BY <1>6, <1>7 DEF P

-----------------------------------------------------------------------------
(* What the steps of insert leave on the stack *)

LEMMA EntryFields ==
  \A a, b, c : /\ Entry(a, b, c).node = a /\ Entry(a, b, c).parent = b
               /\ Entry(a, b, c).slot = c
  BY DEF Entry

\* At an empty slot an extension for the rest of the stem and a suffix node are stacked.
LEMMA EmptySlotStack ==
  ASSUME NEW H, Consistent(H), WalkEmptySlot, NEW n, n = Len(stack)
  PROVE  /\ pc = "walk" /\ pc' = "commit" /\ UNCHANGED <<db, rootFile, root, op>>
         /\ n \in Nat \ {0} /\ Len(stack') = n + 2
         /\ Node = stack[n].node /\ Node.type = "internal"
         /\ depth = n - 1 /\ Len(NewStem) = StemLen - depth /\ n <= StemLen
         /\ NewStem \in Seq(Chunks) /\ NewStem[1] \in Chunks /\ Node.children[NewStem[1]] = None
         /\ \A i \in 1..n : stack'[i] = stack[i]
         /\ stack'[n + 1] = Entry(Extension(From(NewStem, 1), None), n, NewStem[1])
         /\ stack'[n + 2] = Entry(NewSuffix, n + 1, "child")
<1> PICK stem, c, node : stem = From(NewStem, 1) /\ c = NewStem[1] /\ node = NewSuffix
  OBVIOUS
<1> DEFINE ext == Entry(Extension(stem, None), n, c)
           suf == Entry(node, n + 1, "child")
<1>1. /\ pc = "walk" /\ Node.type = "internal" /\ pc' = "commit" /\ Node.children[c] = None
      /\ UNCHANGED <<db, rootFile, root, op>> /\ stack' = stack \o <<ext, suf>>
  BY DEF WalkEmptySlot, Commence, disk
<1>2. /\ n \in Nat \ {0} /\ Node = stack[n].node /\ depth = n - 1
      /\ NewStem \in Seq(Chunks) /\ Len(NewStem) = StemLen - depth /\ c \in Chunks /\ n <= StemLen
  BY <1>1, WalkTop DEF Consistent
<1>3. /\ Len(stack') = n + 2
      /\ \A i \in 1..n : stack'[i] = stack[i]
      /\ stack'[n + 1] = ext /\ stack'[n + 2] = suf
  <2> PICK t : t = <<ext, suf>>
    OBVIOUS
  <2>1. Len(t) = 2 /\ t[1] = ext /\ t[2] = suf /\ Sequence(t)
    BY DEF Sequence
  <2>2. stack' = stack \o t
    BY <1>1
  <2> HIDE DEF ext, suf
  <2>3. 1 \in 1..Len(t) /\ 2 \in 1..Len(t)
    BY <2>1
  <2>4. /\ Len(stack \o t) = Len(stack) + Len(t) /\ Sequence(stack \o t)
        /\ \A i \in 1..Len(stack) : (stack \o t)[i] = stack[i]
        /\ \A i \in 1..Len(t) : (stack \o t)[Len(stack) + i] = t[i]
    <3>1. Len(stack) \in Nat /\ Sequence(stack) /\ Len(t) \in Nat
      BY <1>1, <1>2, <2>1 DEF Consistent, StackOK
    <3> QED
      BY <2>1, <3>1, AppendedEntries
  <2> QED
    BY <1>2, <2>1, <2>2, <2>3, <2>4
<1> HIDE DEF ext, suf
<1> QED
  BY <1>1, <1>2, <1>3 DEF ext, suf

\* The walk goes down to a child: it is loaded and stacked.
LEMMA ChildStack ==
  ASSUME NEW H, Consistent(H), WalkChild, NEW n, n = Len(stack)
  PROVE  /\ pc = "walk" /\ pc' = "walk" /\ UNCHANGED <<db, rootFile, root, op>>
         /\ n \in Nat \ {0} /\ Len(stack') = n + 1 /\ depth = n - 1
         /\ Node = stack[n].node /\ Node.type = "internal" /\ NewStem[1] \in Chunks
         /\ Len(NewStem) = StemLen - depth /\ n <= StemLen /\ NewStem \in Seq(Chunks)
         /\ \A i \in 1..n : stack'[i] = stack[i]
         /\ stack'[n + 1] = Entry(Load(Node.children[NewStem[1]]), n, NewStem[1])
         /\ Kid(H, Node.children[NewStem[1]], StemLen - n + 1)
         /\ Load(Node.children[NewStem[1]]) = db[Node.children[NewStem[1]]]
<1>p. PICK c, ref, node : c = NewStem[1] /\ ref = Node.children[NewStem[1]] /\ node = Load(ref)
  OBVIOUS
<1>1. /\ pc = "walk" /\ Node.type = "internal" /\ pc' = "walk" /\ ref # None
      /\ UNCHANGED <<db, rootFile, root, op>>
      /\ stack' = Append(stack, Entry(node, n, c))
  BY <1>p DEF WalkChild, disk
<1>2. /\ n \in Nat \ {0} /\ Node = stack[n].node /\ c \in Chunks /\ depth = n - 1
      /\ NewStem \in Seq(Chunks) /\ Len(NewStem) = StemLen - depth /\ n <= StemLen
      /\ Sequence(stack)
  BY <1>1, <1>p, WalkTop DEF Consistent, StackOK
<1>3. /\ Len(stack') = n + 1
      /\ \A i \in 1..n : stack'[i] = stack[i]
      /\ stack'[n + 1] = Entry(node, n, c)
  BY <1>1, <1>2, <1>p, AppendedEntry
<1>4. Kid(H, ref, StemLen - n + 1)
  <2>1. InternalAt(H, n)
    BY <1>1, <1>2, <1>p DEF Consistent, StackOK, EntryAt
  <2> QED
    BY <1>1, <1>2, <1>p, <2>1 DEF InternalAt, InternalNode
<1>5. node = db[ref]
  BY <1>4, <1>p, LoadInternalOrExtension DEF Kid
<1> QED
  BY <1>p, <1>1, <1>2, <1>3, <1>4, <1>5

\* At the key's own extension its suffix node, with the value, is stacked.
LEMMA SameStemStack ==
  ASSUME NEW H, Consistent(H), WalkSameStem, NEW n, n = Len(stack)
  PROVE  /\ pc = "walk" /\ pc' = "commit" /\ UNCHANGED <<db, rootFile, root, op>>
         /\ n \in Nat \ {0, 1} /\ Len(stack') = n + 1 /\ depth = n - 1
         /\ Node = stack[n].node /\ Node.type = "extension" /\ Node.stem = NewStem
         /\ NewStem \in Seq(Chunks) /\ Len(NewStem) = StemLen - depth /\ n - 1 <= StemLen
         /\ \A i \in 1..n : stack'[i] = stack[i]
         /\ stack'[n + 1] = Entry(SetSlot(Load(Node.child), SuffixOf(op.key), op.value), n, "child")
         /\ SuffixRef(Node.child)
<1>p. PICK node : node = SetSlot(Load(Node.child), SuffixOf(op.key), op.value)
  OBVIOUS
<1>1. /\ pc = "walk" /\ Node.type = "extension" /\ pc' = "commit" /\ Node.stem = NewStem
      /\ UNCHANGED <<db, rootFile, root, op>>
      /\ stack' = Append(stack, Entry(node, n, "child"))
  BY <1>p DEF WalkSameStem, Commence, disk
<1>2. /\ n \in Nat \ {0} /\ Node = stack[n].node /\ depth = n - 1
      /\ NewStem \in Seq(Chunks) /\ Len(NewStem) = StemLen - depth /\ n - 1 <= StemLen
      /\ Sequence(stack)
  BY <1>1, WalkTop DEF Consistent, StackOK
<1>3. /\ Len(stack') = n + 1
      /\ \A i \in 1..n : stack'[i] = stack[i]
      /\ stack'[n + 1] = Entry(node, n, "child")
  BY <1>1, <1>2, AppendedEntry
<1>4. SuffixRef(Node.child) /\ n # 1
  <2>1. EntryAt(H, n)
    BY <1>1, <1>2 DEF Consistent, StackOK
  <2>2. ExtensionAt(n) /\ ~ Pending(n) /\ n # 1
    BY <1>1, <1>2, <2>1 DEF EntryAt, Pending
  <2> QED
    BY <1>2, <2>2 DEF ExtensionAt
<1> QED
  BY <1>p, <1>1, <1>2, <1>3, <1>4

\* The match length is the length of the longest common beginning.
LEMMA MatchLengthIs ==
  ASSUME NEW s \in Seq(Chunks), NEW t \in Seq(Chunks), NEW m, m = MatchLength(s, t)
  PROVE  /\ m \in 0..Len(s) /\ m <= Len(t)
         /\ \A i \in 1..m : s[i] = t[i]
         /\ m < Len(s) /\ m < Len(t) => s[m + 1] # t[m + 1]
<1> DEFINE M == {n \in 1..Len(s) : n <= Len(t) /\ \A i \in 1..n : s[i] = t[i]}
           A == {n \in Nat \ {0} : n \notin M}
<1>1. Len(s) \in Nat /\ Len(t) \in Nat
  OBVIOUS
<1>2. PICK x \in A : \A y \in 0..(x-1) : y \notin A
  <2>1. Len(s) + 1 \in A
    BY <1>1
  <2>2. A \subseteq Nat /\ A # {}
    BY <2>1
  <2> HIDE DEF A
  <2> QED
    BY <2>2, LeastNumber
<1>3. x \in Nat \ {0} /\ x \notin M
  OBVIOUS
<1>4. \A n \in M : \A i \in 1..n : i \in M
  OBVIOUS
<1>5. M = 1..(x - 1)
  <2>1. ASSUME NEW n \in M PROVE n \in 1..(x - 1)
    <3>1. n \in Nat \ {0}
      OBVIOUS
    <3>2. ~(x <= n)
      <4>1. x <= n => x \in 1..n
        BY <1>3, <3>1
      <4> HIDE DEF M
      <4> QED
        BY <1>3, <1>4, <4>1
    <3> QED
      BY <1>3, <3>1, <3>2
  <2>2. ASSUME NEW n \in 1..(x - 1) PROVE n \in M
    <3>1. n \in Nat \ {0} /\ n \in 0..(x - 1)
      BY <1>3
    <3>2. n \notin A
      BY <1>2, <3>1
    <3> QED
      BY <3>1, <3>2
  <2> QED
    BY <2>1, <2>2
<1>6. m = x - 1
  <2>1. x - 1 \in Nat
    BY <1>3
  <2>2. Cardinality(1..(x - 1)) = x - 1
    BY <2>1, CountToN
  <2>3. m = Cardinality(M)
    BY DEF MatchLength
  <2> QED
    BY <1>5, <2>2, <2>3
<1>7. m \in 0..Len(s) /\ m <= Len(t) /\ \A i \in 1..m : s[i] = t[i]
  <2>1. CASE m = 0
    BY <2>1, <1>1
  <2>2. CASE m # 0
    <3>1. m \in M
      <4>1. m \in 1..(x - 1)
        BY <1>3, <1>6, <2>2
      <4> HIDE DEF M
      <4> QED
        BY <1>5, <4>1
    <3> QED
      BY <1>1, <3>1
  <2> QED
    BY <2>1, <2>2
<1>8. ASSUME m < Len(s), m < Len(t), s[m + 1] = t[m + 1] PROVE FALSE
  <2>1. m + 1 = x /\ m + 1 \in 1..Len(s) /\ m + 1 <= Len(t)
    BY <1>1, <1>3, <1>6, <1>7, <1>8
  <2>2. \A i \in 1..(m + 1) : i \in 1..m \/ i = m + 1
    BY <1>7
  <2>3. \A i \in 1..(m + 1) : s[i] = t[i]
    BY <1>7, <1>8, <2>2
  <2>4. m + 1 \in M
    BY <2>1, <2>3
  <2> QED
    BY <1>3, <2>1, <2>4
<1> QED
  BY <1>7, <1>8

\* At another stem's extension the stack ends with the nodes of its split.
LEMMA SplitSteps ==
  ASSUME NEW H, Consistent(H), WalkSplit, NEW n, n = Len(stack),
         NEW m, m = MatchLength(Node.stem, NewStem)
  PROVE  /\ pc = "walk" /\ pc' = "commit" /\ UNCHANGED <<db, rootFile, root, op>>
         /\ n \in Nat \ {0, 1} /\ m \in Nat /\ depth = n - 1
         /\ Node = stack[n].node /\ Node = Extension(Node.stem, Node.child)
         /\ Node.stem \in Seq(Chunks) /\ SuffixRef(Node.child)
         /\ NewStem \in Seq(Chunks) /\ Len(NewStem) = StemLen - depth /\ n - 1 <= StemLen
         /\ m < Len(Node.stem) /\ m < Len(NewStem)
         /\ \A i \in 1..m : Node.stem[i] = NewStem[i]
         /\ Node.stem[m + 1] # NewStem[m + 1]
         /\ Last(stack) = stack[n] /\ stack[n].parent = n - 1
         /\ stack[n].slot \in Chunks
         /\ SplitStack(stack', n, m, Node, NewStem)
<1>1. /\ pc = "walk" /\ Node.type = "extension" /\ pc' = "commit"
      /\ UNCHANGED <<db, rootFile, root, op>>
      /\ stack' = Split(Last(stack), m) /\ Node.stem # NewStem
      /\ m < Len(Node.stem) /\ m < Len(NewStem)
  BY DEF WalkSplit, Commence, disk
<1>2. /\ n \in Nat \ {0} /\ Node = stack[n].node /\ Last(stack) = stack[n] /\ depth = n - 1
      /\ NewStem \in Seq(Chunks) /\ Len(NewStem) = StemLen - depth /\ n - 1 <= StemLen
  BY <1>1, WalkTop DEF Consistent
<1>3. WalkOK /\ EntryAt(H, n)
  BY <1>1, <1>2 DEF Consistent, StackOK
<1>4. ExtensionAt(n) /\ ~ Pending(n) /\ n # 1 /\ stack[n].parent = n - 1
  BY <1>1, <1>2, <1>3 DEF EntryAt, Pending, WalkOK
<1>5. /\ Node = Extension(Node.stem, Node.child)
      /\ Node.stem \in Seq(Chunks) /\ SuffixRef(Node.child) /\ stack[n].slot \in Chunks
  BY <1>2, <1>4 DEF ExtensionAt, ExtensionNode
<1>6. m \in Nat /\ \A i \in 1..m : Node.stem[i] = NewStem[i]
  BY <1>1, <1>2, <1>5, MatchLengthIs
<1>7. Node.stem[m + 1] # NewStem[m + 1]
  BY <1>1, <1>2, <1>5, MatchLengthIs
<1>8. SplitStack(stack', n, m, Node, NewStem)
  BY <1>1, <1>6, SplitEntries DEF Consistent
<1> QED
  BY <1>1, <1>2, <1>4, <1>5, <1>6, <1>7, <1>8

\* _commit_nodes takes the last of the stack and fills its parent's slot.
LEMMA CommitStack ==
  ASSUME NEW H, Consistent(H), CommitNode,
         NEW n, n = Len(stack), NEW node, node = stack[n].node,
         NEW p, p = stack[n].parent, NEW slot, slot = stack[n].slot
  PROVE  /\ pc = "commit" /\ pc' = "commit" /\ UNCHANGED <<rootFile, op>>
         /\ n \in Nat \ {0, 1} /\ p \in 1..(n - 1)
         /\ EntryAt(H, n) /\ Committed(H, node, StemLen - n + 1)
         /\ node.type \in {"internal", "extension"} =>
              stack[p].node.type = "internal" /\ slot \in Chunks
         /\ node.type = "suffix" => stack[p].node.type = "extension"
         /\ Put(Reference(node), node)
         /\ Len(stack') = n - 1
         /\ \A i \in 1..(n - 1) : i # p => stack'[i] = stack[i]
         /\ stack'[p] = Entry(SetSlot(stack[p].node, slot, Reference(node)),
                              stack[p].parent, stack[p].slot)
         /\ root # None /\ root' = [root EXCEPT !.node = stack'[1].node]
<1>l. PICK ref, up, linked : ref = Reference(node) /\ up = stack[p] /\ linked = SetSlot(up.node, slot, ref)
  OBVIOUS
<1>1. StackOK(H) /\ pc = "commit" /\ pc' = "commit" /\ UNCHANGED <<rootFile, op>>
  BY DEF Consistent, CommitNode
<1>2. /\ n \in Nat \ {0} /\ EntryAt(H, n) /\ Last(stack) = stack[n] /\ Node = node
      /\ Committed(H, node, StemLen - n + 1) /\ Sequence(stack)
      /\ \A i \in 1..n : EntryAt(H, i)
      /\ root # None
  BY <1>1, TopIsCommitted DEF StackOK
<1>3. /\ p # 0 /\ Put(ref, node)
      /\ stack' = [Front(stack) EXCEPT ![p].node = SetSlot(@, slot, ref)]
      /\ root' = [root EXCEPT !.node = stack'[1].node]
  BY <1>2, <1>l DEF CommitNode
<1>5. /\ n > 1 /\ p \in 1..(n - 1)
      /\ node.type \in {"internal", "extension"} =>
           up.node.type = "internal" /\ slot \in Chunks
      /\ node.type = "suffix" => up.node.type = "extension"
  <2>1. CASE node.type = "internal"
    BY <1>2, <1>3, <1>l, <2>1 DEF EntryAt, InternalAt
  <2>2. CASE node.type = "extension"
    <3>1. ExtensionAt(n)
      BY <1>2, <2>2 DEF EntryAt
    <3>2. p \in 1..(n - 1) /\ up.node.type = "internal" /\ slot \in Chunks
      BY <1>l, <3>1 DEF ExtensionAt
    <3> QED
      BY <1>2, <2>2, <3>2
  <2>3. CASE node.type = "suffix"
    <3>1. SuffixAt(n)
      BY <1>2, <2>3 DEF EntryAt
    <3>2. p \in 1..(n - 1) /\ up.node.type = "extension"
      BY <1>l, <3>1 DEF SuffixAt
    <3> QED
      BY <1>2, <2>3, <3>2
  <2> QED
    BY <1>2, <2>1, <2>2, <2>3 DEF EntryAt
<1>6. up = Entry(up.node, up.parent, up.slot)
  <2>1. p \in 1..n
    BY <1>2, <1>5
  <2> QED
    BY <1>2, <1>l, <2>1 DEF EntryAt
<1>7. /\ Len(stack') = n - 1
      /\ \A i \in 1..(n - 1) : i # p => stack'[i] = stack[i]
      /\ stack'[p] = Entry(linked, up.parent, up.slot)
  <2>f. PICK f : f = Front(stack)
    OBVIOUS
  <2>1. Len(f) = n - 1 /\ Sequence(f) /\ \A i \in 1..(n - 1) : f[i] = stack[i]
    BY <1>2, <2>f, FrontEntries
  <2>2. f = [i \in 1..(n - 1) |-> f[i]]
    BY <2>1 DEF Sequence
  <2>3. stack' = [i \in 1..(n - 1) |->
                    IF i = p THEN [f[p] EXCEPT !.node = SetSlot(f[p].node, slot, ref)] ELSE f[i]]
    BY <1>3, <1>5, <2>2, <2>f
  <2>4. f[p] = up /\ [up EXCEPT !.node = linked] = Entry(linked, up.parent, up.slot)
    BY <1>5, <1>6, <1>l, <2>1 DEF Entry
  <2>5. Len(stack') = n - 1
    BY <1>2, <2>3
  <2> QED
    BY <1>5, <1>l, <2>1, <2>3, <2>4, <2>5
<1> QED
  BY <1>1, <1>2, <1>3, <1>5, <1>7, <1>l

-----------------------------------------------------------------------------
(* The root in memory is the one its value refers to, except while the last *)
(* step of an insert is yet to give it a new value                          *)

RootLoaded ==
  /\ root # None /\ (pc = "commit" => Len(stack) > 1) =>
       root.node = IF root.value = None THEN Internal(NoChildren) ELSE db[root.value]
  /\ pc = "commit" => \A i \in 1..Len(stack) : stack[i].parent = 1 => i = 2

\* A node that is written replaces no internal node.
LEMMA InternalStays ==
  ASSUME NEW H, StoreOK(H), NEW node, NEW h, Committed(H, node, h),
         Put(Reference(node), node), NEW ref \in DOMAIN db, db[ref].type = "internal"
  PROVE  ref \in DOMAIN db' /\ db'[ref] = db[ref]
<1>1. /\ DOMAIN db' = DOMAIN db \cup {Reference(node)}
      /\ \A r \in DOMAIN db' : db'[r] = IF r = Reference(node) THEN Encode(node) ELSE db[r]
  BY DEF Put
<1>2. CASE ref # Reference(node)
  BY <1>1, <1>2
<1>3. CASE ref = Reference(node)
  <2>1. Stored(H, ref)
    BY DEF StoreOK
  <2>2. CASE InternalNode(H, node, h) /\ HasChild(node)
    <3>1. db[ref] = node
      BY <1>3, <2>2, SameInternal
    <3>2. Encode(node) = node
      BY <2>2, InternalReference DEF InternalNode, Encode
    <3> QED
      BY <1>1, <1>3, <3>1, <3>2
  <2>3. CASE ExtensionNode(node)
    <3>1. Reference(node)[1] = "extension"
      BY <2>3, ExtensionReference DEF ExtensionNode
    <3>2. ref = Reference(db[ref]) /\ db[ref] = Internal(db[ref].children)
      BY <2>1 DEF Stored, InternalNode
    <3>3. Reference(db[ref])[1] = "array"
      <4>1. Reference(db[ref]) = <<"array", [c \in Chunks |-> FieldOfChild(db[ref].children[c])]>>
        BY <3>2, InternalReference
      <4> QED
        BY <4>1
    <3> QED
      BY <1>3, <3>1, <3>2, <3>3
  <2>4. CASE node = Suffix(node.children)
    BY <1>3, <2>4, SameSuffix
  <2> QED
    BY <2>2, <2>3, <2>4 DEF Committed
<1> QED
  BY <1>2, <1>3

\* Every step keeps the root loaded.
LEMMA RootLoadedKept ==
  ASSUME NoneIsUnlike, IInv, RootLoaded, [Next]_vars
  PROVE  RootLoaded'
<1>h. PICK H : Consistent(H)
  BY DEF IInv
<1>n. PICK n : n = Len(stack)
  OBVIOUS
<1>0. PcOK
  BY DEF IInv
<1>r. \A x, y : [node |-> x, value |-> y] # None
  BY DEF NoneIsUnlike
<1>a. ASSUME NEW k \in Keys, NEW v \in Values, Insert(k, v) PROVE RootLoaded'
  <2>1. pc = "ready" /\ pc' = "walk" /\ db' = db
        /\ root' = IF root = None THEN [node |-> Internal(NoChildren), value |-> None] ELSE root
    BY <1>a DEF Insert, disk
  <2>2. CASE root = None
    BY <2>1, <2>2 DEF RootLoaded
  <2>3. CASE root # None
    BY <2>1, <2>3 DEF RootLoaded
  <2> QED
    BY <2>2, <2>3
<1>b. ASSUME pc = "walk", UNCHANGED <<db, root>>, pc' # "commit" PROVE RootLoaded'
  BY <1>b DEF RootLoaded
<1>c. ASSUME pc = "walk", UNCHANGED <<db, root>>, Len(stack') > 1,
             \A i \in 1..Len(stack') : stack'[i].parent = 1 => i = 2
      PROVE  RootLoaded'
  BY <1>c DEF RootLoaded
<1>w. pc = "walk" => \A i \in 1..n : stack[i].parent = i - 1
  BY <1>h, <1>n DEF Consistent, StackOK, WalkOK
<1>1. CASE WalkEmptySlot
  <2>1. /\ pc = "walk" /\ pc' = "commit" /\ UNCHANGED <<db, rootFile, root, op>>
        /\ n \in Nat \ {0} /\ Len(stack') = n + 2
        /\ \A i \in 1..n : stack'[i] = stack[i]
        /\ stack'[n + 1].parent = n /\ stack'[n + 2].parent = n + 1
    BY <1>1, <1>h, <1>n, EmptySlotStack, EntryFields
  <2>2. \A i \in 1..(n + 2) : i \in 1..n \/ i = n + 1 \/ i = n + 2
    BY <2>1
  <2>3. \A i \in 1..(n + 2) : stack'[i].parent = 1 => i = 2
    BY <1>w, <2>1, <2>2
  <2> QED
    BY <1>c, <2>1, <2>3
<1>2. CASE WalkChild
  <2>1. pc = "walk" /\ UNCHANGED <<db, root>> /\ pc' = pc
    BY <1>2 DEF WalkChild, disk
  <2> QED
    BY <1>b, <2>1
<1>3. CASE WalkSameStem
  <2>1. /\ pc = "walk" /\ pc' = "commit" /\ UNCHANGED <<db, rootFile, root, op>>
        /\ n \in Nat \ {0, 1} /\ Len(stack') = n + 1
        /\ \A i \in 1..n : stack'[i] = stack[i]
        /\ stack'[n + 1].parent = n
    BY <1>3, <1>h, <1>n, SameStemStack, EntryFields
  <2>2. \A i \in 1..(n + 1) : i \in 1..n \/ i = n + 1
    BY <2>1
  <2>3. \A i \in 1..(n + 1) : stack'[i].parent = 1 => i = 2
    BY <1>w, <2>1, <2>2
  <2> QED
    BY <1>c, <2>1, <2>3
<1>4. CASE WalkSplit
  <2>m. PICK m : m = MatchLength(Node.stem, NewStem)
    OBVIOUS
  <2>1. /\ pc = "walk" /\ pc' = "commit" /\ UNCHANGED <<db, rootFile, root, op>>
        /\ n \in Nat \ {0, 1} /\ m \in Nat
        /\ Last(stack) = stack[n] /\ stack[n].parent = n - 1
        /\ SplitStack(stack', n, m, Node, NewStem)
    BY <1>4, <1>h, <1>n, <2>m, SplitSteps
  <2>2. /\ Len(stack') = n + m + 3
        /\ \A i \in 1..(n - 1) : stack'[i].parent = i - 1
        /\ stack'[n].parent = n - 1
        /\ \A i \in (n + 1)..(n + m) : stack'[i].parent = i - 1
        /\ stack'[n + m + 1].parent = n + m /\ stack'[n + m + 2].parent = n + m
        /\ stack'[n + m + 3].parent = n + m + 2
    <3>1. \A i \in 1..(n - 1) : stack[i].parent = i - 1
      BY <1>w, <2>1
    <3> QED
      BY <2>1, <3>1, EntryFields DEF SplitStack
  <2>3. \A i \in 1..(n + m + 3) : \/ i \in 1..(n - 1) \/ i = n \/ i \in (n + 1)..(n + m)
                                  \/ i = n + m + 1 \/ i = n + m + 2 \/ i = n + m + 3
    BY <2>1
  <2>4. ASSUME NEW i \in 1..(n + m + 3), stack'[i].parent = 1 PROVE i = 2
    <3> PICK par : par = stack'[i].parent
      OBVIOUS
    <3>1. \/ par = i - 1
          \/ i = n + m + 1 /\ par = n + m
          \/ i = n + m + 2 /\ par = n + m
          \/ i = n + m + 3 /\ par = n + m + 2
      <4> DEFINE Par(j) == stack'[j].parent
      <4>1. /\ \A j \in 1..(n - 1) : Par(j) = j - 1
            /\ Par(n) = n - 1
            /\ \A j \in (n + 1)..(n + m) : Par(j) = j - 1
            /\ Par(n + m + 1) = n + m /\ Par(n + m + 2) = n + m /\ Par(n + m + 3) = n + m + 2
        BY <2>2
      <4>2. par = Par(i)
        OBVIOUS
      <4> HIDE DEF Par
      <4>3. CASE i \in 1..(n - 1)
        BY <2>1, <4>1, <4>2, <4>3
      <4>4. CASE i \in (n + 1)..(n + m)
        BY <2>1, <4>1, <4>2, <4>4
      <4>5. CASE i = n
        BY <2>1, <4>1, <4>2, <4>5
      <4> QED
        BY <2>3, <4>1, <4>2, <4>3, <4>4, <4>5
    <3> QED
      BY <2>1, <2>4, <3>1
  <2>5. n + m + 3 > 1
    BY <2>1
  <2> QED
    BY <1>c, <2>1, <2>2, <2>4, <2>5
<1>5. CASE WalkRaises
  <2>1. pc = "walk" /\ UNCHANGED <<db, root>> /\ pc' = "ready"
    BY <1>5 DEF WalkRaises, Raise, disk
  <2> QED
    BY <1>b, <2>1
<1>6. CASE CommitNode
  <2> PICK node, p, slot : node = stack[n].node /\ p = stack[n].parent /\ slot = stack[n].slot
    OBVIOUS
  <2>1. /\ pc = "commit" /\ n \in Nat \ {0, 1} /\ p \in 1..(n - 1)
        /\ Put(Reference(node), node) /\ Committed(H, node, StemLen - n + 1)
        /\ Len(stack') = n - 1
        /\ \A i \in 1..(n - 1) : i # p => stack'[i] = stack[i]
        /\ stack'[p].parent = stack[p].parent
        /\ root # None /\ root' = [root EXCEPT !.node = stack'[1].node]
    BY <1>6, <1>h, <1>n, CommitStack, EntryFields
  <2>2. \A i \in 1..Len(stack') : stack'[i].parent = 1 => i = 2
    <3>1. \A i \in 1..(n - 1) : stack'[i].parent = stack[i].parent /\ i \in 1..n
      BY <2>1
    <3> QED
      BY <1>n, <2>1, <3>1 DEF RootLoaded
  <2>3. ASSUME Len(stack') > 1
        PROVE  root'.node = IF root'.value = None THEN Internal(NoChildren) ELSE db'[root'.value]
    <3>1. p # 1
      <4>1. p = 1 => n = 2
        BY <1>n, <2>1 DEF RootLoaded
      <4> QED
        BY <2>1, <2>3, <4>1
    <3>2. stack'[1] = stack[1]
      BY <2>1, <2>3, <3>1
    <3>3. StackOK(H) /\ RootOK(H) /\ StoreOK(H)
      BY <1>h DEF Consistent
    <3>4. root.node = stack[1].node /\ root = [node |-> root.node, value |-> root.value]
      BY <2>1, <3>3 DEF StackOK, RootOK
    <3>5. root' = root
      BY <2>1, <3>2, <3>4
    <3>6. root.node = IF root.value = None THEN Internal(NoChildren) ELSE db[root.value]
      BY <1>n, <2>1 DEF RootLoaded
    <3>7. root.value # None => db'[root.value] = db[root.value]
      <4>1. root.value # None => root.value \in DOMAIN db /\ db[root.value].type = "internal"
        BY <2>1, <3>3 DEF RootOK, RootRefOK
      <4> QED
        BY <2>1, <3>3, <4>1, InternalStays
    <3> QED
      BY <3>5, <3>6, <3>7
  <2>4. pc' = "commit"
    BY <1>6, <2>1 DEF CommitNode
  <2> QED
    BY <2>2, <2>3, <2>4 DEF RootLoaded
<1>7. CASE CommitRaises
  <2>1. pc = "commit" /\ UNCHANGED <<db, root>> /\ pc' = "ready" /\ ~Committable(Node)
    BY <1>7 DEF CommitRaises, Raise, disk
  <2>2. n \in Nat \ {0} /\ EntryAt(H, n) /\ Node = stack[n].node
    BY <1>h, <1>n, <2>1, TopIsCommitted DEF Consistent
  <2>3. n # 1
    <3>1. n = 1 => Node.type = "internal"
      BY <2>2 DEF EntryAt
    <3> QED
      BY <2>1, <3>1 DEF Committable
  <2> QED
    BY <1>n, <2>1, <2>2, <2>3 DEF RootLoaded
<1>8. CASE CommitRoot
  <2> PICK node, ref : node = stack[n].node /\ ref = Reference(node)
    OBVIOUS
  <2>1. StackOK(H) /\ StoreOK(H) /\ pc = "commit" /\ pc' = "open"
    BY <1>h, <1>8 DEF Consistent, CommitRoot
  <2>2. /\ n \in Nat \ {0} /\ EntryAt(H, n) /\ Last(stack) = stack[n] /\ Node = node
        /\ Committed(H, node, StemLen - n + 1)
    BY <1>n, <2>1, TopIsCommitted
  <2>3. stack[n].parent = 0 /\ Put(ref, node) /\ root' = [node |-> node, value |-> ref]
    BY <1>8, <2>2 DEF CommitRoot
  <2>4. node.type = "internal"
    BY <2>2, <2>3 DEF EntryAt, ExtensionAt, SuffixAt
  <2>5. db'[ref] = node
    BY <2>3, <2>4 DEF Put, Encode
  <2>6. ref # None
    BY <2>2, CommittedReference
  <2>7. root'.value = ref /\ root'.node = node
    BY <2>3
  <2> QED
    BY <2>1, <2>5, <2>6, <2>7 DEF RootLoaded
<1>9. CASE OpenRootFile
  BY <1>9 DEF OpenRootFile, RootLoaded
<1>10. CASE WriteRootFile
  BY <1>10 DEF WriteRootFile, RootLoaded
<1>11. CASE Crash
  BY <1>11 DEF Crash, RootLoaded
<1>12. CASE Restart
  <2>1. pc = "down" /\ pc' = "ready" /\ db' = db
        /\ root' = IF rootFile \in {None, Truncated} THEN None
                   ELSE [node |-> Load(rootFile), value |-> rootFile]
    BY <1>12 DEF Restart, disk
  <2>2. CASE rootFile \in {None, Truncated}
    BY <2>1, <2>2 DEF RootLoaded
  <2>3. CASE rootFile \notin {None, Truncated}
    <3>1. rootFile \in DOMAIN db /\ db[rootFile].type = "internal"
      BY <1>h, <2>3 DEF Consistent, RootOK, RootRefOK
    <3>2. Load(rootFile) = db[rootFile]
      BY <3>1, LoadInternalOrExtension
    <3> QED
      BY <2>1, <2>3, <3>2 DEF RootLoaded
  <2> QED
    BY <2>2, <2>3
<1>13. CASE UNCHANGED vars
  BY <1>13 DEF vars, disk, call, RootLoaded
<1> QED
  BY <1>a, <1>1, <1>2, <1>3, <1>4, <1>5, <1>6, <1>7, <1>8, <1>9, <1>10, <1>11, <1>12, <1>13
     DEF Next, Step

\* Between two steps self.root of tree/verkle_tree.py is the node that the
\* database has under its value, which insert, _commit_nodes and a restart see
\* to; only while the last commitment is on its way is it the node without its
\* new value.
THEOREM RootsAreLoaded ==
  ASSUME NoneIsUnlike
  PROVE  Spec => [](IInv /\ RootLoaded)
<1>1. Init => IInv /\ RootLoaded
  BY InvariantInitially DEF Init, RootLoaded
<1>2. IInv /\ RootLoaded /\ [Next]_vars => (IInv /\ RootLoaded)'
  BY InvariantKept, RootLoadedKept
<1> QED
  BY <1>1, <1>2, PTL DEF Spec

-----------------------------------------------------------------------------
(* The walk of get and of the provers *)

\* The place a walk has come to after n turns: what the tree under r holds for
\* the key, the tree at the place holds for the chunks that are left.
Left(k, at, n) == IF at.node.type = "suffix" THEN <<SuffixOf(k)>> ELSE From(KeyChunks(k), n)

OnPath(H, r, k, at, n) ==
  /\ at.ref \in DOMAIN db /\ at.node = Load(at.ref) /\ at.node.type = db[at.ref].type
  /\ at.node.type = "internal" => at.depth = n /\ H[at.ref] <= StemLen - n
  /\ at.node.type = "extension" => at.depth = n /\ n \in 1..StemLen
  /\ at.node.type = "suffix" => at.depth = n - 1 /\ n \in 2..NumChunks
  /\ \A v : Holds(db, r, KeyChunks(k), v) <=> Holds(db, at.ref, Left(k, at, n), v)

\* The chunks of a key, and what is left of them.
LEMMA KeyRest ==
  ASSUME NEW k \in Keys, NEW n \in 0..StemLen
  PROVE  /\ KeyChunks(k) \in Seq(Chunks) /\ From(KeyChunks(k), n) \in Seq(Chunks)
         /\ From(KeyChunks(k), n) = From(StemOf(k), n) \o <<SuffixOf(k)>>
         /\ From(StemOf(k), n) \in Seq(Chunks) /\ SuffixOf(k) \in Chunks
         /\ <<SuffixOf(k)>> \in Seq(Chunks)
         /\ n < StemLen => /\ From(KeyChunks(k), n) # <<>>
                           /\ From(KeyChunks(k), n)[1] = StemOf(k)[n + 1]
                           /\ StemOf(k)[n + 1] \in Chunks
                           /\ From(From(KeyChunks(k), n), 1) = From(KeyChunks(k), n + 1)
<1>1. /\ KeyChunks(k) \in Seq(Chunks) /\ Len(KeyChunks(k)) = NumChunks
      /\ StemLen \in Nat \ {0} /\ NumChunks = StemLen + 1
      /\ \A i \in 1..NumChunks : KeyChunks(k)[i] \in Chunks
  BY KeyChunksType, StemLenType DEF StemLen
<1>2. /\ StemOf(k) \in Seq(Chunks) /\ Len(StemOf(k)) = StemLen
      /\ \A i \in 1..StemLen : StemOf(k)[i] = KeyChunks(k)[i]
      /\ SuffixOf(k) = KeyChunks(k)[NumChunks]
  BY <1>1, StemOfType DEF StemOf, SuffixOf, Front, Last
<1> DEFINE K == KeyChunks(k)
           T == StemOf(k)
<1> HIDE DEF K, T
<1>3. /\ From(K, n) \in Seq(Chunks) /\ Len(From(K, n)) = NumChunks - n
      /\ \A i \in 1..(NumChunks - n) : From(K, n)[i] = K[n + i]
  BY <1>1, FromType DEF K, From
<1>4. /\ From(T, n) \in Seq(Chunks) /\ Len(From(T, n)) = StemLen - n
      /\ \A i \in 1..(StemLen - n) : From(T, n)[i] = T[n + i]
  BY <1>1, <1>2 DEF T, From
<1>5. \A i \in 1..StemLen : T[i] = K[i]
  BY <1>2 DEF T, K
<1>6. From(T, n) \o <<SuffixOf(k)>> = From(K, n)
  <2> DEFINE u == From(T, n) \o <<SuffixOf(k)>>
  <2>1. u \in Seq(Chunks) /\ Len(u) = StemLen - n + 1
    BY <1>1, <1>2, <1>4
  <2>2. ASSUME NEW i \in 1..(NumChunks - n) PROVE u[i] = From(K, n)[i]
    <3>1. CASE i = NumChunks - n
      <4>1. u[i] = SuffixOf(k)
        BY <1>1, <1>2, <1>4, <3>1
      <4>2. From(K, n)[i] = K[n + i] /\ n + i = NumChunks
        BY <1>1, <1>3, <3>1
      <4> QED
        BY <1>2, <4>1, <4>2 DEF K
    <3>2. CASE i # NumChunks - n
      <4>1. i \in 1..(StemLen - n) /\ n + i \in 1..StemLen
        BY <1>1, <3>2
      <4>2. u[i] = From(T, n)[i]
        BY <1>1, <1>2, <1>4, <4>1
      <4> QED
        BY <1>3, <1>4, <1>5, <4>1, <4>2, <2>2
    <3> QED
      BY <3>1, <3>2
  <2>3. ASSUME NEW a \in Seq(Chunks), NEW b \in Seq(Chunks), Len(a) = Len(b),
               \A i \in 1..Len(a) : a[i] = b[i]
        PROVE  a = b
    BY <2>3
  <2>4. Len(u) = NumChunks - n
    BY <1>1, <2>1
  <2> HIDE DEF u
  <2>5. u = From(K, n)
    BY <1>3, <2>1, <2>2, <2>3, <2>4
  <2> QED
    BY <2>5 DEF u
<1>7. ASSUME n < StemLen
      PROVE  /\ From(K, n) # <<>> /\ From(K, n)[1] = T[n + 1] /\ T[n + 1] \in Chunks
             /\ From(From(K, n), 1) = From(K, n + 1)
  <2>1. /\ From(K, n + 1) \in Seq(Chunks) /\ Len(From(K, n + 1)) = NumChunks - (n + 1)
        /\ \A i \in 1..(NumChunks - (n + 1)) : From(K, n + 1)[i] = K[(n + 1) + i]
    BY <1>1, <1>7 DEF K, From
  <2> PICK F : F = From(K, n)
    OBVIOUS
  <2>2. /\ F \in Seq(Chunks) /\ Len(F) = NumChunks - n
        /\ \A i \in 1..(NumChunks - n) : F[i] = K[n + i]
    BY <1>3
  <2>3. /\ From(F, 1) \in Seq(Chunks) /\ Len(From(F, 1)) = NumChunks - (n + 1)
        /\ \A i \in 1..(NumChunks - (n + 1)) : From(F, 1)[i] = F[1 + i]
    BY <1>1, <1>7, <2>2 DEF From
  <2>4. \A i \in 1..(NumChunks - (n + 1)) : From(F, 1)[i] = From(K, n + 1)[i]
    <3>1. ASSUME NEW i \in 1..(NumChunks - (n + 1)) PROVE From(F, 1)[i] = From(K, n + 1)[i]
      <4>1. 1 + i \in 1..(NumChunks - n) /\ n + (1 + i) = (n + 1) + i
        BY <1>1, <1>7
      <4> QED
        BY <2>1, <2>2, <2>3, <4>1
    <3> QED
      BY <3>1
  <2>5. From(F, 1) = From(K, n + 1)
    <3>1. ASSUME NEW a \in Seq(Chunks), NEW b \in Seq(Chunks), Len(a) = Len(b),
                 \A i \in 1..Len(a) : a[i] = b[i]
          PROVE  a = b
      BY <3>1
    <3> QED
      BY <2>1, <2>3, <2>4, <3>1
  <2>6. F[1] = K[n + 1] /\ n + 1 \in 1..StemLen
    BY <1>1, <1>7, <2>2
  <2>7. T[n + 1] \in Chunks
    BY <1>2, <2>6 DEF T
  <2>8. F # <<>>
    BY <1>1, <1>7, <2>2
  <2> QED
    BY <1>5, <2>5, <2>6, <2>7, <2>8
<1>8. SuffixOf(k) \in Chunks
  BY <1>1, <1>2
<1> QED
  BY <1>1, <1>3, <1>4, <1>6, <1>7, <1>8 DEF K, T

\* What is appended is determined, and what it is appended to.
LEMMA SameTail ==
  \A a, b, c \in Seq(Chunks) : a \o b = a \o c => b = c
<1>1. ASSUME NEW a \in Seq(Chunks), NEW b \in Seq(Chunks), NEW c \in Seq(Chunks), a \o b = a \o c
      PROVE  b = c
  <2>1. Len(b) = Len(c)
    BY <1>1
  <2>2. ASSUME NEW i \in 1..Len(b) PROVE b[i] = c[i]
    <3>1. (a \o b)[Len(a) + i] = b[i] /\ (a \o c)[Len(a) + i] = c[i]
      BY <2>1
    <3> QED
      BY <1>1, <3>1
  <2> QED
    BY <2>1, <2>2
<1> QED
  BY <1>1

\* All but the last of a sequence.
LEMMA FrontIs ==
  ASSUME NEW a \in Seq(Chunks), NEW c \in Chunks
  PROVE  Front(a \o <<c>>) = a /\ Last(a \o <<c>>) = c
  BY DEF Front, Last

\* A turn that goes on stays on the path.
LEMMA ForwardOnPath ==
  ASSUME NEW H, Trees(db, H), NEW r, NEW k \in Keys, NEW n \in Nat,
         NEW at, OnPath(H, r, k, at, n), GoesOn(at, StemOf(k))
  PROVE  OnPath(H, r, k, Forward(at, StemOf(k)), n + 1)
<1> DEFINE T == StemOf(k)
<1>0. /\ StemLen \in Nat \ {0} /\ NumChunks = StemLen + 1
      /\ \A ref \in DOMAIN db : H[ref] \in Nat
  BY StemLenType, VerkleAssumption DEF VerkleAssumption, StemLen, NumChunks, Trees
<1>1. /\ at.ref \in DOMAIN db /\ at.node = Decode(db[at.ref]) /\ at.node.type = db[at.ref].type
      /\ TreeNode(db, H, at.node, H[at.ref])
  BY DEF OnPath, Load, Trees
<1>2. CASE at.node.type = "internal"
  <2>1. at.depth = n /\ H[at.ref] <= StemLen - n /\ H[at.ref] > 0
    BY <1>1, <1>2 DEF OnPath, TreeNode
  <2>2. n \in 0..StemLen /\ n < StemLen
    BY <1>0, <1>1, <2>1
  <2> PICK c : c = T[n + 1]
    OBVIOUS
  <2>3. /\ c \in Chunks /\ From(KeyChunks(k), n)[1] = c /\ From(KeyChunks(k), n) # <<>>
        /\ From(From(KeyChunks(k), n), 1) = From(KeyChunks(k), n + 1)
        /\ From(KeyChunks(k), n) \in Seq(Chunks)
    BY <2>2, KeyRest
  <2>4. at.node.children[c] # None
    BY <1>2, <2>1 DEF GoesOn
  <2> PICK kid : kid = at.node.children[c]
    OBVIOUS
  <2>5. /\ kid \in DOMAIN db
        /\ \/ db[kid].type = "extension"
           \/ db[kid].type = "internal" /\ H[kid] < H[at.ref]
    BY <1>1, <1>2, <2>3, <2>4 DEF TreeNode
  <2>6. Load(kid).type = db[kid].type
    BY <2>5 DEF Load, Trees
  <2>7. Forward(at, T) = [ref |-> kid, node |-> Load(kid), depth |-> n + 1]
    BY <1>2, <2>1 DEF Forward
  <2>8. \A v : Holds(db, r, KeyChunks(k), v) <=> Holds(db, kid, From(KeyChunks(k), n + 1), v)
    <3>1. ASSUME NEW v
          PROVE  Holds(db, at.ref, From(KeyChunks(k), n), v)
                   <=> Holds(db, kid, From(KeyChunks(k), n + 1), v)
      BY <1>1, <1>2, <2>3, <2>4, HoldsInternal
    <3>2. ASSUME NEW v
          PROVE  Holds(db, r, KeyChunks(k), v) <=> Holds(db, at.ref, From(KeyChunks(k), n), v)
      BY <1>2 DEF OnPath, Left
    <3> QED
      BY <3>1, <3>2
  <2>9. db[kid].type = "internal" => H[kid] <= StemLen - (n + 1)
    BY <1>0, <1>1, <2>1, <2>5
  <2> QED
    BY <1>0, <2>2, <2>5, <2>6, <2>7, <2>8, <2>9 DEF OnPath, Left
<1>3. CASE at.node.type = "extension"
  <2>1. at.depth = n /\ n \in 1..StemLen
    BY <1>1, <1>3 DEF OnPath, TreeNode
  <2>2. at.node.stem = From(T, n)
    BY <1>3, <2>1 DEF GoesOn
  <2> PICK kid : kid = at.node.child
    OBVIOUS
  <2>3. kid \in DOMAIN db /\ db[kid].type = "suffix"
    BY <1>1, <1>3 DEF TreeNode
  <2>4. Load(kid).type = "suffix"
    BY <2>3 DEF Load, Trees
  <2>5. Forward(at, T) = [ref |-> kid, node |-> Load(kid), depth |-> n]
    BY <1>3, <2>1 DEF Forward
  <2>m. n \in 0..StemLen
    BY <1>0, <2>1
  <2>6. /\ From(KeyChunks(k), n) = From(T, n) \o <<SuffixOf(k)>>
        /\ From(KeyChunks(k), n) \in Seq(Chunks)
        /\ From(T, n) \in Seq(Chunks) /\ <<SuffixOf(k)>> \in Seq(Chunks)
    BY <2>m, KeyRest
  <2>7. \A v : Holds(db, r, KeyChunks(k), v) <=> Holds(db, kid, <<SuffixOf(k)>>, v)
    <3>1. ASSUME NEW v
          PROVE  Holds(db, at.ref, From(KeyChunks(k), n), v) <=> Holds(db, kid, <<SuffixOf(k)>>, v)
      <4>1. Holds(db, at.ref, From(KeyChunks(k), n), v)
              <=> \E d \in Seq(Chunks) : /\ From(KeyChunks(k), n) = From(T, n) \o d
                                         /\ Holds(db, kid, d, v)
        <5>1. db[at.ref].type = "extension"
          BY <1>1, <1>3
        <5>2. Holds(db, at.ref, From(KeyChunks(k), n), v)
                <=> \E d \in Seq(Chunks) :
                      /\ From(KeyChunks(k), n) = Decode(db[at.ref]).stem \o d
                      /\ Holds(db, Decode(db[at.ref]).child, d, v)
          BY <1>1, <2>6, <5>1, HoldsExtension
        <5> QED
          BY <1>1, <2>2, <5>2
      <4>2. \A a, b, c \in Seq(Chunks) : a \o b = a \o c => b = c
        BY SameTail
      <4> QED
        BY <2>6, <4>1, <4>2
    <3>2. ASSUME NEW v
          PROVE  Holds(db, r, KeyChunks(k), v) <=> Holds(db, at.ref, From(KeyChunks(k), n), v)
      BY <1>3 DEF OnPath, Left
    <3> QED
      BY <3>1, <3>2
  <2> QED
    BY <1>0, <2>1, <2>3, <2>4, <2>5, <2>7 DEF OnPath, Left
<1> QED
  BY <1>2, <1>3 DEF GoesOn

\* Where a walk ends, the place has the value of the key, if there is any.
LEMMA StopIsExact ==
  ASSUME NEW H, Trees(db, H), NEW r, NEW k \in Keys, NEW n \in Nat,
         NEW at, OnPath(H, r, k, at, n), ~GoesOn(at, StemOf(k))
  PROVE  \A v : Holds(db, r, KeyChunks(k), v)
                  <=> v = Value(at.node, SuffixOf(k)) /\ v # None
<1> TAKE v
<1>0. /\ StemLen \in Nat \ {0} /\ NumChunks = StemLen + 1
      /\ \A ref \in DOMAIN db : H[ref] \in Nat
  BY StemLenType, VerkleAssumption DEF VerkleAssumption, StemLen, NumChunks, Trees
<1>1. /\ at.ref \in DOMAIN db /\ at.node = Decode(db[at.ref]) /\ at.node.type = db[at.ref].type
      /\ TreeNode(db, H, at.node, H[at.ref])
      /\ Holds(db, r, KeyChunks(k), v) <=> Holds(db, at.ref, Left(k, at, n), v)
  BY DEF OnPath, Load, Trees
<1>2. CASE at.node.type = "internal"
  <2>1. at.depth = n /\ H[at.ref] <= StemLen - n /\ H[at.ref] > 0
    BY <1>1, <1>2 DEF OnPath, TreeNode
  <2>2. n \in 0..StemLen /\ n < StemLen
    BY <1>0, <1>1, <2>1
  <2>3. /\ From(KeyChunks(k), n)[1] = StemOf(k)[n + 1]
        /\ From(KeyChunks(k), n) \in Seq(Chunks)
    BY <2>2, KeyRest
  <2>4. at.node.children[StemOf(k)[n + 1]] = None
    BY <1>2, <2>1 DEF GoesOn
  <2>5. ~Holds(db, at.ref, From(KeyChunks(k), n), v)
    BY <1>1, <1>2, <2>3, <2>4, HoldsInternal
  <2> QED
    BY <1>1, <1>2, <2>5 DEF Left, Value
<1>3. CASE at.node.type = "extension"
  <2>1. at.depth = n /\ n \in 1..StemLen /\ n \in 0..StemLen
    BY <1>0, <1>1, <1>3 DEF OnPath
  <2>2. at.node.stem # From(StemOf(k), n)
    BY <1>3, <2>1 DEF GoesOn
  <2> PICK kid, ext : kid = at.node.child /\ ext = at.node.stem
    OBVIOUS
  <2>3. kid \in DOMAIN db /\ db[kid].type = "suffix" /\ ext \in Seq(Chunks)
    BY <1>1, <1>3 DEF TreeNode
  <2>4. /\ From(KeyChunks(k), n) = From(StemOf(k), n) \o <<SuffixOf(k)>>
        /\ From(KeyChunks(k), n) \in Seq(Chunks)
        /\ From(StemOf(k), n) \in Seq(Chunks) /\ SuffixOf(k) \in Chunks
    BY <2>1, KeyRest
  <2>5. ASSUME Holds(db, at.ref, From(KeyChunks(k), n), v) PROVE FALSE
    <3>1. db[at.ref].type = "extension"
      BY <1>1, <1>3
    <3>2. PICK d \in Seq(Chunks) : /\ From(KeyChunks(k), n) = ext \o d
                                   /\ Holds(db, kid, d, v)
      <4>1. \E d \in Seq(Chunks) : /\ From(KeyChunks(k), n) = Decode(db[at.ref]).stem \o d
                                   /\ Holds(db, Decode(db[at.ref]).child, d, v)
        BY <1>1, <2>4, <2>5, <3>1, HoldsExtension
      <4> QED
        BY <1>1, <4>1
    <3>3. PICK c \in Chunks : d = <<c>>
      BY <2>3, <3>2, HoldsSuffix
    <3>4. ext \o <<c>> = From(StemOf(k), n) \o <<SuffixOf(k)>>
      BY <2>4, <3>2, <3>3
    <3>5. Front(ext \o <<c>>) = ext
      BY <2>3, FrontIs
    <3>6. Front(From(StemOf(k), n) \o <<SuffixOf(k)>>) = From(StemOf(k), n)
      BY <2>4, FrontIs
    <3> QED
      BY <2>2, <3>4, <3>5, <3>6
  <2> QED
    BY <1>1, <1>3, <2>5 DEF Left, Value
<1>4. CASE at.node.type = "suffix"
  <2> PICK s : s = SuffixOf(k)
    OBVIOUS
  <2>m. 0 \in 0..StemLen
    BY <1>0
  <2>1. s \in Chunks /\ <<s>> \in Seq(Chunks)
    BY <2>m, KeyRest
  <2>2. Holds(db, at.ref, <<s>>, v) <=> \E c \in Chunks : /\ <<s>> = <<c>>
                                                          /\ v = at.node.children[c] /\ v # None
    <3>1. db[at.ref].type = "suffix"
      BY <1>1, <1>4
    <3>q. PICK q : q = <<s>>
      OBVIOUS
    <3>2. Holds(db, at.ref, q, v) <=> \E c \in Chunks : /\ q = <<c>>
                                                        /\ v = Decode(db[at.ref]).children[c]
                                                        /\ v # None
      <4>1. q \in Seq(Chunks)
        BY <2>1, <3>q
      <4> QED
        BY <1>1, <3>1, <4>1, HoldsSuffix
    <3> QED
      BY <1>1, <3>q, <3>2
  <2>3. \A c \in Chunks : <<s>> = <<c>> <=> s = c
    OBVIOUS
  <2>4. Holds(db, at.ref, <<s>>, v) <=> v = at.node.children[s] /\ v # None
    BY <2>1, <2>2, <2>3
  <2> QED
    BY <1>1, <1>4, <2>4 DEF Left, Value
<1> QED
  BY <1>1, <1>2, <1>3, <1>4 DEF TreeNode

\* The walk from a loaded root ends in time, on the path at every place.
LEMMA WalkOnPath ==
  ASSUME NEW H, Trees(db, H), NEW k \in Keys, FullTree(db, H, root.value),
         root.node = db[root.value], NEW t, t = Turns(StemOf(k))
  PROVE  /\ t \in 0..NumChunks /\ ~GoesOn(Walk(StemOf(k))[t], StemOf(k))
         /\ \A m \in 0..(t - 1) : GoesOn(Walk(StemOf(k))[m], StemOf(k))
         /\ \A m \in 0..t : OnPath(H, root.value, k, Walk(StemOf(k))[m], m)
<1> DEFINE T == StemOf(k)
           W == Walk(T)
           r == root.value
           S == {n \in Nat : ~GoesOn(W[n], T)}
<1>0. /\ StemLen \in Nat \ {0} /\ NumChunks = StemLen + 1 /\ NumChunks \in Nat
      /\ \A ref \in DOMAIN db : H[ref] \in Nat
  BY StemLenType, VerkleAssumption DEF VerkleAssumption, StemLen, NumChunks, Trees
<1>1. W[0] = Here /\ \A n \in Nat : W[n + 1] = Forward(W[n], T)
  BY WalkSteps
<1>2. OnPath(H, r, k, W[0], 0)
  <2>1. /\ Here.ref = r /\ Here.node = db[r] /\ Here.depth = 0
        /\ r \in DOMAIN db /\ db[r].type = "internal" /\ H[r] <= StemLen
    BY DEF Here, FullTree
  <2>2. Load(r) = db[r]
    BY <2>1 DEF Load, Decode
  <2>3. Left(k, Here, 0) = KeyChunks(k)
    BY <2>1, KeyChunksType DEF Left, From
  <2> QED
    BY <1>0, <1>1, <2>1, <2>2, <2>3 DEF OnPath
<1> HIDE DEF W
<1>3. ASSUME NEW n \in Nat, OnPath(H, r, k, W[n], n), GoesOn(W[n], T)
      PROVE  OnPath(H, r, k, W[n + 1], n + 1)
  BY <1>1, <1>3, ForwardOnPath
<1>4. ASSUME NEW n \in Nat, \A m \in 0..(n - 1) : GoesOn(W[m], T)
      PROVE  OnPath(H, r, k, W[n], n)
  <2> DEFINE R == {m \in Nat : m <= n => OnPath(H, r, k, W[m], m)}
  <2>1. 0 \in R
    BY <1>2
  <2>2. \A m \in Nat : m \in R => m + 1 \in R
    <3>1. ASSUME NEW m \in Nat, m + 1 <= n PROVE m \in 0..(n - 1) /\ m <= n
      BY <3>1
    <3> QED
      BY <1>3, <1>4, <3>1
  <2> HIDE DEF R
  <2>3. n \in R
    BY <2>1, <2>2, SetInduction
  <2> QED
    BY <2>3 DEF R
<1>5. ASSUME NEW n \in Nat, OnPath(H, r, k, W[n], n) PROVE n <= NumChunks
  <2>1. W[n].ref \in DOMAIN db /\ TreeNode(db, H, W[n].node, H[W[n].ref])
    BY <1>5 DEF OnPath, Load, Trees
  <2> QED
    BY <1>0, <1>5, <2>1 DEF OnPath, TreeNode
<1>6. S # {}
  <2>1. SUFFICES ASSUME S = {} PROVE FALSE
    OBVIOUS
  <2>2. \A m \in Nat : GoesOn(W[m], T)
    BY <2>1
  <2>3. OnPath(H, r, k, W[NumChunks + 1], NumChunks + 1)
    BY <1>0, <1>4, <2>2
  <2> QED
    BY <1>0, <1>5, <2>3
<1>7. PICK n \in S : \A m \in 0..(n - 1) : m \notin S
  <2> S \subseteq Nat
    OBVIOUS
  <2> HIDE DEF S
  <2> QED
    BY <1>6, LeastNumber
<1>8. n \in Nat /\ ~GoesOn(W[n], T) /\ \A m \in 0..(n - 1) : GoesOn(W[m], T)
  BY <1>7
<1>9. n \in 0..NumChunks
  BY <1>0, <1>4, <1>5, <1>8
<1>10. /\ t \in 0..NumChunks /\ ~GoesOn(W[t], T)
       /\ \A m \in 0..(t - 1) : GoesOn(W[m], T)
  BY <1>8, <1>9 DEF Turns, W
<1>11. \A m \in 0..t : OnPath(H, r, k, W[m], m)
  BY <1>0, <1>4, <1>10
<1> QED
  BY <1>10, <1>11 DEF W

-----------------------------------------------------------------------------
(* get *)

LEMMA ContentsIs ==
  ASSUME NEW ref
  PROVE  Contents(ref) = MapOf(Pairs(db, ref))
<1> DEFINE m == MapOf(Pairs(db, ref))
<1>1. {MapOf(S) : S \in {Pairs(db, ref)}} = {m}
  OBVIOUS
<1> HIDE DEF m
<1>2. (CHOOSE map \in {m} : TRUE) = m
  OBVIOUS
<1> QED
  BY <1>1, <1>2 DEF Contents, m

\* Nothing is read under a reference that is not in the database.
LEMMA NoTree ==
  ASSUME None \notin DOMAIN db, NEW k \in Keys
  PROVE  Contents(None)[k] = None
<1> DEFINE P(n) == Level(db, None)[n]
           S == {n \in Nat : \A pl \in P(n) : pl.ref \notin DOMAIN db}
<1>1. 0 \in S
  BY LevelSteps
<1>2. \A n \in Nat : n \in S => n + 1 \in S
  <2> SUFFICES ASSUME NEW n \in Nat, n \in S PROVE n + 1 \in S
    OBVIOUS
  <2>1. Level(db, None)[n + 1] = Deeper(db, Level(db, None)[n])
    BY LevelSteps
  <2>2. \A e : e \notin Deeper(db, P(n))
    BY DeeperMember DEF Reached
  <2> QED
    BY <2>1, <2>2
<1> HIDE DEF S
<1>3. Nat \subseteq S
  BY <1>1, <1>2, SetInduction
<1>4. \A n \in 0..NumChunks : \A e : e \notin HeldAt(db, P(n))
  <2>1. \A n \in 0..NumChunks : n \in S
    BY <1>3
  <2> QED
    BY <2>1, HeldAtMember DEF Found, S
<1>5. \A e : e \notin Pairs(db, None)
  BY <1>4 DEF Pairs
<1>6. MapOf(Pairs(db, None))[k] = None
  BY <1>5 DEF MapOf
<1> QED
  BY <1>6, ContentsIs

\* What the tree under a loaded root holds for a key is what its walk ends at.
LEMMA WalkFindsContents ==
  ASSUME NEW H, Trees(db, H), NEW k \in Keys, FullTree(db, H, root.value),
         root.node = db[root.value], NEW t, t = Turns(StemOf(k))
  PROVE  Contents(root.value)[k] = Value(Walk(StemOf(k))[t].node, SuffixOf(k))
<1> PICK at, r : at = Walk(StemOf(k))[t] /\ r = root.value
  OBVIOUS
<1>1. t \in Nat /\ ~GoesOn(at, StemOf(k)) /\ OnPath(H, r, k, at, t)
  <2>1. /\ t \in 0..NumChunks /\ ~GoesOn(Walk(StemOf(k))[t], StemOf(k))
        /\ \A m \in 0..t : OnPath(H, root.value, k, Walk(StemOf(k))[m], m)
    BY WalkOnPath
  <2> QED
    BY <2>1
<1>2. \A v : Holds(db, r, KeyChunks(k), v) <=> v = Value(at.node, SuffixOf(k)) /\ v # None
  BY <1>1, StopIsExact
<1>3. /\ \A v : Holds(db, r, KeyChunks(k), v) => MapOf(Pairs(db, r))[k] = v
      /\ (\A v : ~Holds(db, r, KeyChunks(k), v)) => MapOf(Pairs(db, r))[k] = None
  BY MapHolds
<1>4. MapOf(Pairs(db, r))[k] = Value(at.node, SuffixOf(k))
  BY <1>2, <1>3
<1> QED
  BY <1>4, ContentsIs

\* The root in memory, when it has a value.
LEMMA LoadedRoot ==
  ASSUME NoneIsUnlike, NEW H, Consistent(H), RootLoaded, pc = "ready", root # None
  PROVE  /\ Trees(db, H) /\ StoreOK(H)
         /\ root.value # None => /\ FullTree(db, H, root.value)
                                 /\ root.node = db[root.value]
         /\ root.value = None => root.node = Internal(NoChildren)
<1>1. StoreOK(H) /\ RootOK(H)
  BY DEF Consistent
<1>2. Trees(db, H)
  BY <1>1, StoreHasTrees
<1> QED
  BY <1>1, <1>2 DEF RootOK, RootRefOK, FullTree, RootLoaded

\* get is exact where the roots are loaded.
LEMMA InvariantGetsExactly ==
  ASSUME NoneIsUnlike, IInv, RootLoaded
  PROVE  GetIsExact
<1> SUFFICES ASSUME pc = "ready", NEW k \in Keys
             PROVE  Get(k) = IF Contents(RootRef)[k] = None THEN None
                             ELSE BytesToInt(Contents(RootRef)[k])
  BY DEF GetIsExact
<1> PICK H : Consistent(H)
  BY DEF IInv
<1>1. None \notin DOMAIN db
  BY StoreHasTrees DEF Consistent, Trees
<1>2. CASE root = None
  BY <1>1, <1>2, NoTree DEF RootRef, Get
<1>3. CASE root # None /\ root.value = None
  <2>1. root.node = Internal(NoChildren)
    BY <1>3, LoadedRoot
  <2>2. StemOf(k)[1] \in Chunks
    BY StemOfType, StemLenType
  <2> PICK W : W = Walk(StemOf(k))
    OBVIOUS
  <2>3. W[0] = Here
    BY WalkSteps
  <2>4. Here.node = Internal(NoChildren) /\ Here.depth = 0
    BY <2>1 DEF Here
  <2>5. ~GoesOn(W[0], StemOf(k))
    BY <2>2, <2>3, <2>4 DEF GoesOn, Internal, NoChildren
  <2>6. Turns(StemOf(k)) = 0
    <3>1. 0 \in 0..NumChunks
      BY StemLenType, VerkleAssumption DEF VerkleAssumption, StemLen, NumChunks
    <3>2. \A n \in 0..NumChunks : (/\ ~GoesOn(W[n], StemOf(k))
                                   /\ \A m \in 0..(n - 1) : GoesOn(W[m], StemOf(k))) <=> n = 0
      BY <2>5
    <3> QED
      BY <3>1, <3>2 DEF Turns
  <2>7. Value(W[0].node, SuffixOf(k)) = None
    BY <2>3, <2>4 DEF Value, Internal
  <2>8. Contents(RootRef)[k] = None
    BY <1>1, <1>3, NoTree DEF RootRef
  <2> QED
    BY <1>3, <2>6, <2>7, <2>8 DEF Get
<1>4. CASE root # None /\ root.value # None
  <2>1. /\ Trees(db, H) /\ FullTree(db, H, root.value) /\ root.node = db[root.value]
    BY <1>4, LoadedRoot
  <2>2. Contents(root.value)[k] = Value(Walk(StemOf(k))[Turns(StemOf(k))].node, SuffixOf(k))
    BY <2>1, WalkFindsContents
  <2> QED
    BY <1>4, <2>2 DEF Get, RootRef
<1> QED
  BY <1>2, <1>3, <1>4

\* get of tree/verkle_tree.py returns the integer of the value the tree holds
\* for a key and None when it holds none, after any inserts, crashes and restarts.
THEOREM GetsAreExact ==
  ASSUME NoneIsUnlike
  PROVE  Spec => []GetIsExact
<1>1. Spec => [](IInv /\ RootLoaded)
  BY RootsAreLoaded
<1>2. IInv /\ RootLoaded => GetIsExact
  BY InvariantGetsExactly
<1> QED
  BY <1>1, <1>2, PTL

\* The joined words of a list of byte strings, one string after the other.
LEMMA JoinedSteps ==
  ASSUME NEW children
  PROVE  /\ Joined(children)[0] = <<>>
         /\ \A n \in Nat : Joined(children)[n + 1] =
              IF children[n] = None THEN Joined(children)[n]
              ELSE Joined(children)[n] \o children[n]
<1> DEFINE More(data, n) == IF children[n] = None THEN data ELSE data \o children[n]
           Turn(f, n) == IF n = 0 THEN <<>> ELSE More(f[n - 1], n - 1)
           Upto(f, n) == f = [m \in 0..n |-> Turn(f, m)]
           S == {n \in Nat : \E f : Upto(f, n)}
           T == {n \in Nat : \A f, g, k, l : Upto(f, k) /\ Upto(g, l) /\ n \in 0..k /\ n \in 0..l
                                               /\ k \in Nat /\ l \in Nat => f[n] = g[n]}
<1> HIDE DEF More
<1>1. Nat \subseteq S
  <2>1. 0 \in S
    <3>1. Upto([m \in 0..0 |-> <<>>], 0)
      OBVIOUS
    <3> QED
      BY <3>1
  <2>2. ASSUME NEW n \in Nat, n \in S PROVE n + 1 \in S
    <3>1. PICK f : Upto(f, n)
      BY <2>2
    <3> DEFINE g == [m \in 0..(n+1) |-> IF m = n + 1 THEN More(f[n], n) ELSE f[m]]
    <3>2. \A m \in 0..(n+1) : g[m] = Turn(g, m)
      <4> TAKE m \in 0..(n+1)
      <4>1. CASE m = n + 1
        BY <4>1
      <4>2. CASE m # n + 1
        <5>1. m \in 0..n /\ (m # 0 => m - 1 \in 0..n /\ m - 1 # n + 1 /\ m - 1 \in 0..(n+1))
          BY <4>2
        <5>2. g[m] = f[m] /\ (m # 0 => g[m-1] = f[m-1])
          BY <5>1, <4>2
        <5>3. f[m] = Turn(f, m)
          BY <3>1, <5>1
        <5> QED
          BY <5>2, <5>3
      <4> QED
        BY <4>1, <4>2
    <3>3. Upto(g, n + 1)
      BY <3>2
    <3> HIDE DEF Upto, g
    <3> QED
      BY <3>3
  <2> HIDE DEF S
  <2> QED
    BY <2>1, <2>2, SetInduction
<1>2. Nat \subseteq T
  <2>1. 0 \in T
    OBVIOUS
  <2>2. ASSUME NEW n \in Nat, n \in T PROVE n + 1 \in T
    <3> SUFFICES ASSUME NEW f, NEW g, NEW k \in Nat, NEW l \in Nat, Upto(f, k), Upto(g, l),
                        n + 1 \in 0..k, n + 1 \in 0..l
                 PROVE  f[n + 1] = g[n + 1]
      <4> HIDE DEF Upto
      <4> QED
        OBVIOUS
    <3>1. f[n] = g[n]
      <4>1. n \in 0..k /\ n \in 0..l
        OBVIOUS
      <4> HIDE DEF Upto
      <4> QED
        BY <2>2, <4>1
    <3>2. f[n+1] = Turn(f, n + 1) /\ g[n+1] = Turn(g, n + 1)
      OBVIOUS
    <3> QED
      BY <3>1, <3>2
  <2> HIDE DEF T
  <2> QED
    BY <2>1, <2>2, SetInduction
<1> DEFINE Some_(n) == CHOOSE f : Upto(f, n)
           h == [n \in Nat |-> Some_(n)[n]]
<1>3. ASSUME NEW n \in Nat PROVE Upto(Some_(n), n)
  <2>1. \E f : Upto(f, n)
    BY <1>1
  <2> HIDE DEF Upto
  <2> QED
    BY <2>1
<1>4. \A n \in Nat : h[n] = Turn(h, n)
  <2> TAKE n \in Nat
  <2>1. Some_(n)[n] = Turn(Some_(n), n)
    <3>1. Upto(Some_(n), n)
      BY <1>3
    <3> HIDE DEF Some_
    <3> QED
      BY <3>1
  <2>2. CASE n = 0
    BY <2>1, <2>2
  <2>3. CASE n # 0
    <3>1. n - 1 \in Nat /\ n - 1 \in 0..n /\ n - 1 \in 0..(n-1)
      BY <2>3
    <3>2. Upto(Some_(n), n) /\ Upto(Some_(n - 1), n - 1)
      BY <3>1, <1>3
    <3> HIDE DEF Some_
    <3>3. Some_(n)[n-1] = Some_(n-1)[n-1]
      <4>1. n - 1 \in T
        BY <3>1, <1>2
      <4> HIDE DEF Upto
      <4> QED
        BY <4>1, <3>1, <3>2
    <3>4. h[n-1] = Some_(n-1)[n-1] /\ h[n] = Some_(n)[n]
      BY <3>1
    <3> QED
      BY <2>1, <2>3, <3>3, <3>4
  <2> QED
    BY <2>2, <2>3
<1>5. h = [n \in Nat |-> Turn(h, n)]
  <2>1. h = [n \in Nat |-> h[n]]
    OBVIOUS
  <2> HIDE DEF h
  <2> QED
    BY <1>4, <2>1
<1> HIDE DEF h
<1> DEFINE w == CHOOSE f : f = [n \in Nat |-> IF n = 0 THEN <<>> ELSE More(f[n - 1], n - 1)]
<1>6. w = [n \in Nat |-> IF n = 0 THEN <<>> ELSE More(w[n - 1], n - 1)]
  BY <1>5
<1>7. Joined(children) = w
  BY DEF Joined, More
<1> HIDE DEF w
<1>8. \A n \in Nat : w[n + 1] = More(w[n], n)
  BY <1>6
<1> QED
  BY <1>6, <1>7, <1>8 DEF More

Words == 0..(WordBase - 1)

\* The words of a concatenation.
LEMMA Concatenated ==
  \A a, b \in Seq(Words) :
    /\ a \o b \in Seq(Words) /\ Len(a \o b) = Len(a) + Len(b)
    /\ \A i \in 1..Len(a) : (a \o b)[i] = a[i]
    /\ \A i \in 1..Len(b) : (a \o b)[Len(a) + i] = b[i]
<1> PICK S : S = Words
  OBVIOUS
<1>1. \A a, b \in Seq(S) : /\ a \o b \in Seq(S) /\ Len(a \o b) = Len(a) + Len(b)
                           /\ \A i \in 1..Len(a) : (a \o b)[i] = a[i]
                           /\ \A i \in 1..Len(b) : (a \o b)[Len(a) + i] = b[i]
  OBVIOUS
<1> QED
  BY <1>1

\* Equal words at all places make equal strings.
LEMMA SameWords ==
  ASSUME NEW a \in Seq(Words), NEW b \in Seq(Words), Len(a) = Len(b),
         \A i \in 1..Len(a) : a[i] = b[i]
  PROVE  a = b
  OBVIOUS

\* The words of a slice.
LEMMA WordsBetween ==
  ASSUME NEW s \in Seq(Words), NEW a \in Nat, NEW n \in Nat, a + n <= Len(s)
  PROVE  /\ SubSeq(s, a + 1, a + n) \in Seq(Words) /\ Len(SubSeq(s, a + 1, a + n)) = n
         /\ \A i \in 1..n : SubSeq(s, a + 1, a + n)[i] = s[a + i]
  OBVIOUS

\* One more slice of words.
LEMMA OneMore == \A x \in Nat, y \in Nat : (x + 1) * y = x * y + y /\ x * y \in Nat
  OBVIOUS

\* Every value inserted is as long as _deserialize takes it to be.
ValuesFit == \A v \in Values : Len(v) = ValueLen

\* Where the data of a suffix node has the value of slot n.
Used(f)   == {c \in Chunks : f[c] # None}
SlotsBefore(f, n) == {d \in Used(f) : d < n}
Before(f, n) == Cardinality(SlotsBefore(f, n))

\* The used slots before a chunk, and before the next.
LEMMA BeforeSteps ==
  ASSUME NEW f
  PROVE  /\ Before(f, 0) = 0
         /\ \A n \in Nat : Before(f, n) \in Nat
         /\ \A n \in Chunks : Before(f, n + 1) = IF f[n] = None THEN Before(f, n) ELSE Before(f, n) + 1
<1>0. Chunks \subseteq Nat /\ Width \in Nat \ {0}
  BY WidthType
<1>1. \A n : IsFiniteSet(SlotsBefore(f, n))
  <2>1. Chunks = 0..(Width - 1) /\ 0 \in Int /\ Width - 1 \in Int
    BY <1>0 DEF Chunks
  <2>2. IsFiniteSet(Chunks)
    BY <2>1, FS_Interval
  <2>3. \A n : SlotsBefore(f, n) \subseteq Chunks
    BY DEF Used, SlotsBefore
  <2>4. ASSUME NEW Q, Q \subseteq Chunks PROVE IsFiniteSet(Q)
    BY <2>2, <2>4, FS_Subset
  <2> QED
    BY <2>3, <2>4
<1>2. SlotsBefore(f, 0) = {}
  <2>1. \A d \in Nat : ~(d < 0)
    OBVIOUS
  <2>2. \A d : d \notin SlotsBefore(f, 0)
    BY <1>0, <2>1 DEF Used, SlotsBefore
  <2> QED
    BY <2>2
<1>3. Before(f, 0) = 0
  BY <1>2, FS_EmptySet DEF Before
<1>4. \A n \in Nat : Before(f, n) \in Nat
  BY <1>1, FS_CardinalityType DEF Before
<1>5. ASSUME NEW n \in Chunks
      PROVE  Before(f, n + 1) = IF f[n] = None THEN Before(f, n) ELSE Before(f, n) + 1
  <2>1. ASSUME NEW d \in Nat PROVE d < n + 1 <=> d < n \/ d = n
    BY <1>0, <2>1
  <2> PICK Q, R : Q = SlotsBefore(f, n) /\ R = SlotsBefore(f, n + 1)
    OBVIOUS
  <2>2. \A d : d \in R <=> d \in Q \/ (d = n /\ f[n] # None)
    BY <1>0, <2>1 DEF Used, SlotsBefore
  <2>3. n \notin Q /\ IsFiniteSet(Q)
    BY <1>0, <1>1 DEF SlotsBefore
  <2>4. CASE f[n] = None
    <3>1. R = Q
      BY <2>2, <2>4
    <3> QED
      BY <2>4, <3>1 DEF Before
  <2>5. CASE f[n] # None
    <3>1. R = Q \cup {n}
      BY <2>2, <2>5
    <3>2. Cardinality(R) = Cardinality(Q) + 1
      BY <2>3, <3>1, FS_AddElement
    <3> QED
      BY <2>5, <3>2 DEF Before
  <2> QED
    BY <2>4, <2>5
<1> QED
  BY <1>3, <1>4, <1>5

\* The data up to slot n holds the values of the slots in use one by one.
DataUpto(f, n) ==
  /\ Joined(f)[n] \in Seq(Words)
  /\ Len(Joined(f)[n]) = Before(f, n) * ValueLen
  /\ \A c \in Used(f) : c < n =>
       /\ (Before(f, c) + 1) * ValueLen <= Len(Joined(f)[n])
       /\ \A i \in 1..ValueLen : Joined(f)[n][Before(f, c) * ValueLen + i] = f[c][i]

\* The slice for a used slot of joined values of one length is its value.
LEMMA JoinedValues ==
  ASSUME ValuesFit, NEW f \in [Chunks -> Values \cup {None}]
  PROVE  DataUpto(f, Width)
<1> DEFINE S == {n \in Nat : n <= Width => DataUpto(f, n)}
<1>0. /\ Chunks \subseteq Nat /\ Width \in Nat \ {0} /\ Chunks = 0..(Width - 1)
      /\ ValueLen \in Nat \ {0}
      /\ \A v \in Values : v \in Seq(Words) /\ Len(v) = ValueLen
  BY WidthType, VerkleAssumption DEF VerkleAssumption, ValuesFit, Chunks, Words
<1>1. 0 \in S
  <2>1. Joined(f)[0] = <<>> /\ Before(f, 0) = 0
    BY JoinedSteps, BeforeSteps
  <2>2. \A c \in Used(f) : ~(c < 0)
    BY <1>0 DEF Used
  <2>3. <<>> \in Seq(Words) /\ Len(<<>>) = 0 /\ 0 * ValueLen = 0
    BY <1>0
  <2>4. DataUpto(f, 0)
    BY <2>1, <2>2, <2>3 DEF DataUpto
  <2> QED
    BY <2>4
<1>2. ASSUME NEW n \in Nat, n \in S, n + 1 <= Width PROVE DataUpto(f, n + 1)
  <2>1. n \in Chunks /\ DataUpto(f, n)
    BY <1>0, <1>2
  <2> PICK J, K, b, V : J = Joined(f)[n] /\ K = Joined(f)[n + 1] /\ b = Before(f, n) /\ V = ValueLen
    OBVIOUS
  <2>2. K = IF f[n] = None THEN J ELSE J \o f[n]
    BY JoinedSteps
  <2>3. b \in Nat /\ Before(f, n + 1) = IF f[n] = None THEN b ELSE b + 1
    BY <2>1, BeforeSteps
  <2>4. /\ J \in Seq(Words) /\ Len(J) = b * V /\ V \in Nat \ {0}
        /\ \A c \in Used(f) : c < n =>
             /\ (Before(f, c) + 1) * V <= Len(J)
             /\ \A i \in 1..V : J[Before(f, c) * V + i] = f[c][i]
    BY <1>0, <2>1 DEF DataUpto
  <2>5. CASE f[n] = None
    <3>1. ASSUME NEW c \in Used(f), c < n + 1 PROVE c < n
      <4>1. c \in Nat /\ f[c] # None
        BY <1>0 DEF Used
      <4> QED
        BY <2>5, <3>1, <4>1
    <3> QED
      BY <2>2, <2>3, <2>4, <2>5, <3>1 DEF DataUpto
  <2>6. CASE f[n] # None
    <3> PICK v : v = f[n]
      OBVIOUS
    <3>1. v \in Seq(Words) /\ Len(v) = V
      BY <1>0, <2>1, <2>6
    <3>2. /\ K = J \o v /\ K \in Seq(Words) /\ Len(K) = Len(J) + V
          /\ \A i \in 1..Len(J) : K[i] = J[i]
          /\ \A i \in 1..V : K[Len(J) + i] = v[i]
      <4>1. K = J \o v
        BY <2>2, <2>6
      <4> QED
        <5>1. /\ J \o v \in Seq(Words) /\ Len(J \o v) = Len(J) + Len(v)
              /\ \A i \in 1..Len(J) : (J \o v)[i] = J[i]
              /\ \A i \in 1..Len(v) : (J \o v)[Len(J) + i] = v[i]
          BY <2>4, <3>1, Concatenated
        <5> QED
          BY <3>1, <4>1, <5>1
    <3>3. (b + 1) * V = b * V + V
      BY <2>3, <2>4, OneMore
    <3>4. Len(K) = (b + 1) * V
      BY <2>4, <3>2, <3>3
    <3>5. ASSUME NEW c \in Used(f), c < n + 1
          PROVE  /\ (Before(f, c) + 1) * V <= Len(K)
                 /\ \A i \in 1..V : K[Before(f, c) * V + i] = f[c][i]
      <4>1. c \in Nat /\ Before(f, c) \in Nat
        BY <1>0, BeforeSteps DEF Used
      <4>2. CASE c = n
        <5>1. Before(f, c) = b /\ f[c] = v
          BY <4>2
        <5>2. b * V = Len(J) /\ (b + 1) * V = Len(K)
          BY <2>4, <3>4
        <5>3. Len(K) <= Len(K)
          BY <2>4, <3>2
        <5> QED
          BY <3>2, <5>1, <5>2, <5>3
      <4>3. CASE c # n
        <5>1. c < n
          BY <3>5, <4>1, <4>3
        <5> PICK a : a = Before(f, c) * V
          OBVIOUS
        <5>2. a \in Nat /\ (Before(f, c) + 1) * V = a + V /\ a + V <= Len(J)
              /\ \A i \in 1..V : J[a + i] = f[c][i]
          BY <2>4, <4>1, <5>1, OneMore
        <5>3. Len(J) \in Nat
          BY <2>4
        <5>4. \A i \in 1..V : K[a + i] = J[a + i]
          <6>1. \A x, y, l \in Nat : \A i \in 1..y : x + y <= l => x + i \in 1..l
            OBVIOUS
          <6>2. \A i \in 1..V : a + i \in 1..Len(J)
            BY <2>4, <5>2, <5>3, <6>1
          <6> QED
            BY <3>2, <6>2
        <5>5. a + V <= Len(K)
          <6>1. \A x, y, l \in Nat : x + y <= l => x + y <= l + y
            OBVIOUS
          <6> QED
            BY <2>4, <3>2, <5>2, <5>3, <6>1
        <5> QED
          BY <5>2, <5>4, <5>5
      <4> QED
        BY <4>2, <4>3
    <3>6. Before(f, n + 1) = b + 1
      BY <2>3, <2>6
    <3>7. /\ Joined(f)[n + 1] \in Seq(Words)
          /\ Len(Joined(f)[n + 1]) = Before(f, n + 1) * ValueLen
      BY <3>2, <3>4, <3>6
    <3>8. ASSUME NEW c \in Used(f), c < n + 1
          PROVE  /\ (Before(f, c) + 1) * ValueLen <= Len(Joined(f)[n + 1])
                 /\ \A i \in 1..ValueLen : Joined(f)[n + 1][Before(f, c) * ValueLen + i] = f[c][i]
      BY <3>5, <3>8
    <3> QED
      BY <3>7, <3>8 DEF DataUpto
  <2> QED
    BY <2>5, <2>6
<1>3. Nat \subseteq S
  <2>1. \A n \in Nat : n \in S => n + 1 \in S
    BY <1>2
  <2> HIDE DEF S
  <2> QED
    BY <1>1, <2>1, SetInduction
<1> QED
  BY <1>0, <1>3

\* What is written of such a suffix node is read back as it was.
LEMMA SuffixReadBack ==
  ASSUME ValuesFit, NEW f \in [Chunks -> Values \cup {None}]
  PROVE  Decode(Encode(Suffix(f))) = Suffix(f)
<1> PICK J : J = Joined(f)[Width]
  OBVIOUS
<1>0. /\ Chunks \subseteq Nat /\ Width \in Nat \ {0} /\ Chunks = 0..(Width - 1)
      /\ ValueLen \in Nat \ {0}
      /\ \A v \in Values : v \in Seq(Words) /\ Len(v) = ValueLen
  BY WidthType, VerkleAssumption DEF VerkleAssumption, ValuesFit, Chunks, Words
<1>1. Encode(Suffix(f)) = [type |-> "suffix", bitmap |-> Used(f), data |-> J]
  BY DEF Encode, Suffix, Used
<1>2. ASSUME NEW c \in Used(f)
      PROVE  Slice(J, Before(f, c) * ValueLen, (Before(f, c) + 1) * ValueLen) = f[c]
  <2> PICK a, V, v : a = Before(f, c) * ValueLen /\ V = ValueLen /\ v = f[c]
    OBVIOUS
  <2>1. c \in Chunks /\ c < Width /\ v \in Values
    BY <1>0 DEF Used
  <2>2. /\ J \in Seq(Words)
        /\ (Before(f, c) + 1) * V <= Len(J)
        /\ \A i \in 1..V : J[a + i] = v[i]
    BY <2>1, JoinedValues DEF DataUpto
  <2>3. a \in Nat /\ V \in Nat \ {0} /\ (Before(f, c) + 1) * V = a + V
    <3>1. Before(f, c) \in Nat
      BY <1>0, <2>1, BeforeSteps
    <3> QED
      BY <1>0, <3>1, OneMore
  <2>0. a + V <= Len(J)
    BY <2>2, <2>3
  <2>4. Slice(J, a, a + V) = SubSeq(J, a + 1, a + V)
    <3>1. \A x, l \in Nat : x <= l => x = IF x < l THEN x ELSE l
      OBVIOUS
    <3>2. a + V \in Nat /\ Len(J) \in Nat
      BY <2>2, <2>3
    <3>3. a + V = IF a + V < Len(J) THEN a + V ELSE Len(J)
      BY <2>0, <3>1, <3>2
    <3> QED
      BY <3>3 DEF Slice
  <2>5. /\ SubSeq(J, a + 1, a + V) \in Seq(Words)
        /\ Len(SubSeq(J, a + 1, a + V)) = V
        /\ \A i \in 1..V : SubSeq(J, a + 1, a + V)[i] = J[a + i]
    <3>1. J \in Seq(Words) /\ a \in Nat /\ V \in Nat /\ a + V <= Len(J)
      BY <2>0, <2>2, <2>3
    <3> QED
      BY <3>1, WordsBetween, Zenon
  <2>6. v \in Seq(Words) /\ Len(v) = V
    BY <1>0, <2>1
  <2> PICK u : u = SubSeq(J, a + 1, a + V)
    OBVIOUS
  <2>7. u = v
    <3>1. u \in Seq(Words) /\ Len(u) = Len(v) /\ \A i \in 1..Len(v) : u[i] = v[i]
      BY <2>2, <2>5, <2>6
    <3> QED
      BY <2>6, <3>1, SameWords
  <2> QED
    BY <2>3, <2>4, <2>7
<1>3. Decode(Encode(Suffix(f))) =
        Suffix([c \in Chunks |-> IF c \notin Used(f) THEN None
                ELSE Slice(J, Before(f, c) * ValueLen, (Before(f, c) + 1) * ValueLen)])
  BY <1>1 DEF Decode, Before, SlotsBefore
<1>4. [c \in Chunks |-> IF c \notin Used(f) THEN None
        ELSE Slice(J, Before(f, c) * ValueLen, (Before(f, c) + 1) * ValueLen)] = f
  <2>1. \A c \in Chunks : c \notin Used(f) => f[c] = None
    BY DEF Used
  <2> QED
    BY <1>2, <2>1
<1> QED
  BY <1>3, <1>4

-----------------------------------------------------------------------------
(* Suffix nodes, in the database and on the stack, hold inserted values only *)

SuffixContents == [Chunks -> Values \cup {None}]

SuffixStored(ref) ==
  db[ref].type = "suffix" =>
    \E f \in SuffixContents : db[ref] = Encode(Suffix(f)) /\ ref = Reference(Suffix(f))

SuffixFits(node) == node.type = "suffix" => \E f \in SuffixContents : node = Suffix(f)

SuffixesOK ==
  /\ \A ref \in DOMAIN db : SuffixStored(ref)
  /\ pc \in {"walk", "commit"} => \A i \in 1..Len(stack) : SuffixFits(stack[i].node)
  /\ pc = "walk" => op.value \in Values

\* A suffix node that takes a value still fits.
LEMMA SuffixTakes ==
  ASSUME NEW f \in SuffixContents, NEW c \in Chunks, NEW v \in Values
  PROVE  SetSlot(Suffix(f), c, v) = Suffix([f EXCEPT ![c] = v]) /\ [f EXCEPT ![c] = v] \in SuffixContents
  BY DEF SetSlot, Suffix, SuffixContents

\* A suffix node of a single value fits.
LEMMA NewSuffixFits ==
  ASSUME SuffixOf(op.key) \in Chunks, op.value \in Values
  PROVE  SuffixFits(NewSuffix)
<1>1. [NoChildren EXCEPT ![SuffixOf(op.key)] = op.value] \in SuffixContents
  BY DEF NoChildren, SuffixContents
<1> QED
  BY <1>1 DEF SuffixFits, NewSuffix

\* A suffix node is read as it was written.
LEMMA SuffixLoaded ==
  ASSUME ValuesFit, NEW ref \in DOMAIN db, SuffixStored(ref), db[ref].type = "suffix"
  PROVE  \E f \in SuffixContents : Load(ref) = Suffix(f) /\ ref = Reference(Suffix(f))
<1>1. PICK f \in SuffixContents : db[ref] = Encode(Suffix(f)) /\ ref = Reference(Suffix(f))
  BY DEF SuffixStored
<1>2. Load(ref) = Suffix(f)
  BY <1>1, SuffixReadBack DEF Load, SuffixContents
<1> QED
  BY <1>1, <1>2

\* Internal nodes and extensions are no suffix nodes.
LEMMA OtherNodesFit ==
  /\ \A a : SuffixFits(Internal(a))
  /\ \A a, b : SuffixFits(Extension(a, b))
  BY DEF SuffixFits, Internal, Extension

\* What the writing of a node that fits leaves in the database.
LEMMA WriteKeepsSuffixes ==
  ASSUME NEW node, SuffixFits(node), Put(Reference(node), node), NEW ref \in DOMAIN db',
         \A r \in DOMAIN db : SuffixStored(r), node.type \in {"internal", "extension", "suffix"}
  PROVE  SuffixStored(ref)'
<1>1. /\ DOMAIN db' = DOMAIN db \cup {Reference(node)}
      /\ \A r \in DOMAIN db' : db'[r] = IF r = Reference(node) THEN Encode(node) ELSE db[r]
  BY DEF Put
<1>2. CASE ref = Reference(node)
  <2>1. db'[ref] = Encode(node)
    BY <1>1, <1>2
  <2>2. node.type = "suffix" => \E f \in SuffixContents : node = Suffix(f)
    BY DEF SuffixFits
  <2>3. node.type # "suffix" => Encode(node) = node
    BY DEF Encode
  <2> QED
    BY <1>2, <2>1, <2>2, <2>3 DEF SuffixStored
<1>3. CASE ref # Reference(node)
  BY <1>1, <1>3 DEF SuffixStored
<1> QED
  BY <1>2, <1>3

\* Every step keeps the suffix nodes readable.
LEMMA SuffixesKept ==
  ASSUME NoneIsUnlike, ValuesFit, IInv, SuffixesOK, [Next]_vars
  PROVE  SuffixesOK'
<1>h. PICK H : Consistent(H)
  BY DEF IInv
<1>n. PICK n : n = Len(stack)
  OBVIOUS
<1>a. ASSUME NEW k \in Keys, NEW v \in Values, Insert(k, v) PROVE SuffixesOK'
  <2>1. /\ pc' = "walk" /\ db' = db /\ op'.value = v
        /\ Len(stack') = 1 /\ stack'[1].node =
             (IF root = None THEN Internal(NoChildren) ELSE root.node)
    BY <1>a DEF Insert, disk, Entry
  <2>2. root # None => root.node.type = "internal"
    BY <1>h, InternalReference DEF Consistent, RootOK, InternalNode
  <2>3. SuffixFits(stack'[1].node)
    BY <2>1, <2>2, OtherNodesFit DEF SuffixFits
  <2>4. \A i \in 1..Len(stack') : i = 1
    BY <2>1
  <2> QED
    BY <2>1, <2>3, <2>4 DEF SuffixesOK, SuffixStored, SuffixFits
<1>b. ASSUME db' = db, pc' \notin {"walk", "commit"} PROVE SuffixesOK'
  BY <1>b DEF SuffixesOK, SuffixStored
<1>c. ASSUME pc = "walk", db' = db, op' = op, \A i \in 1..Len(stack') : SuffixFits(stack'[i].node)
      PROVE  SuffixesOK'
  BY <1>c DEF SuffixesOK, SuffixStored, SuffixFits
<1>s. pc = "walk" => /\ \A i \in 1..n : SuffixFits(stack[i].node)
                     /\ SuffixFits(NewSuffix) /\ op.value \in Values /\ SuffixOf(op.key) \in Chunks
  <2>1. pc = "walk" => op.key \in Keys
    BY <1>h DEF Consistent, StackOK, WalkOK
  <2>2. pc = "walk" => SuffixOf(op.key) \in Chunks
    <3>1. 0 \in 0..StemLen
      BY StemLenType
    <3> QED
      BY <2>1, <3>1, KeyRest
  <2> QED
    BY <1>n, <2>2, NewSuffixFits DEF SuffixesOK
<1>1. CASE WalkEmptySlot
  <2>1. /\ pc = "walk" /\ pc' = "commit" /\ UNCHANGED <<db, rootFile, root, op>>
        /\ n \in Nat \ {0} /\ Len(stack') = n + 2
        /\ \A i \in 1..n : stack'[i] = stack[i]
        /\ stack'[n + 1].node = Extension(From(NewStem, 1), None) /\ stack'[n + 2].node = NewSuffix
    BY <1>1, <1>h, <1>n, EmptySlotStack, EntryFields
  <2>2. \A i \in 1..(n + 2) : i \in 1..n \/ i = n + 1 \/ i = n + 2
    BY <2>1
  <2>3. SuffixFits(stack'[n + 1].node)
    BY <2>1, OtherNodesFit
  <2>4. \A i \in 1..(n + 2) : SuffixFits(stack'[i].node)
    BY <1>s, <2>1, <2>2, <2>3
  <2> QED
    BY <1>c, <2>1, <2>4
<1>2. CASE WalkChild
  <2> PICK kid : kid = Node.children[NewStem[1]]
    OBVIOUS
  <2>1. /\ pc = "walk" /\ UNCHANGED <<db, rootFile, root, op>>
        /\ n \in Nat \ {0} /\ Len(stack') = n + 1
        /\ \A i \in 1..n : stack'[i] = stack[i]
        /\ stack'[n + 1].node = Load(kid)
        /\ Kid(H, kid, StemLen - n + 1) /\ Load(kid) = db[kid]
    BY <1>2, <1>h, <1>n, ChildStack, EntryFields
  <2>2. \A i \in 1..(n + 1) : i \in 1..n \/ i = n + 1
    BY <2>1
  <2>3. SuffixFits(stack'[n + 1].node)
    BY <2>1 DEF Kid, SuffixFits
  <2>4. \A i \in 1..(n + 1) : SuffixFits(stack'[i].node)
    BY <1>s, <2>1, <2>2, <2>3
  <2> QED
    BY <1>c, <2>1, <2>4
<1>3. CASE WalkSameStem
  <2> PICK kid, new : kid = Node.child /\ new = SetSlot(Load(kid), SuffixOf(op.key), op.value)
    OBVIOUS
  <2>1. /\ pc = "walk" /\ pc' = "commit" /\ UNCHANGED <<db, rootFile, root, op>>
        /\ n \in Nat \ {0, 1} /\ Len(stack') = n + 1
        /\ \A i \in 1..n : stack'[i] = stack[i]
        /\ stack'[n + 1].node = new
        /\ SuffixRef(kid)
    BY <1>3, <1>h, <1>n, SameStemStack, EntryFields, SMTT(20)
  <2>2. \A i \in 1..(n + 1) : i \in 1..n \/ i = n + 1
    BY <2>1
  <2>3. SuffixFits(new)
    <3>1. kid \in DOMAIN db /\ db[kid].type = "suffix" /\ SuffixStored(kid)
      BY <2>1 DEF SuffixRef, SuffixesOK
    <3>2. PICK f \in SuffixContents : Load(kid) = Suffix(f)
      BY <3>1, SuffixLoaded
    <3>3. /\ new = Suffix([f EXCEPT ![SuffixOf(op.key)] = op.value])
          /\ [f EXCEPT ![SuffixOf(op.key)] = op.value] \in SuffixContents
      BY <1>s, <2>1, <3>2, SuffixTakes
    <3> QED
      BY <3>3 DEF SuffixFits
  <2>4. \A i \in 1..(n + 1) : SuffixFits(stack'[i].node)
    BY <1>s, <2>1, <2>2, <2>3
  <2> QED
    BY <1>c, <2>1, <2>4
<1>4. CASE WalkSplit
  <2> PICK m : m = MatchLength(Node.stem, NewStem)
    OBVIOUS
  <2>1. /\ pc = "walk" /\ pc' = "commit" /\ UNCHANGED <<db, rootFile, root, op>>
        /\ n \in Nat \ {0, 1} /\ m \in Nat
        /\ SplitStack(stack', n, m, Node, NewStem)
    BY <1>4, <1>h, <1>n, SplitSteps
  <2>2. /\ Len(stack') = n + m + 3
        /\ \A i \in 1..(n - 1) : stack'[i] = stack[i]
        /\ stack'[n].node = Internal(NoChildren)
        /\ \A i \in (n + 1)..(n + m) : stack'[i].node = Internal(NoChildren)
        /\ stack'[n + m + 1].node = Extension(From(Node.stem, m + 1), Node.child)
        /\ stack'[n + m + 2].node = Extension(From(NewStem, m + 1), None)
        /\ stack'[n + m + 3].node = NewSuffix
    BY <2>1, EntryFields DEF SplitStack
  <2>3. \A i \in 1..(n + m + 3) : \/ i \in 1..(n - 1) \/ i = n \/ i \in (n + 1)..(n + m)
                                  \/ i = n + m + 1 \/ i = n + m + 2 \/ i = n + m + 3
    BY <2>1
  <2>4. \A i \in 1..(n - 1) : SuffixFits(stack'[i].node)
    <3>1. \A i \in 1..(n - 1) : i \in 1..n
      BY <2>1
    <3> QED
      BY <1>s, <2>1, <2>2, <3>1
  <2>5. /\ SuffixFits(stack'[n].node)
        /\ \A i \in (n + 1)..(n + m) : SuffixFits(stack'[i].node)
        /\ SuffixFits(stack'[n + m + 1].node) /\ SuffixFits(stack'[n + m + 2].node)
        /\ SuffixFits(stack'[n + m + 3].node)
    BY <1>s, <2>1, <2>2, OtherNodesFit
  <2>6. \A i \in 1..(n + m + 3) : SuffixFits(stack'[i].node)
    BY <2>3, <2>4, <2>5
  <2> QED
    BY <1>c, <2>1, <2>2, <2>6
<1>5. CASE WalkRaises
  BY <1>b, <1>5 DEF WalkRaises, Raise, disk
<1>6. CASE CommitNode
  <2> PICK node, p, slot : node = stack[n].node /\ p = stack[n].parent /\ slot = stack[n].slot
    OBVIOUS
  <2>1. /\ pc = "commit" /\ pc' = "commit" /\ n \in Nat \ {0, 1} /\ p \in 1..(n - 1)
        /\ EntryAt(H, n) /\ Put(Reference(node), node)
        /\ node.type \in {"internal", "extension"} => stack[p].node.type = "internal"
        /\ node.type = "suffix" => stack[p].node.type = "extension"
        /\ Len(stack') = n - 1
        /\ \A i \in 1..(n - 1) : i # p => stack'[i] = stack[i]
        /\ stack'[p].node = SetSlot(stack[p].node, slot, Reference(node))
    BY <1>6, <1>h, <1>n, CommitStack, EntryFields
  <2>2. node.type \in {"internal", "extension", "suffix"}
    BY <2>1 DEF EntryAt
  <2>3. \A i \in 1..n : SuffixFits(stack[i].node)
    BY <1>n, <2>1 DEF SuffixesOK
  <2>4. \A ref \in DOMAIN db' : SuffixStored(ref)'
    BY <2>1, <2>2, <2>3, WriteKeepsSuffixes DEF SuffixesOK
  <2>5. stack'[p].node.type # "suffix"
    BY <2>1, <2>2, InternalReference DEF SetSlot
  <2>6. \A i \in 1..(n - 1) : SuffixFits(stack'[i].node)
    <3>1. \A i \in 1..(n - 1) : i \in 1..n
      BY <2>1
    <3> QED
      BY <2>1, <2>3, <2>5, <3>1 DEF SuffixFits
  <2> QED
    BY <2>1, <2>4, <2>6 DEF SuffixesOK, SuffixFits
<1>7. CASE CommitRaises
  BY <1>b, <1>7 DEF CommitRaises, Raise, disk
<1>8. CASE CommitRoot
  <2> PICK node : node = stack[n].node
    OBVIOUS
  <2>1. StackOK(H) /\ pc = "commit" /\ pc' = "open"
    BY <1>h, <1>8 DEF Consistent, CommitRoot
  <2>2. n \in Nat \ {0} /\ EntryAt(H, n) /\ Node = node
    BY <1>n, <2>1, TopIsCommitted
  <2>3. Put(Reference(node), node)
    BY <1>8, <2>2 DEF CommitRoot
  <2>4. SuffixFits(node) /\ node.type \in {"internal", "extension", "suffix"}
    BY <1>n, <2>1, <2>2 DEF SuffixesOK, EntryAt
  <2>5. \A ref \in DOMAIN db' : SuffixStored(ref)'
    BY <2>3, <2>4, WriteKeepsSuffixes DEF SuffixesOK
  <2> QED
    BY <2>1, <2>5 DEF SuffixesOK
<1>9. CASE OpenRootFile
  BY <1>b, <1>9 DEF OpenRootFile
<1>10. CASE WriteRootFile
  BY <1>b, <1>10 DEF WriteRootFile
<1>11. CASE Crash
  BY <1>b, <1>11 DEF Crash, disk
<1>12. CASE Restart
  BY <1>b, <1>12 DEF Restart, disk
<1>13. CASE UNCHANGED vars
  BY <1>13 DEF vars, disk, call, SuffixesOK, SuffixStored, SuffixFits
<1> QED
  BY <1>a, <1>1, <1>2, <1>3, <1>4, <1>5, <1>6, <1>7, <1>8, <1>9, <1>10, <1>11, <1>12, <1>13
     DEF Next, Step

\* What is read back under a reference is what it commits to.
LEMMA InvariantMatches ==
  ASSUME ValuesFit, IInv, SuffixesOK
  PROVE  CommitmentsMatch
<1> PICK H : Consistent(H)
  BY DEF IInv
<1> SUFFICES ASSUME NEW ref \in DOMAIN db PROVE Reference(Load(ref)) = ref
  BY DEF CommitmentsMatch, Load
<1>1. Stored(H, ref) /\ SuffixStored(ref)
  BY DEF Consistent, StoreOK, SuffixesOK
<1>2. CASE db[ref].type = "suffix"
  BY <1>1, <1>2, SuffixLoaded
<1>3. CASE db[ref].type \in {"internal", "extension"}
  BY <1>1, <1>3 DEF Load, Decode, Stored
<1> QED
  BY <1>1, <1>2, <1>3 DEF Stored

\* serialize_node and deserialize_node of verkle/serialization.py: the node read
\* back from the database is one to which the commitment that it is stored under
\* commits, when every value has the length that the decoder takes.
THEOREM CommitmentsAlwaysMatch ==
  ASSUME NoneIsUnlike, ValuesFit
  PROVE  Spec => []CommitmentsMatch
<1>1. Init => IInv /\ SuffixesOK
  BY InvariantInitially DEF Init, SuffixesOK
<1>2. IInv /\ SuffixesOK /\ [Next]_vars => (IInv /\ SuffixesOK)'
  BY InvariantKept, SuffixesKept
<1>3. IInv /\ SuffixesOK => CommitmentsMatch
  BY InvariantMatches
<1> QED
  BY <1>1, <1>2, <1>3, PTL DEF Spec

-----------------------------------------------------------------------------
(* The path of a key, as the provers walk it *)

\* A place that the walk leaves by a chunk of the stem, and one that it leaves
\* for the suffix node: their commitments open to the next place.
LeftByChunk(k, W, m) ==
  LET c == StemOf(k)[m + 1] IN
  /\ W[m].node.type = "internal" /\ W[m + 1].node.type \in {"internal", "extension"}
  /\ W[m].depth = m /\ m < StemLen /\ c \in Chunks
  /\ W[m].node.children[c] # None
  /\ Opened(W[m].ref, c) = W[m + 1].ref
  /\ FieldOfChild(W[m].node.children[c]) = W[m + 1].ref

LeftForSuffix(W, m, t) ==
  /\ W[m].node.type = "extension" /\ m + 1 = t /\ W[t].node.type = "suffix"
  /\ Opened(W[m].ref, 2) = W[t].ref
  /\ FieldOfChild(W[m].node.child) = W[t].ref

\* The places of the walk for k: t of them are left.
KeyPath(k, W, t) ==
  /\ t \in Nat
  /\ W[0].ref = root.value /\ W[0].node.type = "internal"
  /\ \A m \in 0..t : /\ W[m].node.type \in {"internal", "extension", "suffix"}
                     /\ Reference(W[m].node) = W[m].ref
  /\ \A m \in 0..(t - 1) : LeftByChunk(k, W, m) \/ LeftForSuffix(W, m, t)
  /\ W[t].node.type = "suffix" =>
       /\ Opened(W[t].ref, SuffixOf(k)) = FieldOfValue(W[t].node.children[SuffixOf(k)])
       /\ W[t].node.children[SuffixOf(k)] \in Values \cup {None}
  /\ W[t].node.type = "extension" => \A v : Opened(W[t].ref, 2) # FieldOfValue(v)
  /\ SuffixOf(k) \in Chunks /\ Len(StemOf(k)) = StemLen
  /\ Contents(root.value)[k] = Value(W[t].node, SuffixOf(k))

\* What the commitments of the nodes open to.
LEMMA OpenedInternal ==
  ASSUME NEW node, node = Internal(node.children), NEW c \in Chunks
  PROVE  Opened(Reference(node), c) = FieldOfChild(node.children[c])
<1> PICK f : f = [d \in Chunks |-> FieldOfChild(node.children[d])]
  OBVIOUS
<1>1. Reference(node) = <<"array", f>>
  BY InternalReference
<1>2. f[c] = FieldOfChild(node.children[c])
  OBVIOUS
<1> QED
  BY <1>1, <1>2 DEF Opened

\* At index 2 a commitment to an extension opens to its child.
LEMMA OpenedExtension ==
  ASSUME NEW node, node = Extension(node.stem, node.child)
  PROVE  Opened(Reference(node), 2) = FieldOfChild(node.child)
<1>1. Reference(node) = <<"extension", StemInt(node.stem), FieldOfChild(node.child)>>
  BY ExtensionReference
<1> QED
  BY <1>1 DEF Opened, ExtensionSlot

\* A commitment to a suffix node opens to the values.
LEMMA OpenedSuffix ==
  ASSUME NEW f, NEW c \in Chunks
  PROVE  Opened(Reference(Suffix(f)), c) = FieldOfValue(f[c])
<1> PICK g : g = [d \in Chunks |-> FieldOfValue(f[d])]
  OBVIOUS
<1>1. Reference(Suffix(f)) = <<"array", g>>
  BY DEF Reference, Suffix
<1>2. g[c] = FieldOfValue(f[c])
  OBVIOUS
<1> QED
  BY <1>1, <1>2 DEF Opened

\* The walk for a key of a tree in memory is such a path.
LEMMA PathOfKey ==
  ASSUME NoneIsUnlike, ValuesFit, IInv, RootLoaded, SuffixesOK, Ready, NEW k \in Keys,
         NEW t, t = Turns(StemOf(k)), NEW W, W = Walk(StemOf(k))
  PROVE  KeyPath(k, W, t)
<1> PICK H : Consistent(H)
  BY DEF IInv
<1>0. pc = "ready" /\ root # None /\ root.value # None /\ StoreOK(H)
  BY DEF Ready, RootRef, Consistent
<1>1. /\ Trees(db, H) /\ FullTree(db, H, root.value) /\ root.node = db[root.value]
  BY <1>0, LoadedRoot
<1>2. /\ t \in 0..NumChunks /\ ~GoesOn(W[t], StemOf(k))
      /\ \A m \in 0..(t - 1) : GoesOn(W[m], StemOf(k))
      /\ \A m \in 0..t : OnPath(H, root.value, k, W[m], m)
  BY <1>1, WalkOnPath
<1>3. StemLen \in Nat \ {0} /\ \A ref \in DOMAIN db : H[ref] \in Nat
  BY <1>1, StemLenType DEF Trees
<1>4. SuffixOf(k) \in Chunks /\ Len(StemOf(k)) = StemLen
  <2>1. 0 \in 0..StemLen
    BY <1>3
  <2> QED
    BY <2>1, KeyRest, StemOfType
<1>5. W[0] = Here /\ \A n \in Nat : W[n + 1] = Forward(W[n], StemOf(k))
  BY WalkSteps
<1>6. \A ref \in DOMAIN db : Reference(Load(ref)) = ref
  BY InvariantMatches DEF CommitmentsMatch, Load
<1>7. W[0].ref = root.value /\ W[0].node.type = "internal"
  BY <1>1, <1>5 DEF Here, FullTree
<1>8. ASSUME NEW m \in 0..t
      PROVE  /\ W[m].ref \in DOMAIN db /\ W[m].node = Load(W[m].ref)
             /\ W[m].node.type = db[W[m].ref].type
             /\ W[m].node.type \in {"internal", "extension", "suffix"}
             /\ Reference(W[m].node) = W[m].ref
             /\ W[m].node.type = "internal" => /\ W[m].node = Internal(W[m].node.children)
                                               /\ W[m].node.children \in [Chunks -> DOMAIN db \cup {None}]
                                               /\ W[m].depth = m /\ m < StemLen
                                               /\ InternalNode(H, W[m].node, H[W[m].ref])
             /\ W[m].node.type = "extension" => /\ W[m].node = Extension(W[m].node.stem, W[m].node.child)
                                                /\ SuffixRef(W[m].node.child)
             /\ W[m].node.type = "suffix" => \E f \in SuffixContents : W[m].node = Suffix(f)
  <2> PICK at : at = W[m]
    OBVIOUS
  <2>1. OnPath(H, root.value, k, at, m) /\ m \in Nat
    BY <1>2
  <2>2. /\ at.ref \in DOMAIN db /\ at.node = Load(at.ref)
        /\ at.node.type = db[at.ref].type
        /\ Stored(H, at.ref) /\ SuffixStored(at.ref)
    BY <1>0, <2>1 DEF OnPath, StoreOK, SuffixesOK
  <2>3. at.node.type \in {"internal", "extension", "suffix"} /\ Reference(at.node) = at.ref
    BY <1>6, <2>2 DEF Stored
  <2>4. at.node.type # "suffix" => at.node = db[at.ref]
    BY <2>2 DEF Load, Decode
  <2>5. ASSUME at.node.type = "internal"
        PROVE  /\ at.node = Internal(at.node.children)
               /\ at.node.children \in [Chunks -> DOMAIN db \cup {None}]
               /\ at.depth = m /\ m < StemLen
               /\ InternalNode(H, at.node, H[at.ref])
    <3>1. InternalNode(H, at.node, H[at.ref]) /\ H[at.ref] > 0
      BY <2>2, <2>4, <2>5 DEF Stored
    <3>2. at.depth = m /\ H[at.ref] <= StemLen - m
      BY <2>1, <2>5 DEF OnPath
    <3>3. m < StemLen
      BY <1>3, <2>1, <2>2, <3>1, <3>2
    <3> QED
      BY <3>1, <3>2, <3>3 DEF InternalNode
  <2>6. at.node.type = "extension" => /\ at.node = Extension(at.node.stem, at.node.child)
                                      /\ SuffixRef(at.node.child)
    BY <2>2, <2>4 DEF Stored, ExtensionNode
  <2>7. at.node.type = "suffix" => \E f \in SuffixContents : at.node = Suffix(f)
    BY <2>2, SuffixLoaded
  <2> QED
    BY <2>2, <2>3, <2>5, <2>6, <2>7
<1>9. ASSUME NEW m \in 0..(t - 1) PROVE LeftByChunk(k, W, m) \/ LeftForSuffix(W, m, t)
  <2>1. m \in 0..t /\ m + 1 \in 0..t /\ m \in Nat
    BY <1>2
  <2> PICK at, next : at = W[m] /\ next = W[m + 1]
    OBVIOUS
  <2>2. GoesOn(at, StemOf(k)) /\ next = Forward(at, StemOf(k))
    BY <1>2, <1>5, <2>1
  <2>3. CASE at.node.type = "internal"
    <3> PICK c, kid : c = StemOf(k)[m + 1] /\ kid = at.node.children[c]
      OBVIOUS
    <3>1. /\ at.node = Internal(at.node.children)
          /\ at.node.children \in [Chunks -> DOMAIN db \cup {None}]
          /\ at.depth = m /\ m < StemLen
          /\ InternalNode(H, at.node, H[at.ref]) /\ Reference(at.node) = at.ref
      BY <1>8, <2>1, <2>3
    <3>2. m \in 0..StemLen
      BY <1>3, <2>1, <3>1
    <3>3. c \in Chunks
      BY <3>1, <3>2, KeyRest
    <3>4. kid # None
      BY <2>2, <2>3, <3>1 DEF GoesOn
    <3>5. Kid(H, kid, H[at.ref])
      BY <3>1, <3>3, <3>4 DEF InternalNode
    <3>6. next.ref = kid
      BY <2>2, <2>3, <3>1 DEF Forward
    <3>7. next.node.type = db[next.ref].type
      BY <1>8, <2>1
    <3>8. next.node.type \in {"internal", "extension"}
      BY <3>5, <3>6, <3>7 DEF Kid
    <3>9. FieldOfChild(kid) = kid
      BY <3>4 DEF FieldOfChild
    <3>10. Opened(at.ref, c) = kid
      BY <3>1, <3>3, <3>9, OpenedInternal
    <3> QED
      BY <2>3, <3>1, <3>3, <3>4, <3>6, <3>8, <3>9, <3>10 DEF LeftByChunk
  <2>4. CASE at.node.type = "extension"
    <3> PICK kid : kid = at.node.child
      OBVIOUS
    <3>1. /\ at.node = Extension(at.node.stem, at.node.child)
          /\ SuffixRef(kid) /\ Reference(at.node) = at.ref
      BY <1>8, <2>1, <2>4
    <3>2. next.ref = kid
      BY <2>2, <2>4 DEF Forward
    <3>3. next.node.type = db[next.ref].type
      BY <1>8, <2>1
    <3>4. next.node.type = "suffix"
      BY <3>1, <3>2, <3>3 DEF SuffixRef
    <3>5. m + 1 = t
      <4>1. ~GoesOn(next, StemOf(k))
        BY <3>4 DEF GoesOn
      <4>2. m + 1 \in 0..(t - 1) => GoesOn(next, StemOf(k))
        BY <1>2
      <4> QED
        BY <1>2, <2>1, <4>1, <4>2
    <3>6. FieldOfChild(kid) = kid
      <4>1. None \notin DOMAIN db
        BY <1>1 DEF Trees
      <4> QED
        BY <3>1, <4>1 DEF FieldOfChild, SuffixRef
    <3>7. Opened(at.ref, 2) = kid
      BY <3>1, <3>6, OpenedExtension
    <3> QED
      BY <2>4, <3>2, <3>4, <3>5, <3>6, <3>7 DEF LeftForSuffix
  <2> QED
    BY <2>2, <2>3, <2>4 DEF GoesOn
<1>10. t \in Nat /\ t \in 0..t
  BY <1>2
<1>11. W[t].node.type = "suffix" =>
         /\ Opened(W[t].ref, SuffixOf(k)) = FieldOfValue(W[t].node.children[SuffixOf(k)])
         /\ W[t].node.children[SuffixOf(k)] \in Values \cup {None}
  <2> SUFFICES ASSUME W[t].node.type = "suffix"
               PROVE  /\ Opened(W[t].ref, SuffixOf(k)) = FieldOfValue(W[t].node.children[SuffixOf(k)])
                      /\ W[t].node.children[SuffixOf(k)] \in Values \cup {None}
    OBVIOUS
  <2>1. PICK f \in SuffixContents : W[t].node = Suffix(f)
    BY <1>8, <1>10
  <2>2. Reference(W[t].node) = W[t].ref
    BY <1>8, <1>10
  <2>3. W[t].node.children = f /\ f[SuffixOf(k)] \in Values \cup {None}
    BY <1>4, <2>1 DEF Suffix, SuffixContents
  <2> QED
    BY <1>4, <2>1, <2>2, <2>3, OpenedSuffix
<1>12. W[t].node.type = "extension" => \A v : Opened(W[t].ref, 2) # FieldOfValue(v)
  <2> SUFFICES ASSUME W[t].node.type = "extension", NEW v
               PROVE  Opened(W[t].ref, 2) # FieldOfValue(v)
    OBVIOUS
  <2> PICK kid : kid = W[t].node.child
    OBVIOUS
  <2>1. /\ W[t].node = Extension(W[t].node.stem, W[t].node.child)
        /\ SuffixRef(kid) /\ Reference(W[t].node) = W[t].ref
    BY <1>8, <1>10
  <2>2. Opened(W[t].ref, 2) = FieldOfChild(kid)
    BY <2>1, OpenedExtension
  <2>3. None \notin DOMAIN db /\ kid \in DOMAIN db
    BY <1>1, <2>1 DEF Trees, SuffixRef
  <2>4. FieldOfChild(kid) = kid
    BY <2>3 DEF FieldOfChild
  <2>5. \A x : kid # <<x>>
    BY <1>0, <2>3, NoReferenceIsANumber
  <2> QED
    BY <2>2, <2>4, <2>5 DEF FieldOfValue
<1>13. Contents(root.value)[k] = Value(W[t].node, SuffixOf(k))
  BY <1>1, WalkFindsContents
<1> QED
  BY <1>4, <1>7, <1>8, <1>9, <1>10, <1>11, <1>12, <1>13 DEF KeyPath

-----------------------------------------------------------------------------
(* What is shown of one key, and what is expected *)

\* An exception is no proof and no walk.
RaisedIsUnlike ==
  /\ \A x, y : [commitments |-> x, witness |-> y] # Raised
  /\ \A x, y, z : [commitments |-> x, indices |-> y, witness |-> z] # Raised
  /\ \A n \in Nat : \A f : [i \in 1..n |-> f[i]] # Raised

Shown(k, W, t, x) ==
  \E m \in 0..t : x = Opening(k, m, W[m].ref, IndexAt(W[m].node, ByChunks(k), m))

Expected(k, W, t, value, e) ==
  \E m \in 0..t : e = [opening |-> Opening(k, m, W[m].ref, IndexByLevel(ByChunks(k), m, t)),
                       leaf    |-> IF m < t THEN W[m + 1].ref ELSE FieldOfValue(value)]

\* The nodes of get_proof_tree are the places of the walk.
LEMMA ProofWalkIs ==
  ASSUME NEW k, NEW t \in Nat, t = Turns(StemOf(k)), NEW W, W = Walk(StemOf(k)),
         NEW nodes, nodes = ProofWalk(StemOf(k))
  PROVE  /\ nodes = [n \in 1..(t + 1) |-> W[n - 1]] /\ DOMAIN nodes = 1..(t + 1)
         /\ Len(nodes) = t + 1 /\ Last(nodes) = W[t]
         /\ \A n \in 1..(t + 1) : nodes[n] = W[n - 1]
<1>1. nodes = [n \in 1..(t + 1) |-> W[n - 1]]
  BY DEF ProofWalk
<1>2. Len(nodes) = t + 1
  BY <1>1
<1>3. Last(nodes) = W[t]
  <2>1. t + 1 \in 1..(t + 1) /\ (t + 1) - 1 = t
    OBVIOUS
  <2> QED
    BY <1>1, <1>2, <2>1 DEF Last
<1> QED
  BY <1>1, <1>2, <1>3

\* What the prover opens along the walk for a key.
LEMMA ShownOfKey ==
  ASSUME NEW k, NEW t, t = Turns(StemOf(k)), NEW W, W = Walk(StemOf(k)), KeyPath(k, W, t), NEW x
  PROVE  x \in OpeningsAlong(k, ByChunks(k), ProofWalk(StemOf(k))) <=> Shown(k, W, t, x)
<1> PICK nodes : nodes = ProofWalk(StemOf(k))
  OBVIOUS
<1>0. t \in Nat /\ \A m \in 0..t : Reference(W[m].node) = W[m].ref
  BY DEF KeyPath
<1>1. DOMAIN nodes = 1..(t + 1) /\ \A n \in 1..(t + 1) : nodes[n] = W[n - 1]
  BY <1>0, ProofWalkIs
<1>2. x \in OpeningsAlong(k, ByChunks(k), nodes)
        <=> \E n \in 1..(t + 1) : x = Opening(k, n - 1, Reference(nodes[n].node),
                                              IndexAt(nodes[n].node, ByChunks(k), n - 1))
  BY <1>1 DEF OpeningsAlong
<1>3. ASSUME NEW n \in 1..(t + 1)
      PROVE  /\ n - 1 \in 0..t
             /\ Opening(k, n - 1, Reference(nodes[n].node), IndexAt(nodes[n].node, ByChunks(k), n - 1))
                  = Opening(k, n - 1, W[n - 1].ref, IndexAt(W[n - 1].node, ByChunks(k), n - 1))
  <2>1. n - 1 \in 0..t
    BY <1>0
  <2> QED
    BY <1>0, <1>1, <2>1
<1>4. \A m \in 0..t : m + 1 \in 1..(t + 1) /\ (m + 1) - 1 = m
  BY <1>0
<1> QED
  BY <1>2, <1>3, <1>4 DEF Shown

\* The tail of a sequence.
LEMMA TailIs ==
  ASSUME NEW S, NEW s \in Seq(S), s # <<>>
  PROVE  /\ Len(Tail(s)) = Len(s) - 1
         /\ \A i \in 1..(Len(s) - 1) : Tail(s)[i] = s[i + 1]
  OBVIOUS

\* The commitments sent for a key are those of its path below the root.
LEMMA CommitmentsOfKey ==
  ASSUME NEW k, NEW t, t = Turns(StemOf(k)), NEW W, W = Walk(StemOf(k)), KeyPath(k, W, t),
         NEW c, c = Tail(Refs(ProofWalk(StemOf(k))))
  PROVE  Len(c) = t /\ \A i \in 1..t : c[i] = W[i].ref
<1> PICK nodes : nodes = ProofWalk(StemOf(k))
  OBVIOUS
<1>0. t \in Nat
  BY DEF KeyPath
<1>1. DOMAIN nodes = 1..(t + 1) /\ \A n \in 1..(t + 1) : nodes[n] = W[n - 1]
  BY <1>0, ProofWalkIs
<1> PICK refs : refs = [n \in 1..(t + 1) |-> nodes[n].ref]
  OBVIOUS
<1>2. Refs(nodes) = refs
  BY <1>1 DEF Refs
<1>3. Len(refs) = t + 1
  BY <1>0
<1>4. refs \in Seq({nodes[n].ref : n \in 1..(t + 1)})
  BY <1>0
<1>5. /\ Len(Tail(refs)) = t
      /\ \A i \in 1..t : Tail(refs)[i] = refs[i + 1]
  <2>1. refs # <<>> /\ Len(refs) - 1 = t
    BY <1>0, <1>3
  <2> QED
    BY <1>4, <2>1, TailIs
<1>6. ASSUME NEW i \in 1..t PROVE Tail(refs)[i] = W[i].ref
  <2>1. i + 1 \in 1..(t + 1) /\ (i + 1) - 1 = i
    BY <1>0
  <2>2. refs[i + 1] = W[i].ref
    BY <1>1, <2>1
  <2> QED
    BY <1>5, <2>2
<1> QED
  BY <1>2, <1>5, <1>6

\* What the verifier expects of a key with these commitments.
LEMMA ExpectedOfKey ==
  ASSUME NEW k, NEW W, NEW t, KeyPath(k, W, t), NEW c, Len(c) = t,
         \A i \in 1..t : c[i] = W[i].ref, NEW value, NEW e
  PROVE  e \in ExpectedOf(k, ByChunks(k), value, root.value, c) <=> Expected(k, W, t, value, e)
<1> DEFINE Comm(m) == IF m = 0 THEN root.value ELSE c[m]
           Idx(m) == IndexByLevel(ByChunks(k), m, Len(c))
           Elem(m) == [opening |-> Opening(k, m, Comm(m), Idx(m)),
                       leaf    |-> LeafAt(c, Comm(m), Idx(m), m, value)]
<1>0. t \in Nat /\ W[0].ref = root.value
  BY DEF KeyPath
<1>1. e \in ExpectedOf(k, ByChunks(k), value, root.value, c) <=> \E m \in 0..t : e = Elem(m)
  BY DEF ExpectedOf
<1>2. ASSUME NEW m \in 0..t
      PROVE  Elem(m) = [opening |-> Opening(k, m, W[m].ref, IndexByLevel(ByChunks(k), m, t)),
                        leaf    |-> IF m < t THEN W[m + 1].ref ELSE FieldOfValue(value)]
  <2>1. Comm(m) = W[m].ref
    <3>1. m # 0 => m \in 1..t
      BY <1>0
    <3> QED
      BY <1>0, <3>1
  <2>2. m < t => m + 1 \in 1..t
    BY <1>0
  <2>3. LeafAt(c, Comm(m), Idx(m), m, value) = IF m < t THEN W[m + 1].ref ELSE FieldOfValue(value)
    BY <2>2 DEF LeafAt
  <2> HIDE DEF Comm
  <2> QED
    BY <2>1, <2>3
<1> HIDE DEF Elem
<1> QED
  BY <1>1, <1>2 DEF Expected

\* The kinds of the places of a path, told from its end.
LEMMA KindsOfPath ==
  ASSUME NEW k, NEW W, NEW t, KeyPath(k, W, t)
  PROVE  /\ W[t].node.type = "suffix" =>
              /\ t >= 2 /\ LeftForSuffix(W, t - 1, t)
              /\ \A m \in 0..(t - 2) : LeftByChunk(k, W, m)
         /\ W[t].node.type = "extension" => \A m \in 0..(t - 1) : LeftByChunk(k, W, m)
<1>0. /\ t \in Nat /\ W[0].node.type = "internal"
      /\ \A m \in 0..(t - 1) : LeftByChunk(k, W, m) \/ LeftForSuffix(W, m, t)
  BY DEF KeyPath
<1>1. CASE W[t].node.type = "suffix"
  <2>1. t # 0
    BY <1>0, <1>1
  <2>2. t - 1 \in 0..(t - 1) /\ (t - 1) + 1 = t
    BY <1>0, <2>1
  <2>3. LeftForSuffix(W, t - 1, t)
    <3>1. ~LeftByChunk(k, W, t - 1)
      BY <1>1, <2>2 DEF LeftByChunk
    <3> QED
      BY <1>0, <2>2, <3>1
  <2>4. t # 1
    BY <1>0, <2>3 DEF LeftForSuffix
  <2>5. ASSUME NEW m \in 0..(t - 2) PROVE LeftByChunk(k, W, m)
    <3>1. m \in 0..(t - 1) /\ m + 1 # t
      BY <1>0
    <3> QED
      BY <1>0, <3>1 DEF LeftForSuffix
  <2>6. t >= 2
    BY <1>0, <2>1, <2>4
  <2> QED
    BY <1>1, <2>3, <2>5, <2>6
<1>2. CASE W[t].node.type = "extension"
  BY <1>0, <1>2 DEF LeftForSuffix
<1> QED
  BY <1>1, <1>2

\* Along the path of a present key the verifier expects what the prover opens,
\* and its leaves are what the commitments hold.
LEMMA HonestKey ==
  ASSUME NEW k, NEW W, NEW t, KeyPath(k, W, t), Contents(root.value)[k] # None, NEW m \in 0..t
  PROVE  /\ W[t].node.type = "suffix"
         /\ IndexByLevel(ByChunks(k), m, t) = IndexAt(W[m].node, ByChunks(k), m)
         /\ Opened(W[m].ref, IndexAt(W[m].node, ByChunks(k), m)) =
              IF m < t THEN W[m + 1].ref ELSE FieldOfValue(Contents(root.value)[k])
<1> DEFINE split == ByChunks(k)
<1>0. split.stem = StemOf(k) /\ split.suffix = SuffixOf(k) /\ t \in Nat
  BY DEF ByChunks, KeyPath
<1>1. W[t].node.type = "suffix"
  BY DEF KeyPath, Value
<1>2. /\ t >= 2 /\ LeftForSuffix(W, t - 1, t)
      /\ \A n \in 0..(t - 2) : LeftByChunk(k, W, n)
  BY <1>1, KindsOfPath
<1> HIDE DEF split
<1>3. CASE m = t
  <2>1. IndexByLevel(split, m, t) = SuffixOf(k)
    BY <1>0, <1>3 DEF IndexByLevel
  <2>2. IndexAt(W[m].node, split, m) = SuffixOf(k)
    BY <1>0, <1>1, <1>3 DEF IndexAt
  <2>3. Opened(W[t].ref, SuffixOf(k)) = FieldOfValue(Contents(root.value)[k])
    BY <1>1 DEF KeyPath, Value
  <2> QED
    BY <1>0, <1>1, <1>3, <2>1, <2>2, <2>3 DEF split
<1>4. CASE m = t - 1
  <2>0. m < t /\ m # t /\ m + 1 = t
    BY <1>0, <1>4
  <2>1. IndexByLevel(split, m, t) = 2
    BY <1>0, <1>4, <2>0 DEF IndexByLevel
  <2>2. IndexAt(W[m].node, split, m) = 2
    BY <1>2, <1>4 DEF IndexAt, LeftForSuffix
  <2>3. Opened(W[m].ref, 2) = W[m + 1].ref
    BY <1>2, <1>4, <2>0 DEF LeftForSuffix
  <2> QED
    BY <1>1, <2>0, <2>1, <2>2, <2>3 DEF split
<1>5. CASE m \in 0..(t - 2)
  <2>0. m < t /\ m # t /\ m # t - 1
    BY <1>0, <1>5
  <2>1. IndexByLevel(split, m, t) = StemOf(k)[m + 1]
    BY <1>0, <2>0 DEF IndexByLevel
  <2>2. LeftByChunk(k, W, m)
    BY <1>2, <1>5
  <2>3. IndexAt(W[m].node, split, m) = StemOf(k)[m + 1]
    BY <1>0, <2>2 DEF IndexAt, LeftByChunk
  <2>4. Opened(W[m].ref, StemOf(k)[m + 1]) = W[m + 1].ref
    BY <2>2 DEF LeftByChunk
  <2> QED
    BY <1>1, <2>0, <2>1, <2>3, <2>4 DEF split
<1> QED
  <2>1. m = t \/ m = t - 1 \/ m \in 0..(t - 2)
    BY <1>0, <1>2
  <2> QED
    BY <1>3, <1>4, <1>5, <2>1

\* No two values have the same element of the field, and none has that of an
\* empty slot.
ValuesTold ==
  \A v, w \in Values \cup {None} : FieldOfValue(v) = FieldOfValue(w) => v = w

\* A verifier whose expectations the openings meet was told the value held.
LEMMA VerifiedKey ==
  ASSUME ValuesTold, NEW k, NEW W, NEW t, KeyPath(k, W, t),
         W[t].node.type \in {"suffix", "extension"}, NEW value \in Values,
         \A e : Expected(k, W, t, value, e) =>
                  /\ Shown(k, W, t, e.opening)
                  /\ Opened(e.opening.comm, e.opening.idx) = e.leaf
  PROVE  value = Contents(root.value)[k]
<1> DEFINE o == Opening(k, t, W[t].ref, SuffixOf(k))
           e == [opening |-> o, leaf |-> FieldOfValue(value)]
<1>0. ByChunks(k).suffix = SuffixOf(k) /\ t \in Nat /\ t \in 0..t /\ ~(t < t)
  BY DEF ByChunks, KeyPath
<1>1. IndexByLevel(ByChunks(k), t, t) = SuffixOf(k)
  BY <1>0 DEF IndexByLevel
<1>2. Expected(k, W, t, value, e)
  BY <1>0, <1>1 DEF Expected
<1>3. e.opening = o /\ e.leaf = FieldOfValue(value)
  OBVIOUS
<1>4. o.key = k /\ o.level = t /\ o.comm = W[t].ref /\ o.idx = SuffixOf(k)
  BY DEF Opening
<1> HIDE DEF o, e
<1>5. Shown(k, W, t, o) /\ Opened(W[t].ref, SuffixOf(k)) = FieldOfValue(value)
  BY <1>2, <1>3, <1>4
<1>6. CASE W[t].node.type = "suffix"
  BY <1>5, <1>6 DEF KeyPath, Value, ValuesTold
<1>7. CASE W[t].node.type = "extension"
  <2>1. PICK m \in 0..t : o = Opening(k, m, W[m].ref, IndexAt(W[m].node, ByChunks(k), m))
    BY <1>5 DEF Shown
  <2>2. o.level = m /\ o.idx = IndexAt(W[m].node, ByChunks(k), m)
    BY <2>1 DEF Opening
  <2>3. m = t
    BY <1>4, <2>2
  <2>4. SuffixOf(k) = 2
    BY <1>4, <1>7, <2>2, <2>3 DEF IndexAt
  <2> QED
    BY <1>5, <1>7, <2>4 DEF KeyPath
<1> QED
  BY <1>6, <1>7

-----------------------------------------------------------------------------
(* The proofs for a list of keys *)

KeyShown(k, x)          == Shown(k, Walk(StemOf(k)), Turns(StemOf(k)), x)
KeyExpects(k, value, e) == Expected(k, Walk(StemOf(k)), Turns(StemOf(k)), value, e)
KeyEnd(k)               == Walk(StemOf(k))[Turns(StemOf(k))].node.type
KeyWalked(k)            == KeyPath(k, Walk(StemOf(k)), Turns(StemOf(k)))

\* What it means that the openings shown for the keys meet what is expected
\* of them with these values.
Accepts(keys, values) ==
  /\ \A i \in DOMAIN keys : \A e : KeyExpects(keys[i], values[i], e) =>
       /\ \E j \in DOMAIN keys : KeyShown(keys[j], e.opening)
       /\ Opened(e.opening.comm, e.opening.idx) = e.leaf
  /\ \A j \in DOMAIN keys : \A x : KeyShown(keys[j], x) =>
       \E i \in DOMAIN keys : \E e : KeyExpects(keys[i], values[i], e) /\ e.opening = x

\* The pairing check compares what is expected with what is shown.
LEMMA PairingAccepts ==
  ASSUME NEW keys, NEW values, NEW E, NEW wit,
         \A e : e \in E <=> \E i \in DOMAIN keys : KeyExpects(keys[i], values[i], e),
         \A x : x \in wit <=> \E j \in DOMAIN keys : KeyShown(keys[j], x)
  PROVE  PairingHolds(E, wit) <=> Accepts(keys, values)
<1>1. {e.opening : e \in E} = wit
        <=> /\ \A e \in E : e.opening \in wit
            /\ \A x \in wit : \E e \in E : e.opening = x
  OBVIOUS
<1> QED
  BY <1>1 DEF PairingHolds, Accepts

\* What the prover sends.
LEMMA GeneratedProof ==
  ASSUME NEW keys, NEW proof, proof = GenerateProof(keys)
  PROVE  /\ (\E i \in DOMAIN keys : Last(ProofWalk(StemOf(keys[i]))).node.type = "internal")
              => proof = Raised
         /\ (\A i \in DOMAIN keys : Last(ProofWalk(StemOf(keys[i]))).node.type # "internal")
              => /\ proof = [commitments |-> proof.commitments, witness |-> proof.witness]
                 /\ \A i \in DOMAIN keys :
                      proof.commitments[i] = Tail(Refs(ProofWalk(StemOf(keys[i]))))
                 /\ \A x : x \in proof.witness <=>
                      \E i \in DOMAIN keys :
                        x \in OpeningsAlong(keys[i], ByChunks(keys[i]), ProofWalk(StemOf(keys[i])))
<1> DEFINE walks == [i \in DOMAIN keys |-> ProofWalk(StemOf(keys[i]))]
           coms == [i \in DOMAIN keys |-> Tail(Refs(walks[i]))]
           wit == UNION {OpeningsAlong(keys[i], ByChunks(keys[i]), walks[i]) : i \in DOMAIN keys}
<1>1. proof = IF \E i \in DOMAIN keys : Last(walks[i]).node.type = "internal" THEN Raised
              ELSE [commitments |-> coms, witness |-> wit]
  BY DEF GenerateProof
<1>2. \A i \in DOMAIN keys : walks[i] = ProofWalk(StemOf(keys[i]))
  OBVIOUS
<1>3. \A i \in DOMAIN keys : coms[i] = Tail(Refs(ProofWalk(StemOf(keys[i]))))
  OBVIOUS
<1>4. \A x : x \in wit <=> \E i \in DOMAIN keys :
                             x \in OpeningsAlong(keys[i], ByChunks(keys[i]), walks[i])
  <2> HIDE DEF walks
  <2> QED
    OBVIOUS
<1> HIDE DEF walks, coms, wit
<1> QED
  BY <1>1, <1>2, <1>3, <1>4

\* The last node of get_proof_tree is where the walk ends.
LEMMA EndOfWalk ==
  ASSUME NEW k, KeyWalked(k)
  PROVE  Last(ProofWalk(StemOf(k))).node.type = KeyEnd(k)
  BY ProofWalkIs DEF KeyWalked, KeyPath, KeyEnd

\* The plain proof is accepted when the openings meet the expectations.
LEMMA ProofAccepted ==
  ASSUME NEW keys, NEW values, \A i \in DOMAIN keys : KeyWalked(keys[i]),
         \A i \in DOMAIN keys : KeyEnd(keys[i]) # "internal"
  PROVE  VerifyProof(values, keys, root.value, GenerateProof(keys)) <=> Accepts(keys, values)
<1> PICK proof : proof = GenerateProof(keys)
  OBVIOUS
<1> DEFINE E == UNION {ExpectedOf(keys[i], ByChunks(keys[i]), values[i], root.value,
                                  proof.commitments[i]) : i \in DOMAIN keys}
<1>1. /\ \A i \in DOMAIN keys :
           proof.commitments[i] = Tail(Refs(ProofWalk(StemOf(keys[i]))))
      /\ \A x : x \in proof.witness <=>
           \E i \in DOMAIN keys :
             x \in OpeningsAlong(keys[i], ByChunks(keys[i]), ProofWalk(StemOf(keys[i])))
  <2>1. \A i \in DOMAIN keys : Last(ProofWalk(StemOf(keys[i]))).node.type # "internal"
    BY EndOfWalk
  <2> QED
    BY <2>1, GeneratedProof
<1>2. \A x : x \in proof.witness <=> \E j \in DOMAIN keys : KeyShown(keys[j], x)
  <2>1. ASSUME NEW x, NEW i \in DOMAIN keys
        PROVE  x \in OpeningsAlong(keys[i], ByChunks(keys[i]), ProofWalk(StemOf(keys[i])))
                 <=> KeyShown(keys[i], x)
    BY ShownOfKey DEF KeyShown, KeyWalked
  <2> QED
    BY <1>1, <2>1
<1>3. \A e : e \in E <=> \E i \in DOMAIN keys : KeyExpects(keys[i], values[i], e)
  <2>1. ASSUME NEW e, NEW i \in DOMAIN keys
        PROVE  e \in ExpectedOf(keys[i], ByChunks(keys[i]), values[i], root.value,
                                proof.commitments[i])
                 <=> KeyExpects(keys[i], values[i], e)
    <3> PICK k, c : k = keys[i] /\ c = proof.commitments[i]
      OBVIOUS
    <3> PICK W, t : W = Walk(StemOf(k)) /\ t = Turns(StemOf(k))
      OBVIOUS
    <3>1. KeyPath(k, W, t) /\ c = Tail(Refs(ProofWalk(StemOf(k))))
      BY <1>1 DEF KeyWalked
    <3>2. Len(c) = t /\ \A n \in 1..t : c[n] = W[n].ref
      BY <3>1, CommitmentsOfKey, SMTT(20)
    <3>3. e \in ExpectedOf(k, ByChunks(k), values[i], root.value, c) <=> Expected(k, W, t, values[i], e)
      BY <3>1, <3>2, ExpectedOfKey
    <3> QED
      BY <3>3 DEF KeyExpects
  <2>2. \A e : e \in E <=> \E i \in DOMAIN keys :
                             e \in ExpectedOf(keys[i], ByChunks(keys[i]), values[i], root.value,
                                              proof.commitments[i])
    OBVIOUS
  <2> HIDE DEF E
  <2> QED
    BY <2>1, <2>2
<1>4. VerifyProof(values, keys, root.value, proof) <=> PairingHolds(E, proof.witness)
  BY DEF VerifyProof
<1> HIDE DEF E
<1> QED
  BY <1>2, <1>3, <1>4, PairingAccepts

\* Held values are accepted.
LEMMA HeldAccepted ==
  ASSUME NEW keys, \A i \in DOMAIN keys : KeyWalked(keys[i]),
         \A i \in DOMAIN keys : Contents(root.value)[keys[i]] # None,
         NEW values, \A i \in DOMAIN keys : values[i] = Contents(root.value)[keys[i]]
  PROVE  Accepts(keys, values)
<1>1. ASSUME NEW i \in DOMAIN keys, NEW e, KeyExpects(keys[i], values[i], e)
      PROVE  KeyShown(keys[i], e.opening) /\ Opened(e.opening.comm, e.opening.idx) = e.leaf
  <2> PICK k, W, t : k = keys[i] /\ W = Walk(StemOf(k)) /\ t = Turns(StemOf(k))
    OBVIOUS
  <2>1. KeyPath(k, W, t) /\ Contents(root.value)[k] # None /\ values[i] = Contents(root.value)[k]
    BY DEF KeyWalked
  <2>2. PICK m \in 0..t :
          e = [opening |-> Opening(k, m, W[m].ref, IndexByLevel(ByChunks(k), m, t)),
               leaf    |-> IF m < t THEN W[m + 1].ref ELSE FieldOfValue(values[i])]
    BY <1>1 DEF KeyExpects, Expected
  <2>3. /\ IndexByLevel(ByChunks(k), m, t) = IndexAt(W[m].node, ByChunks(k), m)
        /\ Opened(W[m].ref, IndexAt(W[m].node, ByChunks(k), m)) =
             IF m < t THEN W[m + 1].ref ELSE FieldOfValue(Contents(root.value)[k])
    BY <2>1, HonestKey
  <2> PICK idx : idx = IndexAt(W[m].node, ByChunks(k), m)
    OBVIOUS
  <2>4. e.opening = Opening(k, m, W[m].ref, idx)
        /\ e.leaf = IF m < t THEN W[m + 1].ref ELSE FieldOfValue(values[i])
    BY <2>2, <2>3
  <2>5. e.opening.comm = W[m].ref /\ e.opening.idx = idx
    BY <2>4 DEF Opening
  <2>6. Shown(k, W, t, e.opening)
    BY <2>4 DEF Shown
  <2> QED
    BY <2>1, <2>3, <2>4, <2>5, <2>6 DEF KeyShown
<1>2. ASSUME NEW j \in DOMAIN keys, NEW x, KeyShown(keys[j], x)
      PROVE  \E e : KeyExpects(keys[j], values[j], e) /\ e.opening = x
  <2> PICK k, W, t : k = keys[j] /\ W = Walk(StemOf(k)) /\ t = Turns(StemOf(k))
    OBVIOUS
  <2>1. KeyPath(k, W, t) /\ Contents(root.value)[k] # None
    BY DEF KeyWalked
  <2>2. PICK m \in 0..t : x = Opening(k, m, W[m].ref, IndexAt(W[m].node, ByChunks(k), m))
    BY <1>2 DEF KeyShown, Shown
  <2>3. IndexByLevel(ByChunks(k), m, t) = IndexAt(W[m].node, ByChunks(k), m)
    BY <2>1, HonestKey
  <2> PICK e : e = [opening |-> Opening(k, m, W[m].ref, IndexByLevel(ByChunks(k), m, t)),
                    leaf    |-> IF m < t THEN W[m + 1].ref ELSE FieldOfValue(values[j])]
    OBVIOUS
  <2>4. Expected(k, W, t, values[j], e)
    BY DEF Expected
  <2>5. e.opening = x
    BY <2>2, <2>3
  <2> QED
    BY <2>4, <2>5 DEF KeyExpects
<1> QED
  BY <1>1, <1>2 DEF Accepts

\* Accepted values are held.
LEMMA AcceptedHeld ==
  ASSUME ValuesTold, NEW keys, \A i \in DOMAIN keys : KeyWalked(keys[i]),
         \A i \in DOMAIN keys : KeyEnd(keys[i]) # "internal",
         NEW values, Accepts(keys, values), NEW i \in DOMAIN keys, values[i] \in Values
  PROVE  values[i] = Contents(root.value)[keys[i]]
<1> PICK k, W, t : k = keys[i] /\ W = Walk(StemOf(k)) /\ t = Turns(StemOf(k))
  OBVIOUS
<1>1. KeyPath(k, W, t)
  BY DEF KeyWalked
<1>2. W[t].node.type \in {"suffix", "extension"}
  <2>1. W[t].node.type # "internal"
    BY DEF KeyEnd
  <2>2. t \in 0..t
    BY <1>1 DEF KeyPath
  <2> QED
    BY <1>1, <2>1, <2>2 DEF KeyPath
<1>3. ASSUME NEW e, Expected(k, W, t, values[i], e)
      PROVE  Shown(k, W, t, e.opening) /\ Opened(e.opening.comm, e.opening.idx) = e.leaf
  <2>1. KeyExpects(keys[i], values[i], e)
    BY <1>3 DEF KeyExpects
  <2>2. Opened(e.opening.comm, e.opening.idx) = e.leaf
    BY <2>1 DEF Accepts
  <2>3. PICK j \in DOMAIN keys : KeyShown(keys[j], e.opening)
    BY <2>1 DEF Accepts
  <2>4. e.opening.key = k
    <3>1. PICK m \in 0..t : e.opening = Opening(k, m, W[m].ref, IndexByLevel(ByChunks(k), m, t))
      BY <1>3 DEF Expected
    <3> QED
      BY <3>1 DEF Opening
  <2>5. e.opening.key = keys[j]
    BY <2>3 DEF KeyShown, Shown, Opening
  <2> QED
    BY <2>2, <2>3, <2>4, <2>5 DEF KeyShown
<1> QED
  BY <1>1, <1>2, <1>3, VerifiedKey

-----------------------------------------------------------------------------
(* The multiproof, for present keys *)

\* The walk that compares no stems ends where the other does.
LEMMA LooseWalkIs ==
  ASSUME NEW k, KeyWalked(k), KeyEnd(k) = "suffix"
  PROVE  LooseWalk(ByChunks(k)) = ProofWalk(StemOf(k))
<1> PICK W, t, T : W = Walk(StemOf(k)) /\ t = Turns(StemOf(k)) /\ T = StemOf(k)
  OBVIOUS
<1>0. KeyPath(k, W, t) /\ t \in Nat /\ W[t].node.type = "suffix" /\ SuffixOf(k) \in Chunks
  BY DEF KeyWalked, KeyEnd, KeyPath
<1>1. /\ t >= 2 /\ LeftForSuffix(W, t - 1, t)
      /\ \A m \in 0..(t - 2) : LeftByChunk(k, W, m)
  BY <1>0, KindsOfPath
<1>2. t \in 0..NumChunks
  <2>1. t - 2 \in 0..(t - 2)
    BY <1>0, <1>1
  <2>2. t - 2 < StemLen
    BY <1>1, <2>1 DEF LeftByChunk
  <2>3. StemLen \in Nat \ {0} /\ NumChunks = StemLen + 1
    BY StemLenType, VerkleAssumption DEF VerkleAssumption, StemLen, NumChunks
  <2> QED
    BY <1>0, <2>2, <2>3
<1>3. ~LooseGoesOn(W[t], T)
  BY <1>0 DEF LooseGoesOn
<1>4. ASSUME NEW m \in 0..(t - 1) PROVE LooseGoesOn(W[m], T)
  <2>1. CASE m = t - 1
    BY <1>1, <2>1 DEF LeftForSuffix, LooseGoesOn
  <2>2. CASE m # t - 1
    <3>1. m \in 0..(t - 2)
      BY <1>0, <2>2
    <3>2. LeftByChunk(k, W, m)
      BY <1>1, <3>1
    <3>3. Len(T) = StemLen
      BY <1>0 DEF KeyPath
    <3> QED
      BY <3>2, <3>3 DEF LeftByChunk, LooseGoesOn, InRange
  <2> QED
    BY <2>1, <2>2
<1>5. LooseTurns(T) = t
  <2>1. \A n \in 0..NumChunks : (/\ ~LooseGoesOn(W[n], T)
                                 /\ \A m \in 0..(n - 1) : LooseGoesOn(W[m], T)) <=> n = t
    <3>1. ASSUME NEW n \in 0..NumChunks, n < t PROVE LooseGoesOn(W[n], T)
      <4>1. n \in 0..(t - 1)
        BY <1>0, <3>1
      <4> QED
        BY <1>4, <4>1
    <3>2. ASSUME NEW n \in 0..NumChunks, n > t PROVE \E m \in 0..(n - 1) : ~LooseGoesOn(W[m], T)
      <4>1. t \in 0..(n - 1)
        BY <1>0, <3>2
      <4> QED
        BY <1>3, <4>1
    <3>3. \A n \in 0..NumChunks : n < t \/ n = t \/ n > t
      BY <1>0, <1>2
    <3> QED
      BY <1>3, <1>4, <3>1, <3>2, <3>3
  <2> QED
    BY <1>2, <2>1 DEF LooseTurns
<1> PICK split : split = ByChunks(k)
  OBVIOUS
<1>6. split.stem = T /\ split.suffix = SuffixOf(k)
  BY DEF ByChunks
<1>7. LooseWalk(split) = [n \in 1..(t + 1) |-> W[n - 1]]
  BY <1>0, <1>5, <1>6 DEF LooseWalk
<1>8. ProofWalk(T) = [n \in 1..(t + 1) |-> W[n - 1]]
  BY DEF ProofWalk
<1> QED
  BY <1>7, <1>8

\* The steps of a path of a present key, told from its nodes.
LEMMA StepOfPath ==
  ASSUME NEW k, NEW W, NEW t, KeyPath(k, W, t), W[t].node.type = "suffix", NEW m \in 0..t,
         Contents(root.value)[k] # None,
         NEW s, s = TraversalStep(W[m], IndexAt(W[m].node, ByChunks(k), m)), NEW value
  PROVE  /\ s.comm = W[m].ref /\ s.idx = IndexByLevel(ByChunks(k), m, t)
         /\ StepLeaf(s, value) = IF m < t THEN W[m + 1].ref ELSE FieldOfValue(value)
<1> PICK idx : idx = IndexAt(W[m].node, ByChunks(k), m)
  OBVIOUS
<1>0. t \in Nat /\ ByChunks(k).stem = StemOf(k)
  BY DEF KeyPath, ByChunks
<1>1. s.comm = W[m].ref /\ s.idx = idx /\ s.type = W[m].node.type
  BY DEF TraversalStep
<1>2. idx = IndexByLevel(ByChunks(k), m, t)
  BY HonestKey
<1>3. /\ t >= 2 /\ LeftForSuffix(W, t - 1, t)
      /\ \A n \in 0..(t - 2) : LeftByChunk(k, W, n)
  BY KindsOfPath
<1>4. CASE m = t
  <2>1. ~(m < t)
    BY <1>0, <1>4
  <2> QED
    BY <1>1, <1>2, <1>4, <2>1 DEF StepLeaf
<1>5. CASE m = t - 1
  <2>1. m < t /\ m + 1 = t
    BY <1>0, <1>5
  <2>2. W[m].node.type = "extension" /\ FieldOfChild(W[m].node.child) = W[m + 1].ref
    BY <1>3, <1>5, <2>1 DEF LeftForSuffix
  <2>3. s.child = W[m + 1].ref
    BY <2>2 DEF TraversalStep
  <2> QED
    BY <1>1, <1>2, <2>1, <2>2, <2>3 DEF StepLeaf
<1>6. CASE m \in 0..(t - 2)
  <2>1. m < t
    BY <1>0, <1>6
  <2>2. LeftByChunk(k, W, m)
    BY <1>3, <1>6
  <2>3. W[m].node.type = "internal" /\ FieldOfChild(W[m].node.children[StemOf(k)[m + 1]]) = W[m + 1].ref
    BY <2>2 DEF LeftByChunk
  <2>4. idx = StemOf(k)[m + 1]
    BY <1>0, <2>3 DEF IndexAt
  <2>5. s.child = W[m + 1].ref
    BY <2>3, <2>4 DEF TraversalStep
  <2> QED
    BY <1>1, <1>2, <2>1, <2>3, <2>5 DEF StepLeaf
<1> QED
  <2>1. m = t \/ m = t - 1 \/ m \in 0..(t - 2)
    BY <1>0, <1>3
  <2> QED
    BY <1>4, <1>5, <1>6, <2>1

\* What the verifier of a multiproof makes of the path of a key.
FromPath(k, path, value, e) ==
  \E n \in DOMAIN path : e = [opening |-> Opening(k, n - 1, path[n].comm, path[n].idx),
                              leaf    |-> StepLeaf(path[n], value)]

\* The verifier of a multiproof expects of a spelled-out path what the other does.
LEMMA PathExpects ==
  ASSUME NEW k, KeyWalked(k), Contents(root.value)[k] # None, NEW value, NEW e, NEW path,
         path = [n \in DOMAIN ProofWalk(StemOf(k)) |->
                  TraversalStep(ProofWalk(StemOf(k))[n],
                                IndexAt(ProofWalk(StemOf(k))[n].node, ByChunks(k), n - 1))]
  PROVE  FromPath(k, path, value, e) <=> KeyExpects(k, value, e)
<1> PICK W, t : W = Walk(StemOf(k)) /\ t = Turns(StemOf(k))
  OBVIOUS
<1>0. KeyPath(k, W, t) /\ t \in Nat /\ W[t].node.type = "suffix"
  BY DEF KeyWalked, KeyPath, Value
<1> PICK nodes : nodes = ProofWalk(StemOf(k))
  OBVIOUS
<1>1. DOMAIN nodes = 1..(t + 1) /\ \A n \in 1..(t + 1) : nodes[n] = W[n - 1]
  BY <1>0, ProofWalkIs
<1>2. DOMAIN path = 1..(t + 1)
  BY <1>1
<1> DEFINE Elem(n) == [opening |-> Opening(k, n - 1, path[n].comm, path[n].idx),
                       leaf    |-> StepLeaf(path[n], value)]
           Want(m) == [opening |-> Opening(k, m, W[m].ref, IndexByLevel(ByChunks(k), m, t)),
                       leaf    |-> IF m < t THEN W[m + 1].ref ELSE FieldOfValue(value)]
<1>3. ASSUME NEW n \in 1..(t + 1) PROVE Elem(n) = Want(n - 1)
  <2> PICK m : m = n - 1
    OBVIOUS
  <2>1. m \in 0..t
    BY <1>0
  <2>2. path[n] = TraversalStep(W[m], IndexAt(W[m].node, ByChunks(k), m))
    BY <1>1
  <2>3. /\ path[n].comm = W[m].ref /\ path[n].idx = IndexByLevel(ByChunks(k), m, t)
        /\ StepLeaf(path[n], value) = IF m < t THEN W[m + 1].ref ELSE FieldOfValue(value)
    BY <1>0, <2>1, <2>2, StepOfPath
  <2> QED
    BY <2>3
<1>4. /\ \A n \in 1..(t + 1) : n - 1 \in 0..t
      /\ \A m \in 0..t : m + 1 \in 1..(t + 1) /\ (m + 1) - 1 = m
  BY <1>0
<1>5. FromPath(k, path, value, e) <=> \E n \in 1..(t + 1) : e = Elem(n)
  BY <1>2 DEF FromPath
<1>6. KeyExpects(k, value, e) <=> \E m \in 0..t : e = Want(m)
  BY DEF KeyExpects, Expected
<1> HIDE DEF Elem, Want
<1> QED
  BY <1>3, <1>4, <1>5, <1>6

\* The multiproof of present keys is accepted when the plain proof is.
LEMMA MultiproofAccepted ==
  ASSUME NEW keys, NEW values, \A i \in DOMAIN keys : KeyWalked(keys[i]),
         \A i \in DOMAIN keys : Contents(root.value)[keys[i]] # None
  PROVE  VerifyMultiproof(values, keys, GenerateMultiproof(keys)) <=> Accepts(keys, values)
<1> PICK multi : multi = GenerateMultiproof(keys)
  OBVIOUS
<1> DEFINE walks == [i \in DOMAIN keys |-> LooseWalk(ByChunks(keys[i]))]
           paths == [i \in DOMAIN keys |->
                      [n \in DOMAIN walks[i] |->
                        TraversalStep(walks[i][n], IndexAt(walks[i][n].node, ByChunks(keys[i]), n - 1))]]
           wit == UNION {OpeningsAlong(keys[i], ByChunks(keys[i]), walks[i]) : i \in DOMAIN keys}
           E == UNION {{[opening |-> Opening(keys[i], n - 1, multi.traversals[i][n].comm,
                                             multi.traversals[i][n].idx),
                         leaf    |-> StepLeaf(multi.traversals[i][n], values[i])]
                          : n \in DOMAIN multi.traversals[i]} : i \in DOMAIN keys}
<1>1. multi.traversals = paths /\ multi.witness = wit
  BY DEF GenerateMultiproof
<1>2. \A i \in DOMAIN keys : walks[i] = ProofWalk(StemOf(keys[i]))
  <2>1. ASSUME NEW i \in DOMAIN keys PROVE LooseWalk(ByChunks(keys[i])) = ProofWalk(StemOf(keys[i]))
    <3>1. KeyWalked(keys[i]) /\ KeyEnd(keys[i]) = "suffix"
      BY DEF KeyWalked, KeyPath, Value, KeyEnd
    <3> QED
      BY <3>1, LooseWalkIs
  <2> QED
    BY <2>1
<1>3. \A i \in DOMAIN keys :
        paths[i] = [n \in DOMAIN walks[i] |->
                     TraversalStep(walks[i][n], IndexAt(walks[i][n].node, ByChunks(keys[i]), n - 1))]
  <2> HIDE DEF walks
  <2> QED
    OBVIOUS
<1>4. \A x : x \in wit <=> \E i \in DOMAIN keys :
                             x \in OpeningsAlong(keys[i], ByChunks(keys[i]), walks[i])
  <2> HIDE DEF walks
  <2> QED
    OBVIOUS
<1>5. \A e : e \in E <=> \E i \in DOMAIN keys : FromPath(keys[i], multi.traversals[i], values[i], e)
  BY DEF FromPath
<1>6. VerifyMultiproof(values, keys, multi) <=> PairingHolds(E, multi.witness)
  BY DEF VerifyMultiproof
<1> HIDE DEF walks, paths, wit, E
<1>7. \A x : x \in multi.witness <=> \E j \in DOMAIN keys : KeyShown(keys[j], x)
  <2>1. ASSUME NEW x, NEW i \in DOMAIN keys
        PROVE  x \in OpeningsAlong(keys[i], ByChunks(keys[i]), walks[i]) <=> KeyShown(keys[i], x)
    <3>1. x \in OpeningsAlong(keys[i], ByChunks(keys[i]), ProofWalk(StemOf(keys[i])))
            <=> KeyShown(keys[i], x)
      BY ShownOfKey DEF KeyShown, KeyWalked
    <3> QED
      BY <1>2, <3>1
  <2> QED
    BY <1>1, <1>4, <2>1
<1>8. \A e : e \in E <=> \E i \in DOMAIN keys : KeyExpects(keys[i], values[i], e)
  <2>1. ASSUME NEW e, NEW i \in DOMAIN keys
        PROVE  FromPath(keys[i], paths[i], values[i], e) <=> KeyExpects(keys[i], values[i], e)
    <3> PICK k, path, nodes : k = keys[i] /\ path = paths[i] /\ nodes = ProofWalk(StemOf(k))
      OBVIOUS
    <3>1. path = [n \in DOMAIN nodes |->
                   TraversalStep(nodes[n], IndexAt(nodes[n].node, ByChunks(k), n - 1))]
      BY <1>2, <1>3
    <3>2. KeyWalked(k) /\ Contents(root.value)[k] # None
      OBVIOUS
    <3>3. FromPath(k, path, values[i], e) <=> KeyExpects(k, values[i], e)
      BY <3>1, <3>2, PathExpects
    <3> QED
      BY <3>3
  <2> QED
    BY <1>1, <1>5, <2>1
<1> QED
  BY <1>6, <1>7, <1>8, PairingAccepts

-----------------------------------------------------------------------------
(* Proofs are accepted exactly with the values held *)

\* The lists of keys and the walks for them.
LEMMA ListsOfKeys ==
  ASSUME NEW keys \in KeyLists
  PROVE  \A i \in DOMAIN keys : keys[i] \in Keys
<1>1. CASE \E k \in Keys : keys = <<k>>
  BY <1>1
<1>2. CASE \E p \in Keys \X Keys : keys = <<p[1], p[2]>>
  BY <1>2
<1> QED
  BY <1>1, <1>2 DEF KeyLists

\* The walks for all keys of a list are paths.
LEMMA KeysWalked ==
  ASSUME NoneIsUnlike, ValuesFit, IInv, RootLoaded, SuffixesOK, Ready, NEW keys \in KeyLists
  PROVE  \A i \in DOMAIN keys : KeyWalked(keys[i])
<1> SUFFICES ASSUME NEW i \in DOMAIN keys PROVE KeyWalked(keys[i])
  OBVIOUS
<1>1. keys[i] \in Keys
  BY ListsOfKeys
<1> QED
  BY <1>1, PathOfKey DEF KeyWalked

\* A present key's path ends at its suffix node.
LEMMA PresentEnds ==
  ASSUME NEW k, KeyWalked(k), Contents(root.value)[k] # None
  PROVE  KeyEnd(k) = "suffix"
  BY DEF KeyWalked, KeyPath, Value, KeyEnd

\* Honest proofs verify under the invariant.
LEMMA InvariantVerifiesHonest ==
  ASSUME NoneIsUnlike, ValuesFit, RaisedIsUnlike, IInv, RootLoaded, SuffixesOK
  PROVE  HonestProofsVerify
<1> SUFFICES ASSUME Ready, NEW keys \in KeyLists, AllPresent(keys)
             PROVE  /\ GenerateProof(keys) # Raised
                    /\ VerifyProof(Held(keys), keys, RootRef, GenerateProof(keys))
                    /\ VerifyMultiproof(Held(keys), keys, GenerateMultiproof(keys))
  BY DEF HonestProofsVerify
<1>1. RootRef = root.value
  BY DEF Ready, RootRef
<1>2. /\ \A i \in DOMAIN keys : KeyWalked(keys[i])
      /\ \A i \in DOMAIN keys : Contents(root.value)[keys[i]] # None
  BY <1>1, KeysWalked DEF AllPresent
<1>3. \A i \in DOMAIN keys : KeyEnd(keys[i]) # "internal"
  BY <1>2, PresentEnds
<1>4. GenerateProof(keys) # Raised
  <2> PICK proof : proof = GenerateProof(keys)
    OBVIOUS
  <2>1. \A i \in DOMAIN keys : Last(ProofWalk(StemOf(keys[i]))).node.type # "internal"
    BY <1>2, <1>3, EndOfWalk
  <2>2. proof = [commitments |-> proof.commitments, witness |-> proof.witness]
    BY <2>1, GeneratedProof
  <2> QED
    BY <2>2 DEF RaisedIsUnlike
<1> PICK values : values = Held(keys)
  OBVIOUS
<1>5. \A i \in DOMAIN keys : values[i] = Contents(root.value)[keys[i]]
  BY <1>1 DEF Held
<1>6. Accepts(keys, values)
  BY <1>2, <1>5, HeldAccepted
<1>7. VerifyProof(values, keys, root.value, GenerateProof(keys))
  BY <1>2, <1>3, <1>6, ProofAccepted
<1>8. VerifyMultiproof(values, keys, GenerateMultiproof(keys))
  BY <1>2, <1>6, MultiproofAccepted
<1> QED
  BY <1>1, <1>4, <1>7, <1>8

\* Verified values are held under the invariant.
LEMMA InvariantHoldsVerified ==
  ASSUME NoneIsUnlike, ValuesFit, ValuesTold, IInv, RootLoaded, SuffixesOK
  PROVE  VerifiedValuesAreHeld
<1> SUFFICES ASSUME Ready, NEW keys \in KeyLists, NEW values \in [DOMAIN keys -> Values],
                    \/ /\ GenerateProof(keys) # Raised
                       /\ VerifyProof(values, keys, RootRef, GenerateProof(keys))
                    \/ /\ AllPresent(keys)
                       /\ VerifyMultiproof(values, keys, GenerateMultiproof(keys))
             PROVE  values = Held(keys)
  BY DEF VerifiedValuesAreHeld
<1>1. RootRef = root.value
  BY DEF Ready, RootRef
<1>2. \A i \in DOMAIN keys : KeyWalked(keys[i])
  BY KeysWalked
<1>3. (\A i \in DOMAIN keys : KeyEnd(keys[i]) # "internal") /\ Accepts(keys, values)
  <2>1. CASE /\ GenerateProof(keys) # Raised
             /\ VerifyProof(values, keys, RootRef, GenerateProof(keys))
    <3>1. \A i \in DOMAIN keys : Last(ProofWalk(StemOf(keys[i]))).node.type # "internal"
      BY <2>1, GeneratedProof
    <3>2. \A i \in DOMAIN keys : KeyEnd(keys[i]) # "internal"
      BY <1>2, <3>1, EndOfWalk
    <3>3. Accepts(keys, values)
      BY <1>1, <1>2, <2>1, <3>2, ProofAccepted
    <3> QED
      BY <3>2, <3>3
  <2>2. CASE /\ AllPresent(keys)
             /\ VerifyMultiproof(values, keys, GenerateMultiproof(keys))
    <3>1. \A i \in DOMAIN keys : Contents(root.value)[keys[i]] # None
      BY <1>1, <2>2 DEF AllPresent
    <3>2. \A i \in DOMAIN keys : KeyEnd(keys[i]) # "internal"
      BY <1>2, <3>1, PresentEnds
    <3>3. Accepts(keys, values)
      BY <1>2, <2>2, <3>1, MultiproofAccepted
    <3> QED
      BY <3>2, <3>3
  <2> QED
    BY <2>1, <2>2
<1>4. ASSUME NEW i \in DOMAIN keys PROVE values[i] = Contents(root.value)[keys[i]]
  <2>1. values[i] \in Values
    OBVIOUS
  <2> QED
    BY <1>2, <1>3, <2>1, AcceptedHeld
<1> PICK held : held = [i \in DOMAIN keys |-> Contents(root.value)[keys[i]]]
  OBVIOUS
<1>5. Held(keys) = held
  BY <1>1 DEF Held
<1>6. values = [i \in DOMAIN keys |-> values[i]]
  OBVIOUS
<1> QED
  BY <1>4, <1>5, <1>6

\* The invariant of the proofs: the roots are loaded and the suffix nodes read
\* back as they were committed to.
LEMMA ReadingInvariant ==
  ASSUME NoneIsUnlike, ValuesFit
  PROVE  Spec => [](IInv /\ RootLoaded /\ SuffixesOK)
<1>1. Init => IInv /\ RootLoaded /\ SuffixesOK
  BY InvariantInitially DEF Init, RootLoaded, SuffixesOK
<1>2. IInv /\ RootLoaded /\ SuffixesOK /\ [Next]_vars => (IInv /\ RootLoaded /\ SuffixesOK)'
  BY InvariantKept, RootLoadedKept, SuffixesKept
<1> QED
  BY <1>1, <1>2, PTL DEF Spec

\* What prove_verify.py asserts of verkle_proof.py and verkle_multiproof.py: a
\* proof generated for keys of the tree, and the multiproof for them, is
\* accepted by its verifier with the values the tree holds, after any inserts,
\* crashes and restarts.
THEOREM HonestProofsAlwaysVerify ==
  ASSUME NoneIsUnlike, ValuesFit, RaisedIsUnlike
  PROVE  Spec => []HonestProofsVerify
<1>1. Spec => [](IInv /\ RootLoaded /\ SuffixesOK)
  BY ReadingInvariant
<1>2. IInv /\ RootLoaded /\ SuffixesOK => HonestProofsVerify
  BY InvariantVerifiesHonest
<1> QED
  BY <1>1, <1>2, PTL

\* What the verifiers of verkle_proof.py and verkle_multiproof.py are for: with
\* values the tree does not hold, none of them accepts what generate_proof
\* returns for the keys, be they present or not (the multiproof: present).
THEOREM VerifiedValuesAreAlwaysHeld ==
  ASSUME NoneIsUnlike, ValuesFit, ValuesTold
  PROVE  Spec => []VerifiedValuesAreHeld
<1>1. Spec => [](IInv /\ RootLoaded /\ SuffixesOK)
  BY ReadingInvariant
<1>2. IInv /\ RootLoaded /\ SuffixesOK => VerifiedValuesAreHeld
  BY InvariantHoldsVerified
<1> QED
  BY <1>1, <1>2, PTL

-----------------------------------------------------------------------------
(* The deduplicated proof *)

\* A function made step by step.
Steps(S, N, step) == N \in Nat /\ step \in [1..N -> [S -> S]]
Made(S, first, N, step, f) ==
  f \in [0..N -> S] /\ f[0] = first /\ \A n \in 1..N : f[n] = step[n][f[n - 1]]

LEMMA Recursion ==
  ASSUME NEW S, NEW first \in S, NEW N, NEW step, Steps(S, N, step)
  PROVE  \E f : Made(S, first, N, step, f)
<1>0. N \in Nat /\ step \in [1..N -> [S -> S]]
  BY DEF Steps
<1> DEFINE Upto(M, f) == f \in [0..M -> S] /\ f[0] = first /\ \A n \in 1..M : f[n] = step[n][f[n - 1]]
           T == {M \in Nat : M <= N => \E f : Upto(M, f)}
<1>1. 0 \in T
  <2>1. Upto(0, [m \in 0..0 |-> first])
    OBVIOUS
  <2> QED
    BY <2>1
<1>2. ASSUME NEW M \in Nat, M \in T PROVE M + 1 \in T
  <2> SUFFICES ASSUME M + 1 <= N PROVE \E f : Upto(M + 1, f)
    OBVIOUS
  <2>1. PICK f : Upto(M, f)
    BY <1>0, <1>2
  <2>2. M \in 0..M /\ M + 1 \in 1..N /\ f[M] \in S
    BY <1>0, <2>1
  <2> PICK last : last = step[M + 1][f[M]]
    OBVIOUS
  <2>3. last \in S
    BY <1>0, <2>2
  <2> PICK g : g = [m \in 0..(M + 1) |-> IF m = M + 1 THEN last ELSE f[m]]
    OBVIOUS
  <2>4. \A m \in 0..(M + 1) : m # M + 1 => m \in 0..M /\ g[m] = f[m]
    OBVIOUS
  <2>5. g \in [0..(M + 1) -> S]
    BY <2>1, <2>3, <2>4
  <2>6. g[0] = first
    BY <2>1, <2>4
  <2>7. ASSUME NEW n \in 1..(M + 1) PROVE g[n] = step[n][g[n - 1]]
    <3>1. n - 1 \in 0..M /\ n - 1 # M + 1 /\ n - 1 \in 0..(M + 1)
      OBVIOUS
    <3>2. g[n - 1] = f[n - 1]
      BY <3>1
    <3>3. CASE n = M + 1
      BY <3>2, <3>3
    <3>4. CASE n # M + 1
      <4>1. n \in 1..M /\ n \in 0..(M + 1)
        BY <3>4
      <4> QED
        BY <2>1, <3>2, <3>4, <4>1
    <3> QED
      BY <3>3, <3>4
  <2>8. Upto(M + 1, g)
    BY <2>5, <2>6, <2>7
  <2> HIDE DEF Upto
  <2> QED
    BY <2>8
<1>3. N \in T
  <2> HIDE DEF T
  <2>1. Nat \subseteq T
    BY <1>1, <1>2, SetInduction
  <2> QED
    BY <1>0, <2>1
<1>4. \E f : Upto(N, f)
  BY <1>0, <1>3
<1> QED
  BY <1>0, <1>4 DEF Made

\* An element of a list.
Lists(list, x) == \E i \in DOMAIN list : list[i] = x

\* A list stays without repetitions when something new is added.
LEMMA AppendOnce ==
  ASSUME NEW S, NEW l \in Seq(S), NEW r \in S, IsInjective(l), ~Contains(l, r)
  PROVE  IsInjective(Append(l, r))
<1> PICK f : f = Append(l, r)
  OBVIOUS
<1>1. /\ DOMAIN f = 1..(Len(l) + 1) /\ DOMAIN l = 1..Len(l) /\ Len(l) \in Nat
      /\ f[Len(l) + 1] = r /\ \A i \in 1..Len(l) : f[i] = l[i]
  OBVIOUS
<1>2. \A i \in 1..(Len(l) + 1) : i \in 1..Len(l) \/ i = Len(l) + 1
  BY <1>1
<1>3. \A i \in 1..Len(l) : l[i] # r
  BY <1>1 DEF Contains
<1>4. \A a, b \in DOMAIN l : l[a] = l[b] => a = b
  BY DEF IsInjective
<1>5. \A a, b \in DOMAIN f : f[a] = f[b] => a = b
  BY <1>1, <1>2, <1>3, <1>4
<1> QED
  BY <1>5 DEF IsInjective

\* A list to which references are added has them and what it had, each once.
LEMMA ListedHas ==
  ASSUME NEW S, NEW list \in Seq(S), NEW refs \in Seq(S)
  PROVE  /\ Listed(list, refs) \in Seq(S)
         /\ \A x : Lists(Listed(list, refs), x) <=> Lists(list, x) \/ Lists(refs, x)
         /\ IsInjective(list) => IsInjective(Listed(list, refs))
<1> PICK N : N = Len(refs)
  OBVIOUS
<1>0. N \in Nat /\ DOMAIN refs = 1..N /\ \A n \in 1..N : refs[n] \in S
  OBVIOUS
<1> DEFINE Grown(l, n) == IF Contains(l, refs[n]) THEN l ELSE Append(l, refs[n])
           step == [n \in 1..N |-> [l \in Seq(S) |-> Grown(l, n)]]
           Body(f, n) == IF n = 0 THEN list ELSE Grown(f[n - 1], n)
           upto == CHOOSE f : f = [n \in 0..N |-> Body(f, n)]
<1>1. \A l \in Seq(S), n \in 1..N : Grown(l, n) \in Seq(S)
  BY <1>0
<1>2. \E f \in [0..N -> Seq(S)] : f[0] = list /\ \A n \in 1..N : f[n] = step[n][f[n - 1]]
  <2>1. step \in [1..N -> [Seq(S) -> Seq(S)]]
    <3> HIDE DEF Grown
    <3> QED
      BY <1>1
  <2> HIDE DEF step
  <2>2. Steps(Seq(S), N, step)
    BY <1>0, <2>1 DEF Steps
  <2>3. \E f : Made(Seq(S), list, N, step, f)
    BY <2>2, Recursion
  <2> QED
    BY <2>3 DEF Made
<1>3. PICK g \in [0..N -> Seq(S)] : g[0] = list /\ \A n \in 1..N : g[n] = Grown(g[n - 1], n)
  <2>1. PICK f \in [0..N -> Seq(S)] : f[0] = list /\ \A n \in 1..N : f[n] = step[n][f[n - 1]]
    BY <1>2
  <2>2. ASSUME NEW n \in 1..N PROVE f[n] = Grown(f[n - 1], n)
    <3>1. n - 1 \in 0..N
      BY <1>0
    <3>2. f[n - 1] \in Seq(S)
      BY <3>1
    <3> HIDE DEF Grown
    <3> QED
      BY <2>1, <3>2
  <2> HIDE DEF Grown
  <2> QED
    BY <2>1, <2>2
<1>4. upto = [n \in 0..N |-> Body(upto, n)]
  <2>1. g = [n \in 0..N |-> Body(g, n)]
    <3>1. \A n \in 0..N : n # 0 => n \in 1..N
      BY <1>0
    <3> HIDE DEF Grown
    <3> QED
      BY <1>3, <3>1
  <2> HIDE DEF Body
  <2> QED
    BY <2>1
<1>5. Listed(list, refs) = upto[N]
  BY DEF Listed
<1> HIDE DEF upto
<1> DEFINE Has(l, x) == \E i \in DOMAIN l : l[i] = x
           Good(n) == /\ upto[n] \in Seq(S)
                      /\ \A x : Has(upto[n], x) <=> Has(list, x) \/ \E i \in 1..n : refs[i] = x
                      /\ IsInjective(list) => IsInjective(upto[n])
           T == {n \in Nat : n <= N => Good(n)}
<1>6. 0 \in T
  <2>1. upto[0] = list
    BY <1>0, <1>4
  <2> QED
    BY <2>1
<1>7. ASSUME NEW n \in Nat, n \in T PROVE n + 1 \in T
  <2> SUFFICES ASSUME n + 1 <= N PROVE Good(n + 1)
    OBVIOUS
  <2>1. n + 1 \in 1..N /\ n + 1 \in 0..N /\ n + 1 # 0 /\ (n + 1) - 1 = n
    BY <1>0
  <2> PICK l, r : l = upto[n] /\ r = refs[n + 1]
    OBVIOUS
  <2>2. upto[n + 1] = IF Contains(l, r) THEN l ELSE Append(l, r)
    BY <1>4, <2>1
  <2>3. /\ l \in Seq(S) /\ r \in S /\ \A x : Has(l, x) <=> Has(list, x) \/ \E i \in 1..n : refs[i] = x
        /\ IsInjective(list) => IsInjective(l)
    <3>1. Good(n)
      BY <1>0, <1>7
    <3>2. r \in S
      BY <1>0, <2>1
    <3> HIDE DEF Has
    <3> QED
      BY <3>1, <3>2
  <2>4. Contains(l, r) <=> Has(l, r)
    <3>1. DOMAIN l = 1..Len(l)
      BY <2>3
    <3> QED
      BY <3>1 DEF Contains
  <2>5. upto[n + 1] \in Seq(S)
    BY <2>2, <2>3
  <2>6. ASSUME NEW x PROVE Has(upto[n + 1], x) <=> Has(l, x) \/ x = r
    <3>1. CASE Contains(l, r)
      <4> HIDE DEF Has
      <4> QED
        BY <2>2, <2>4, <3>1
    <3>2. CASE ~Contains(l, r)
      <4>1. upto[n + 1] = Append(l, r)
        BY <2>2, <3>2
      <4>2. /\ DOMAIN Append(l, r) = 1..(Len(l) + 1) /\ DOMAIN l = 1..Len(l) /\ Len(l) \in Nat
            /\ \A i \in 1..Len(l) : Append(l, r)[i] = l[i]
            /\ Append(l, r)[Len(l) + 1] = r
        BY <2>3
      <4>3. \A i \in 1..(Len(l) + 1) : i \in 1..Len(l) \/ i = Len(l) + 1
        BY <4>2
      <4>4. Len(l) + 1 \in 1..(Len(l) + 1) /\ \A i \in 1..Len(l) : i \in 1..(Len(l) + 1)
        BY <4>2
      <4> QED
        BY <4>1, <4>2, <4>3, <4>4
    <3> QED
      BY <3>1, <3>2
  <2>7. ASSUME NEW x PROVE (\E i \in 1..(n + 1) : refs[i] = x) <=> (\E i \in 1..n : refs[i] = x) \/ x = r
    <3>1. \A i \in 1..(n + 1) : i \in 1..n \/ i = n + 1
      OBVIOUS
    <3>2. n + 1 \in 1..(n + 1) /\ \A i \in 1..n : i \in 1..(n + 1)
      OBVIOUS
    <3> QED
      BY <3>1, <3>2
  <2>8. IsInjective(list) => IsInjective(upto[n + 1])
    BY <2>2, <2>3, AppendOnce
  <2> HIDE DEF Has
  <2> QED
    BY <2>3, <2>5, <2>6, <2>7, <2>8
<1>8. Good(N)
  <2> HIDE DEF T, Good
  <2>1. N \in T
    BY <1>0, <1>6, <1>7, SetInduction
  <2> QED
    BY <1>0, <2>1 DEF T
<1> PICK res : res = upto[N]
  OBVIOUS
<1>9. /\ res \in Seq(S)
      /\ \A x : Has(res, x) <=> Has(list, x) \/ \E i \in DOMAIN refs : refs[i] = x
      /\ IsInjective(list) => IsInjective(res)
  BY <1>0, <1>8
<1> QED
  BY <1>5, <1>9 DEF Lists

\* The list of commitments has those of all walks but the root's, each from the
\* second place on.
LEMMA CommitmentListHas ==
  ASSUME NEW S, NEW walks, NEW N \in Nat, Len(walks) = N,
         \A i \in 1..N : Tail(Refs(walks[i])) \in Seq(S)
  PROVE  /\ CommitmentList(walks) \in Seq(S)
         /\ \A x : Lists(CommitmentList(walks), x) <=> \E i \in 1..N : Lists(Tail(Refs(walks[i])), x)
         /\ IsInjective(CommitmentList(walks))
<1>0. \A l \in Seq(S), r \in Seq(S) :
        /\ Listed(l, r) \in Seq(S)
        /\ \A x : Lists(Listed(l, r), x) <=> Lists(l, x) \/ Lists(r, x)
        /\ IsInjective(l) => IsInjective(Listed(l, r))
  BY ListedHas
<1> DEFINE Refs_(n) == Tail(Refs(walks[n]))
           Grown(l, n) == Listed(l, Refs_(n))
           step == [n \in 1..N |-> [l \in Seq(S) |-> Grown(l, n)]]
           Body(f, n) == IF n = 0 THEN <<>> ELSE Grown(f[n - 1], n)
           upto == CHOOSE f : f = [n \in 0..N |-> Body(f, n)]
<1>1. \A l \in Seq(S), n \in 1..N : Grown(l, n) \in Seq(S)
  BY ListedHas
<1>2. \E f : Made(Seq(S), <<>>, N, step, f)
  <2>1. step \in [1..N -> [Seq(S) -> Seq(S)]]
    <3> HIDE DEF Grown
    <3> QED
      BY <1>1
  <2> HIDE DEF step
  <2>2. Steps(Seq(S), N, step)
    BY <2>1 DEF Steps
  <2>3. <<>> \in Seq(S)
    OBVIOUS
  <2> QED
    BY <2>2, <2>3, Recursion
<1>3. PICK g \in [0..N -> Seq(S)] : g[0] = <<>> /\ \A n \in 1..N : g[n] = Grown(g[n - 1], n)
  <2>1. PICK f \in [0..N -> Seq(S)] : f[0] = <<>> /\ \A n \in 1..N : f[n] = step[n][f[n - 1]]
    <3> HIDE DEF step
    <3> QED
      BY <1>2 DEF Made
  <2>2. ASSUME NEW n \in 1..N PROVE f[n] = Grown(f[n - 1], n)
    <3>1. n - 1 \in 0..N
      OBVIOUS
    <3>2. f[n - 1] \in Seq(S)
      BY <3>1
    <3> HIDE DEF Grown
    <3> QED
      BY <2>1, <3>2
  <2> HIDE DEF Grown
  <2> QED
    BY <2>1, <2>2
<1>4. upto = [n \in 0..N |-> Body(upto, n)]
  <2>1. g = [n \in 0..N |-> Body(g, n)]
    <3>1. \A n \in 0..N : n # 0 => n \in 1..N
      OBVIOUS
    <3> HIDE DEF Grown
    <3> QED
      BY <1>3, <3>1
  <2> HIDE DEF Body
  <2> QED
    BY <2>1
<1>5. CommitmentList(walks) = upto[N]
  BY DEF CommitmentList
<1> HIDE DEF upto
<1> DEFINE Among(n, x) == \E i \in 1..n : Lists(Refs_(i), x)
           Good(n) == /\ upto[n] \in Seq(S) /\ \A x : Lists(upto[n], x) <=> Among(n, x)
                      /\ IsInjective(upto[n])
           T == {n \in Nat : n <= N => Good(n)}
<1>6. 0 \in T
  <2>1. upto[0] = <<>>
    <3>1. 0 \in 0..N
      OBVIOUS
    <3> HIDE DEF Grown
    <3> QED
      BY <1>4, <3>1
  <2>2. Good(0)
    BY <2>1 DEF Lists, IsInjective
  <2> QED
    BY <2>2
<1>7. ASSUME NEW n \in Nat, n \in T PROVE n + 1 \in T
  <2> SUFFICES ASSUME n + 1 <= N PROVE Good(n + 1)
    OBVIOUS
  <2>1. n + 1 \in 1..N /\ n + 1 \in 0..N /\ n + 1 # 0 /\ (n + 1) - 1 = n
    OBVIOUS
  <2>0. PICK l, r : l = upto[n] /\ r = Refs_(n + 1)
    OBVIOUS
  <2>2. upto[n + 1] = Listed(l, r)
    BY <1>4, <2>0, <2>1
  <2>3. l \in Seq(S) /\ r \in Seq(S) /\ (\A x : Lists(l, x) <=> Among(n, x)) /\ IsInjective(l)
    <3>1. Good(n)
      BY <1>7
    <3>2. r \in Seq(S)
      BY <2>0, <2>1
    <3> HIDE DEF Among
    <3> QED
      BY <2>0, <3>1, <3>2
  <2>4. /\ Listed(l, r) \in Seq(S) /\ \A x : Lists(Listed(l, r), x) <=> Lists(l, x) \/ Lists(r, x)
        /\ IsInjective(Listed(l, r))
    <3>1. l \in Seq(S) /\ r \in Seq(S) /\ IsInjective(l)
      BY <2>3
    <3> HIDE DEF Among
    <3> QED
      BY <1>0, <3>1
  <2>5. ASSUME NEW x PROVE Among(n + 1, x) <=> Among(n, x) \/ Lists(r, x)
    <3>1. \A i \in 1..(n + 1) : i \in 1..n \/ i = n + 1
      OBVIOUS
    <3>2. n + 1 \in 1..(n + 1) /\ \A i \in 1..n : i \in 1..(n + 1)
      OBVIOUS
    <3> QED
      BY <2>0, <3>1, <3>2
  <2> HIDE DEF Among
  <2> QED
    BY <2>2, <2>3, <2>4, <2>5
<1>8. Good(N)
  <2> HIDE DEF T, Good
  <2>1. N \in T
    BY <1>6, <1>7, SetInduction
  <2> QED
    BY <2>1 DEF T
<1> PICK res : res = upto[N]
  OBVIOUS
<1>9. /\ res \in Seq(S)
      /\ \A x : Lists(res, x) <=> \E i \in 1..N : Lists(Refs_(i), x)
      /\ IsInjective(res)
  BY <1>8
<1> QED
  BY <1>5, <1>9

\* No node below the root has its reference: heights fall along a path.
LEMMA RootIsAbove ==
  ASSUME NoneIsUnlike, IInv, RootLoaded, Ready, NEW k \in Keys,
         NEW t, t = Turns(StemOf(k)), NEW W, W = Walk(StemOf(k)), NEW m \in 1..t
  PROVE  W[m].ref # root.value
<1> PICK H : Consistent(H)
  BY DEF IInv
<1>0. pc = "ready" /\ root # None /\ root.value # None
  BY DEF Ready, RootRef
<1>1. /\ Trees(db, H) /\ FullTree(db, H, root.value) /\ root.node = db[root.value]
  BY <1>0, LoadedRoot
<1>2. /\ t \in 0..NumChunks
      /\ \A n \in 0..(t - 1) : GoesOn(W[n], StemOf(k))
      /\ \A n \in 0..t : OnPath(H, root.value, k, W[n], n)
  BY <1>1, WalkOnPath
<1>3. /\ StemLen \in Nat \ {0} /\ NumChunks \in Nat /\ \A ref \in DOMAIN db : H[ref] \in Nat
  BY <1>1, StemLenType, VerkleAssumption DEF Trees, VerkleAssumption, StemLen, NumChunks
<1>4. W[0] = Here /\ \A n \in Nat : W[n + 1] = Forward(W[n], StemOf(k))
  BY WalkSteps
<1> DEFINE S == {n \in Nat : n + 1 <= t /\ W[n + 1].node.type = "internal" => H[W[n + 1].ref] < H[root.value]}
<1>5. ASSUME NEW n \in Nat, n + 1 <= t, W[n + 1].node.type = "internal"
      PROVE  /\ W[n].node.type = "internal" /\ H[W[n + 1].ref] < H[W[n].ref]
             /\ W[n].ref \in DOMAIN db /\ W[n + 1].ref \in DOMAIN db
  <2> PICK at, next : at = W[n] /\ next = W[n + 1]
    OBVIOUS
  <2>1. n \in 0..t /\ n + 1 \in 0..t /\ n \in 0..(t - 1)
    BY <1>2, <1>3, <1>5
  <2>2. GoesOn(at, StemOf(k)) /\ next = Forward(at, StemOf(k))
    BY <1>2, <1>4, <2>1
  <2>3. OnPath(H, root.value, k, at, n) /\ OnPath(H, root.value, k, next, n + 1)
    BY <1>2, <2>1
  <2>4. /\ at.ref \in DOMAIN db /\ at.node = Decode(db[at.ref]) /\ TreeNode(db, H, at.node, H[at.ref])
        /\ next.ref \in DOMAIN db /\ db[next.ref].type = "internal"
    BY <1>1, <1>5, <2>3 DEF OnPath, Load, Trees
  <2>5. CASE at.node.type = "internal"
    <3> PICK c : c = StemOf(k)[n + 1]
      OBVIOUS
    <3>1. at.depth = n /\ H[at.ref] <= StemLen - n /\ H[at.ref] > 0
      BY <2>3, <2>4, <2>5 DEF OnPath, TreeNode
    <3>2. n \in 0..StemLen /\ n < StemLen
      BY <1>3, <2>4, <3>1
    <3>3. c \in Chunks
      BY <3>2, KeyRest
    <3>4. next.ref = at.node.children[c] /\ next.ref # None
      BY <2>2, <2>5, <3>1 DEF GoesOn, Forward
    <3>5. H[next.ref] < H[at.ref]
      BY <2>4, <2>5, <3>3, <3>4 DEF TreeNode
    <3> QED
      BY <2>4, <2>5, <3>5
  <2>6. CASE at.node.type = "extension"
    <3>1. next.ref = at.node.child
      BY <2>2, <2>6 DEF Forward
    <3>2. db[at.node.child].type = "suffix"
      BY <2>4, <2>6 DEF TreeNode
    <3> QED
      BY <2>4, <3>1, <3>2
  <2> QED
    BY <2>2, <2>5, <2>6 DEF GoesOn
<1>6. 0 \in S
  <2>1. W[0].ref = root.value
    BY <1>4 DEF Here
  <2>2. W[0 + 1] = W[1]
    OBVIOUS
  <2> QED
    BY <1>5, <2>1, <2>2
<1>7. ASSUME NEW n \in Nat, n \in S PROVE n + 1 \in S
  <2> SUFFICES ASSUME (n + 1) + 1 <= t, W[(n + 1) + 1].node.type = "internal"
               PROVE  H[W[(n + 1) + 1].ref] < H[root.value]
    OBVIOUS
  <2>1. n + 1 \in Nat /\ n + 1 <= t
    BY <1>3, <1>2
  <2>2. /\ W[n + 1].node.type = "internal" /\ H[W[(n + 1) + 1].ref] < H[W[n + 1].ref]
        /\ W[n + 1].ref \in DOMAIN db /\ W[(n + 1) + 1].ref \in DOMAIN db
    BY <1>5, <2>1
  <2>3. H[W[n + 1].ref] < H[root.value]
    BY <1>7, <2>1, <2>2
  <2>4. root.value \in DOMAIN db
    BY <1>1 DEF FullTree
  <2> QED
    BY <1>3, <2>2, <2>3, <2>4
<1>8. W[m].node.type = "internal" => H[W[m].ref] < H[root.value]
  <2> HIDE DEF S
  <2>1. m - 1 \in Nat /\ (m - 1) + 1 = m /\ m <= t
    BY <1>2, <1>3
  <2>2. m - 1 \in S
    BY <1>6, <1>7, <2>1, SetInduction
  <2> QED
    BY <2>1, <2>2 DEF S
<1>9. OnPath(H, root.value, k, W[m], m)
  BY <1>2, <1>3
<1>10. db[root.value].type = "internal" /\ root.value \in DOMAIN db
  BY <1>1 DEF FullTree
<1> QED
  <2>1. CASE W[m].node.type = "internal"
    BY <1>3, <1>8, <1>10, <2>1
  <2>2. CASE W[m].node.type # "internal"
    BY <1>9, <1>10, <2>2 DEF OnPath
  <2> QED
    BY <2>1, <2>2

\* Where bytes are the chunks of the tree, keys are cut in one way.
LEMMA SameCut ==
  ASSUME NEW k, ByteBits = ChunkBits
  PROVE  ByBytes(k) = ByChunks(k)
<1>1. KeyBytes(k) = KeyChunks(k)
  BY DEF KeyBytes, KeyChunks, NumChunks, ByteBase, Width
<1> QED
  BY <1>1 DEF ByBytes, ByChunks, StemOf, SuffixOf

\* The tail of a sequence, as a function.
LEMMA TailAre ==
  ASSUME NEW S, NEW s \in Seq(S), s # <<>>
  PROVE  Tail(s) = [i \in 1..(Len(s) - 1) |-> s[i + 1]]
<1>0. PICK u : u = Tail(s)
  OBVIOUS
<1>1. u \in Seq(S) /\ Len(u) = Len(s) - 1
  BY <1>0, HeadTailProperties
<1>2. \A i \in 1..(Len(s) - 1) : u[i] = s[i + 1]
  BY <1>0, TailIs
<1>3. u \in [1..Len(u) -> S]
  BY <1>1, LenProperties
<1>4. u = [i \in 1..(Len(s) - 1) |-> s[i + 1]]
  BY <1>1, <1>2, <1>3
<1> QED
  BY <1>0, <1>4

\* The commitments of a key's path below the root, as a sequence.
LEMMA CommitmentsAre ==
  ASSUME NEW k, KeyWalked(k)
  PROVE  Tail(Refs(ProofWalk(StemOf(k))))
           = [m \in 1..Turns(StemOf(k)) |-> Walk(StemOf(k))[m].ref]
<1>12. PICK t, W, c : /\ t = Turns(StemOf(k)) /\ W = Walk(StemOf(k))
                      /\ c = Tail(Refs(ProofWalk(StemOf(k))))
  OBVIOUS
<1>9. PICK nodes : nodes = ProofWalk(StemOf(k))
  OBVIOUS
<1>0. t \in Nat
  BY <1>12 DEF KeyWalked, KeyPath
<1>1. DOMAIN nodes = 1..(t + 1) /\ \A n \in 1..(t + 1) : nodes[n] = W[n - 1]
  BY <1>0, <1>9, <1>12, ProofWalkIs
<1>10. PICK refs : refs = [n \in 1..(t + 1) |-> nodes[n].ref]
  OBVIOUS
<1>2. c = Tail(refs)
  BY <1>1, <1>9, <1>10, <1>12 DEF Refs
<1>11. PICK R : R = {nodes[n].ref : n \in 1..(t + 1)}
  OBVIOUS
<1>3. Len(refs) = t + 1 /\ refs \in Seq(R)
  BY <1>0, <1>10, <1>11
<1>4. refs # <<>>
  BY <1>0, <1>3
<1>5. Tail(refs) = [m \in 1..t |-> refs[m + 1]]
  <2>1. Len(refs) - 1 = t
    BY <1>0, <1>3
  <2>2. Tail(refs) = [m \in 1..(Len(refs) - 1) |-> refs[m + 1]]
    BY <1>3, <1>4, TailAre
  <2> QED
    BY <2>1, <2>2
<1>6. ASSUME NEW m \in 1..t PROVE refs[m + 1] = W[m].ref
  <2>1. m + 1 \in 1..(t + 1) /\ (m + 1) - 1 = m
    BY <1>0
  <2> QED
    BY <1>1, <1>10, <2>1
<1> QED
  <2>1. c = [m \in 1..t |-> refs[m + 1]]
    BY <1>2, <1>5
  <2> QED
    BY <1>6, <1>12, <2>1

\* The references of the key's path below the root.
OnKeyPath(k, x) == \E m \in 1..Turns(StemOf(k)) : x = Walk(StemOf(k))[m].ref

\* Commitments that are those of the key's path, in its order.
FollowKey(k, c) ==
  /\ Len(c) = Turns(StemOf(k))
  /\ \A m \in 1..Turns(StemOf(k)) : c[m] = Walk(StemOf(k))[m].ref

\* What the deduplicated prover sends for keys whose paths end at their suffix
\* nodes: the indices of each key lead to the commitments of its path.
LEMMA GeneratedOptimized ==
  ASSUME RaisedIsUnlike, ByteBits = ChunkBits, NEW keys, NEW N \in Nat, DOMAIN keys = 1..N,
         \A i \in 1..N : KeyWalked(keys[i]) /\ KeyEnd(keys[i]) = "suffix",
         NEW proof, proof = GenerateOptimized(keys)
  PROVE  /\ proof # Raised
         /\ \A x : Lists(proof.commitments, x) <=> \E i \in 1..N : OnKeyPath(keys[i], x)
         /\ IsInjective(proof.commitments)
         /\ \A i \in 1..N : FollowKey(keys[i], [n \in DOMAIN proof.indices[i] |->
                                                 proof.commitments[proof.indices[i][n]]])
         /\ \A x : x \in proof.witness <=>
              \E i \in 1..N : x \in OpeningsAlong(keys[i], ByChunks(keys[i]), ProofWalk(StemOf(keys[i])))
<1> DEFINE walks == [i \in DOMAIN keys |-> LooseWalk(ByBytes(keys[i]))]
           list == CommitmentList(walks)
           index(ref) == CHOOSE n \in DOMAIN list : list[n] = ref
           inds == [i \in DOMAIN keys |-> [n \in 1..(Len(walks[i]) - 1) |-> index(walks[i][n + 1].ref)]]
           wit == UNION {OpeningsAlong(keys[i], ByBytes(keys[i]), walks[i]) : i \in DOMAIN keys}
<1>1. proof = IF \E i \in DOMAIN keys : walks[i] = Raised THEN Raised
              ELSE [commitments |-> list, indices |-> inds, witness |-> wit]
  BY DEF GenerateOptimized
<1>2. \A i \in 1..N : walks[i] = LooseWalk(ByBytes(keys[i]))
  OBVIOUS
<1>3. Len(walks) = N
  OBVIOUS
<1>4. \A i \in 1..N : /\ \A n \in 1..(Len(walks[i]) - 1) : inds[i][n] = index(walks[i][n + 1].ref)
                      /\ DOMAIN inds[i] = 1..(Len(walks[i]) - 1)
  <2> HIDE DEF walks, index
  <2> QED
    OBVIOUS
<1>5. \A x : x \in wit <=> \E i \in 1..N : x \in OpeningsAlong(keys[i], ByBytes(keys[i]), walks[i])
  <2> HIDE DEF walks
  <2> QED
    OBVIOUS
<1> HIDE DEF walks, inds, wit
<1>6. ASSUME NEW i \in 1..N
      PROVE  /\ walks[i] = ProofWalk(StemOf(keys[i])) /\ walks[i] # Raised
             /\ Turns(StemOf(keys[i])) \in Nat /\ Len(walks[i]) = Turns(StemOf(keys[i])) + 1
             /\ \A n \in 1..Turns(StemOf(keys[i])) : walks[i][n + 1] = Walk(StemOf(keys[i]))[n]
             /\ Tail(Refs(walks[i])) = [m \in 1..Turns(StemOf(keys[i])) |-> Walk(StemOf(keys[i]))[m].ref]
  <2>0. PICK k, W, t : k = keys[i] /\ W = Walk(StemOf(k)) /\ t = Turns(StemOf(k))
    OBVIOUS
  <2>1. KeyPath(k, W, t) /\ KeyWalked(k) /\ KeyEnd(k) = "suffix"
    BY <2>0 DEF KeyWalked
  <2>2. t \in Nat
    BY <2>1 DEF KeyPath
  <2>8. PICK nodes : nodes = walks[i]
    OBVIOUS
  <2>3. nodes = ProofWalk(StemOf(k))
    BY <1>2, <2>0, <2>8, <2>1, LooseWalkIs, SameCut
  <2>4. /\ nodes = [n \in 1..(t + 1) |-> W[n - 1]] /\ Len(nodes) = t + 1
        /\ \A n \in 1..(t + 1) : nodes[n] = W[n - 1]
    BY <2>0, <2>2, <2>3, ProofWalkIs
  <2>5. nodes # Raised
    <3> PICK f : f = [n \in 1..(t + 1) |-> W[n - 1]]
      OBVIOUS
    <3>1. f = [n \in 1..(t + 1) |-> f[n]]
      OBVIOUS
    <3>2. t + 1 \in Nat
      BY <2>2
    <3> QED
      BY <2>4, <3>1, <3>2 DEF RaisedIsUnlike
  <2>6. ASSUME NEW n \in 1..t PROVE nodes[n + 1] = W[n]
    <3>1. n + 1 \in 1..(t + 1) /\ (n + 1) - 1 = n
      BY <2>2
    <3> QED
      BY <2>4, <3>1
  <2>7. Tail(Refs(nodes)) = [m \in 1..t |-> W[m].ref]
    BY <2>0, <2>1, <2>3, CommitmentsAre
  <2> QED
    BY <2>0, <2>8, <2>2, <2>3, <2>4, <2>5, <2>6, <2>7
<1>7. proof = [commitments |-> list, indices |-> inds, witness |-> wit]
  BY <1>1, <1>6
<1>0. \A i \in 1..N : /\ Turns(StemOf(keys[i])) \in Nat /\ Len(walks[i]) - 1 = Turns(StemOf(keys[i]))
                      /\ \A n \in 1..Turns(StemOf(keys[i])) : walks[i][n + 1] = Walk(StemOf(keys[i]))[n]
  <2> SUFFICES ASSUME NEW i \in 1..N
               PROVE  /\ Turns(StemOf(keys[i])) \in Nat /\ Len(walks[i]) - 1 = Turns(StemOf(keys[i]))
                      /\ \A n \in 1..Turns(StemOf(keys[i])) : walks[i][n + 1] = Walk(StemOf(keys[i]))[n]
    OBVIOUS
  <2> PICK t : t = Turns(StemOf(keys[i]))
    OBVIOUS
  <2>1. t \in Nat /\ Len(walks[i]) = t + 1 /\ \A n \in 1..t : walks[i][n + 1] = Walk(StemOf(keys[i]))[n]
    BY <1>6
  <2> QED
    BY <2>1
<1> DEFINE S == {r \in {Walk(StemOf(keys[p[1]]))[p[2]].ref : p \in (1..N) \X Nat} : TRUE}
<1>8. ASSUME NEW i \in 1..N
      PROVE  /\ Tail(Refs(walks[i])) \in Seq(S)
             /\ \A x : Lists(Tail(Refs(walks[i])), x) <=> OnKeyPath(keys[i], x)
  <2> PICK W, t : W = Walk(StemOf(keys[i])) /\ t = Turns(StemOf(keys[i]))
    OBVIOUS
  <2> PICK c : c = [m \in 1..t |-> W[m].ref]
    OBVIOUS
  <2>1. Tail(Refs(walks[i])) = c /\ t \in Nat
    BY <1>6
  <2>2. \A m \in 1..t : W[m].ref \in S
    <3> TAKE m \in 1..t
    <3>1. <<i, m>> \in (1..N) \X Nat
      BY <2>1
    <3> QED
      BY <3>1
  <2> HIDE DEF S
  <2>3. c \in Seq(S)
    BY <2>1, <2>2
  <2>4. \A x : Lists(c, x) <=> \E m \in 1..t : x = W[m].ref
    BY DEF Lists
  <2> QED
    BY <2>1, <2>3, <2>4 DEF OnKeyPath
<1>9. /\ \A x : Lists(list, x) <=> \E i \in 1..N : Lists(Tail(Refs(walks[i])), x)
      /\ IsInjective(list)
  <2> HIDE DEF S
  <2> QED
    BY <1>3, <1>8, CommitmentListHas
<1> HIDE DEF S
<1>10. \A x : Lists(list, x) <=> \E i \in 1..N : OnKeyPath(keys[i], x)
  BY <1>8, <1>9
<1>11. \A x : Lists(list, x) => list[index(x)] = x
  BY DEF Lists
<1> HIDE DEF list, index
<1>12. ASSUME NEW i \in 1..N
       PROVE  FollowKey(keys[i], [n \in DOMAIN inds[i] |-> list[inds[i][n]]])
  <2> PICK W, t : W = Walk(StemOf(keys[i])) /\ t = Turns(StemOf(keys[i]))
    OBVIOUS
  <2>1. t \in Nat /\ DOMAIN inds[i] = 1..t
    BY <1>0, <1>4
  <2>2. ASSUME NEW n \in 1..t PROVE list[inds[i][n]] = W[n].ref
    <3> PICK x : x = W[n].ref
      OBVIOUS
    <3>1. inds[i][n] = index(x)
      <4>1. n \in 1..(Len(walks[i]) - 1) /\ walks[i][n + 1] = W[n]
        BY <1>0
      <4> QED
        BY <1>4, <4>1
    <3>2. OnKeyPath(keys[i], x)
      BY DEF OnKeyPath
    <3>3. Lists(list, x)
      BY <1>10, <3>2
    <3> QED
      BY <1>11, <3>1, <3>3
  <2> PICK c : c = [n \in DOMAIN inds[i] |-> list[inds[i][n]]]
    OBVIOUS
  <2>3. Len(c) = t /\ \A n \in 1..t : c[n] = W[n].ref
    BY <2>1, <2>2
  <2> QED
    BY <2>3 DEF FollowKey
<1>13. \A x : x \in wit <=>
         \E i \in 1..N : x \in OpeningsAlong(keys[i], ByChunks(keys[i]), ProofWalk(StemOf(keys[i])))
  <2>1. \A i \in 1..N : ByBytes(keys[i]) = ByChunks(keys[i]) /\ walks[i] = ProofWalk(StemOf(keys[i]))
    BY <1>6, SameCut
  <2> QED
    BY <1>5, <2>1
<1>14. proof # Raised
  BY <1>7 DEF RaisedIsUnlike
<1>15. proof.commitments = list /\ proof.indices = inds /\ proof.witness = wit
  BY <1>7
<1> QED
  BY <1>9, <1>10, <1>12, <1>13, <1>14, <1>15

\* The deduplicated proof is accepted when the openings meet the expectations.
LEMMA OptimizedAccepted ==
  ASSUME RaisedIsUnlike, ByteBits = ChunkBits, NEW keys, NEW N \in Nat, DOMAIN keys = 1..N,
         \A i \in 1..N : KeyWalked(keys[i]) /\ KeyEnd(keys[i]) = "suffix", NEW values
  PROVE  VerifyOptimized(values, keys, root.value, GenerateOptimized(keys)) <=> Accepts(keys, values)
<1> PICK proof : proof = GenerateOptimized(keys)
  OBVIOUS
<1> DEFINE Coms(i) == [n \in DOMAIN proof.indices[i] |-> proof.commitments[proof.indices[i][n]]]
           E == UNION {ExpectedOf(keys[i], ByBytes(keys[i]), values[i], root.value, Coms(i))
                         : i \in DOMAIN keys}
<1>1. /\ \A i \in 1..N : FollowKey(keys[i], Coms(i))
      /\ \A x : x \in proof.witness <=>
           \E i \in 1..N : x \in OpeningsAlong(keys[i], ByChunks(keys[i]), ProofWalk(StemOf(keys[i])))
  BY GeneratedOptimized
<1>2. VerifyOptimized(values, keys, root.value, proof) <=> PairingHolds(E, proof.witness)
  BY DEF VerifyOptimized
<1> HIDE DEF Coms
<1>3. \A x : x \in proof.witness <=> \E j \in DOMAIN keys : KeyShown(keys[j], x)
  <2>1. ASSUME NEW x, NEW i \in DOMAIN keys
        PROVE  x \in OpeningsAlong(keys[i], ByChunks(keys[i]), ProofWalk(StemOf(keys[i])))
                 <=> KeyShown(keys[i], x)
    BY ShownOfKey DEF KeyShown, KeyWalked
  <2> QED
    BY <1>1, <2>1
<1>4. \A e : e \in E <=> \E i \in DOMAIN keys : KeyExpects(keys[i], values[i], e)
  <2>1. ASSUME NEW e, NEW i \in DOMAIN keys
        PROVE  e \in ExpectedOf(keys[i], ByBytes(keys[i]), values[i], root.value, Coms(i))
                 <=> KeyExpects(keys[i], values[i], e)
    <3> PICK k, c : k = keys[i] /\ c = Coms(i)
      OBVIOUS
    <3> PICK W, t : W = Walk(StemOf(k)) /\ t = Turns(StemOf(k))
      OBVIOUS
    <3>1. KeyPath(k, W, t) /\ FollowKey(k, c)
      BY <1>1 DEF KeyWalked
    <3>2. Len(c) = t /\ \A n \in 1..t : c[n] = W[n].ref
      BY <3>1 DEF FollowKey
    <3>3. e \in ExpectedOf(k, ByChunks(k), values[i], root.value, c) <=> Expected(k, W, t, values[i], e)
      BY <3>1, <3>2, ExpectedOfKey
    <3>4. ByBytes(k) = ByChunks(k)
      BY SameCut
    <3> QED
      BY <3>3, <3>4 DEF KeyExpects
  <2>2. \A e : e \in E <=> \E i \in DOMAIN keys :
                 e \in ExpectedOf(keys[i], ByBytes(keys[i]), values[i], root.value, Coms(i))
    OBVIOUS
  <2> HIDE DEF E
  <2> QED
    BY <2>1, <2>2
<1> HIDE DEF E
<1> QED
  BY <1>2, <1>3, <1>4, PairingAccepts

\* The lists of keys are sequences.
LEMMA ListsAreSequences ==
  ASSUME NEW keys \in KeyLists
  PROVE  Len(keys) \in Nat /\ DOMAIN keys = 1..Len(keys)
<1>1. keys \in Seq(Keys)
  <2>1. CASE \E k \in Keys : keys = <<k>>
    BY <2>1
  <2>2. CASE \E p \in Keys \X Keys : keys = <<p[1], p[2]>>
    BY <2>2
  <2> QED
    BY <2>1, <2>2 DEF KeyLists
<1> QED
  BY <1>1

\* The two provers agree under the invariant.
LEMMA InvariantAgrees ==
  ASSUME NoneIsUnlike, ValuesFit, RaisedIsUnlike, ByteBits = ChunkBits, IInv, RootLoaded, SuffixesOK
  PROVE  OptimizedAgrees
<1> SUFFICES ASSUME Ready, NEW keys \in KeyLists, AllPresent(keys)
             PROVE  /\ GenerateOptimized(keys) # Raised
                    /\ IsInjective(GenerateOptimized(keys).commitments)
                    /\ RootRef \notin ToSet(GenerateOptimized(keys).commitments)
                    /\ \A values \in [DOMAIN keys -> Values] :
                         VerifyOptimized(values, keys, RootRef, GenerateOptimized(keys))
                           <=> VerifyProof(values, keys, RootRef, GenerateProof(keys))
  BY DEF OptimizedAgrees
<1> PICK N : N = Len(keys)
  OBVIOUS
<1>0. N \in Nat /\ DOMAIN keys = 1..N /\ \A i \in 1..N : keys[i] \in Keys
  BY ListsAreSequences, ListsOfKeys
<1>1. RootRef = root.value
  BY DEF Ready, RootRef
<1>2. /\ \A i \in DOMAIN keys : KeyWalked(keys[i])
      /\ \A i \in DOMAIN keys : Contents(root.value)[keys[i]] # None
  BY <1>1, KeysWalked DEF AllPresent
<1>3. \A i \in DOMAIN keys : KeyEnd(keys[i]) = "suffix"
  BY <1>2, PresentEnds
<1>7. PICK proof : proof = GenerateOptimized(keys)
  OBVIOUS
<1>4. /\ proof # Raised
      /\ \A x : Lists(proof.commitments, x) <=> \E i \in 1..N : OnKeyPath(keys[i], x)
      /\ IsInjective(proof.commitments)
  <2>1. \A i \in 1..N : KeyWalked(keys[i]) /\ KeyEnd(keys[i]) = "suffix"
    BY <1>0, <1>2, <1>3
  <2> QED
    BY <1>0, <1>7, <2>1, GeneratedOptimized
<1>5. root.value \notin ToSet(proof.commitments)
  <2>1. ToSet(proof.commitments) = {proof.commitments[n] : n \in DOMAIN proof.commitments}
    BY DEF ToSet
  <2>2. \A i \in 1..N : ~OnKeyPath(keys[i], root.value)
    BY <1>0, RootIsAbove DEF OnKeyPath
  <2>3. ~Lists(proof.commitments, root.value)
    BY <1>4, <2>2
  <2> QED
    BY <2>1, <2>3 DEF Lists
<1>6. ASSUME NEW values
      PROVE  VerifyOptimized(values, keys, root.value, proof)
               <=> VerifyProof(values, keys, root.value, GenerateProof(keys))
  <2>1. VerifyOptimized(values, keys, root.value, proof) <=> Accepts(keys, values)
    BY <1>0, <1>2, <1>3, <1>7, OptimizedAccepted
  <2>2. VerifyProof(values, keys, root.value, GenerateProof(keys)) <=> Accepts(keys, values)
    BY <1>2, <1>3, ProofAccepted
  <2> QED
    BY <2>1, <2>2
<1> QED
  BY <1>1, <1>4, <1>5, <1>6, <1>7

\* What verkle_proof_optimized.py is for: where the tree is as wide as a byte,
\* the deduplicated proof of keys of the tree sends each commitment once and none
\* of the root, and is accepted with the values, and only those, with which the plain proof
\* of the keys is.
THEOREM OptimizedAlwaysAgrees ==
  ASSUME NoneIsUnlike, ValuesFit, RaisedIsUnlike, ByteBits = ChunkBits
  PROVE  Spec => []OptimizedAgrees
<1>1. Spec => [](IInv /\ RootLoaded /\ SuffixesOK)
  BY ReadingInvariant
<1>2. IInv /\ RootLoaded /\ SuffixesOK => OptimizedAgrees
  BY InvariantAgrees
<1> QED
  BY <1>1, <1>2, PTL

=============================================================================
