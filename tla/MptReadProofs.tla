---------------------------- MODULE MptReadProofs ----------------------------
(***************************************************************************)
(* Proofs of the properties of MptRead and MerkleProof: the trie           *)
(* implements a durable map, it is the canonical trie of what it holds,    *)
(* get finds exactly that, and the verifier accepts the proofs of what the *)
(* trie holds, and no nodes of the trie as a proof of anything else.       *)
(*                                                                         *)
(* The recursive functions come first, with an equation for each step of   *)
(* their recursion; then Holds, the relation all else is said in; then     *)
(* what the nodes made by _update hold, the invariant of its recursion and *)
(* the refinement; then the lookups and the canonical trie; last the       *)
(* proofs and their verifier.                                              *)
(***************************************************************************)
EXTENDS MerkleProof, MerklePatriciaTrieProofs, NaturalsInduction, WellFoundedInduction

-----------------------------------------------------------------------------
(* Induction over the natural numbers, for a set instead of a property     *)

LEMMA SetInduction ==
  ASSUME NEW S, 0 \in S, \A n \in Nat : n \in S => n + 1 \in S
  PROVE  Nat \subseteq S
<1>1. SUFFICES ASSUME Nat \ S # {} PROVE FALSE
  OBVIOUS
<1>2. \E x \in Nat \ S : \A y \in Nat \ S : ~(<<y, x>> \in OpToRel(<, Nat))
  <2>1. IsWellFoundedOn(OpToRel(<, Nat), Nat)
    BY NatLessThanWellFounded
  <2>2. Nat \ S \subseteq Nat
    OBVIOUS
  <2> QED
    BY <1>1, <2>1, <2>2, WFMin, Zenon
<1>3. PICK x \in Nat \ S : \A y \in Nat \ S : ~(<<y, x>> \in OpToRel(<, Nat))
  BY <1>2
<1>4. ASSUME NEW y \in Nat \ S PROVE ~(y < x)
  BY <1>3 DEF OpToRel
<1>5. x # 0 /\ x - 1 \in Nat /\ (x - 1) + 1 = x
  OBVIOUS
<1> QED
  BY <1>4, <1>5

LEMMA LeastNumber ==
  ASSUME NEW S, S \subseteq Nat, S # {}
  PROVE  \E n \in S : \A m \in 0..(n-1) : m \notin S
<1> SUFFICES ASSUME \A n \in S : \E m \in 0..(n-1) : m \in S PROVE FALSE
  OBVIOUS
<1> DEFINE T == {n \in Nat : \A m \in 0..n : m \notin S}
<1>1. 0 \in T
  OBVIOUS
<1>2. ASSUME NEW n \in Nat, n \in T PROVE n + 1 \in T
  <2>1. \A m \in 0..(n+1) : m \in 0..n \/ m = n + 1
    OBVIOUS
  <2>2. (n + 1) - 1 = n
    OBVIOUS
  <2>3. n + 1 \notin S
    BY <1>2, <2>2
  <2> QED
    BY <1>2, <2>1, <2>3
<1> HIDE DEF T
<1>3. Nat \subseteq T
  BY <1>1, <1>2, SetInduction
<1>4. \A n \in Nat : n \in 0..n
  OBVIOUS
<1> QED
  BY <1>3, <1>4 DEF T

-----------------------------------------------------------------------------
(* The functions defined by recursion on a number of steps                 *)

\* The calls of a lookup, one after the other.
LEMMA WalkSteps ==
  ASSUME NEW ref, NEW p
  PROVE  /\ Walk(ref, p)[0] = [ref |-> ref, path |-> p]
         /\ \A n \in Nat : Walk(ref, p)[n + 1] = Forward(Walk(ref, p)[n])
<1> DEFINE first == [ref |-> ref, path |-> p]
           Turn(f, n) == IF n = 0 THEN first ELSE Forward(f[n - 1])
           Upto(f, n) == f = [m \in 0..n |-> Turn(f, m)]
           S == {n \in Nat : \E f : Upto(f, n)}
           T == {n \in Nat : \A f, g, k, l : Upto(f, k) /\ Upto(g, l) /\ n \in 0..k /\ n \in 0..l
                                               /\ k \in Nat /\ l \in Nat => f[n] = g[n]}
<1>1. Nat \subseteq S
  <2>1. 0 \in S
    <3>1. Upto([m \in 0..0 |-> first], 0)
      OBVIOUS
    <3> QED
      BY <3>1
  <2>2. ASSUME NEW n \in Nat, n \in S PROVE n + 1 \in S
    <3>1. PICK f : Upto(f, n)
      BY <2>2
    <3> DEFINE g == [m \in 0..(n+1) |-> IF m = n + 1 THEN Forward(f[n]) ELSE f[m]]
    <3>2. \A m \in 0..(n+1) : g[m] = Turn(g, m)
      <4> TAKE m \in 0..(n+1)
      <4> HIDE DEF first
      <4>1. CASE m = n + 1
        BY <4>1
      <4>2. CASE m # n + 1
        <5>1. m \in 0..n /\ (m # 0 => m - 1 \in 0..n /\ m - 1 # n + 1 /\ m - 1 \in 0..(n+1))
          BY <4>2
        <5>2. g[m] = f[m] /\ (m # 0 => g[m-1] = f[m-1])
          BY <5>1, <4>2
        <5>3. f[m] = Turn(f, m)
          BY <3>1, <5>1
        <5> QED
          BY <5>2, <5>3
      <4> QED
        BY <4>1, <4>2
    <3>3. Upto(g, n + 1)
      BY <3>2
    <3> HIDE DEF Upto, g
    <3> QED
      BY <3>3
  <2> HIDE DEF S
  <2> QED
    BY <2>1, <2>2, SetInduction
<1>2. Nat \subseteq T
  <2>1. 0 \in T
    OBVIOUS
  <2>2. ASSUME NEW n \in Nat, n \in T PROVE n + 1 \in T
    <3> SUFFICES ASSUME NEW f, NEW g, NEW k \in Nat, NEW l \in Nat, Upto(f, k), Upto(g, l),
                        n + 1 \in 0..k, n + 1 \in 0..l
                 PROVE  f[n + 1] = g[n + 1]
      <4> HIDE DEF Upto
      <4> QED
        OBVIOUS
    <3>1. f[n] = g[n]
      <4>1. n \in 0..k /\ n \in 0..l
        OBVIOUS
      <4> HIDE DEF Upto
      <4> QED
        BY <2>2, <4>1
    <3> HIDE DEF first
    <3>2. f[n+1] = Turn(f, n + 1) /\ g[n+1] = Turn(g, n + 1)
      OBVIOUS
    <3> QED
      BY <3>1, <3>2
  <2> HIDE DEF T
  <2> QED
    BY <2>1, <2>2, SetInduction
<1> DEFINE Some_(n) == CHOOSE f : Upto(f, n)
           h == [n \in Nat |-> Some_(n)[n]]
<1>3. ASSUME NEW n \in Nat PROVE Upto(Some_(n), n)
  <2>1. \E f : Upto(f, n)
    BY <1>1
  <2> HIDE DEF Upto
  <2> QED
    BY <2>1
<1>4. \A n \in Nat : h[n] = Turn(h, n)
  <2> TAKE n \in Nat
  <2>1. Some_(n)[n] = Turn(Some_(n), n)
    <3>1. Upto(Some_(n), n)
      BY <1>3
    <3> HIDE DEF Some_, first
    <3> QED
      BY <3>1
  <2>2. CASE n = 0
    BY <2>1, <2>2
  <2>3. CASE n # 0
    <3>1. n - 1 \in Nat /\ n - 1 \in 0..n /\ n - 1 \in 0..(n-1)
      BY <2>3
    <3>2. Upto(Some_(n), n) /\ Upto(Some_(n - 1), n - 1)
      BY <3>1, <1>3
    <3> HIDE DEF Some_
    <3>3. Some_(n)[n-1] = Some_(n-1)[n-1]
      <4>1. n - 1 \in T
        BY <3>1, <1>2
      <4> HIDE DEF Upto
      <4> QED
        BY <4>1, <3>1, <3>2
    <3>4. h[n-1] = Some_(n-1)[n-1] /\ h[n] = Some_(n)[n]
      BY <3>1
    <3> QED
      BY <2>1, <2>3, <3>3, <3>4
  <2> QED
    BY <2>2, <2>3
<1>5. h = [n \in Nat |-> Turn(h, n)]
  <2>1. h = [n \in Nat |-> h[n]]
    OBVIOUS
  <2> HIDE DEF h, first
  <2> QED
    BY <1>4, <2>1
<1> HIDE DEF h, first
<1> DEFINE w == CHOOSE f : f = [n \in Nat |-> IF n = 0 THEN first ELSE Forward(f[n - 1])]
<1>6. w = [n \in Nat |-> IF n = 0 THEN first ELSE Forward(w[n - 1])]
  BY <1>5
<1>7. Walk(ref, p) = w
  BY DEF Walk, first
<1> HIDE DEF w
<1>8. \A n \in Nat : w[n + 1] = Forward(w[n])
  BY <1>6
<1> QED
  BY <1>6, <1>7, <1>8 DEF first

\* The levels of a trie, from the top.
LEMMA LevelSteps ==
  ASSUME NEW store, NEW ref
  PROVE  /\ Level(store, ref)[0] = {[digits |-> <<>>, ref |-> ref]}
         /\ \A n \in Nat : Level(store, ref)[n + 1] = Deeper(store, Level(store, ref)[n])
         /\ Level(store, ref)[1] = Deeper(store, Level(store, ref)[0])
<1> DEFINE first == {[digits |-> <<>>, ref |-> ref]}
           Turn(f, n) == IF n = 0 THEN first ELSE Deeper(store, f[n - 1])
           Upto(f, n) == f = [m \in 0..n |-> Turn(f, m)]
           S == {n \in Nat : \E f : Upto(f, n)}
           T == {n \in Nat : \A f, g, k, l : Upto(f, k) /\ Upto(g, l) /\ n \in 0..k /\ n \in 0..l
                                               /\ k \in Nat /\ l \in Nat => f[n] = g[n]}
<1>1. Nat \subseteq S
  <2>1. 0 \in S
    <3>1. Upto([m \in 0..0 |-> first], 0)
      OBVIOUS
    <3> QED
      BY <3>1
  <2>2. ASSUME NEW n \in Nat, n \in S PROVE n + 1 \in S
    <3>1. PICK f : Upto(f, n)
      BY <2>2
    <3> DEFINE g == [m \in 0..(n+1) |-> IF m = n + 1 THEN Deeper(store, f[n]) ELSE f[m]]
    <3>2. \A m \in 0..(n+1) : g[m] = Turn(g, m)
      <4> TAKE m \in 0..(n+1)
      <4> HIDE DEF first
      <4>1. CASE m = n + 1
        BY <4>1
      <4>2. CASE m # n + 1
        <5>1. m \in 0..n /\ (m # 0 => m - 1 \in 0..n /\ m - 1 # n + 1 /\ m - 1 \in 0..(n+1))
          BY <4>2
        <5>2. g[m] = f[m] /\ (m # 0 => g[m-1] = f[m-1])
          BY <5>1, <4>2
        <5>3. f[m] = Turn(f, m)
          BY <3>1, <5>1
        <5> QED
          BY <5>2, <5>3
      <4> QED
        BY <4>1, <4>2
    <3>3. Upto(g, n + 1)
      BY <3>2
    <3> HIDE DEF Upto, g
    <3> QED
      BY <3>3
  <2> HIDE DEF S
  <2> QED
    BY <2>1, <2>2, SetInduction
<1>2. Nat \subseteq T
  <2>1. 0 \in T
    OBVIOUS
  <2>2. ASSUME NEW n \in Nat, n \in T PROVE n + 1 \in T
    <3> SUFFICES ASSUME NEW f, NEW g, NEW k \in Nat, NEW l \in Nat, Upto(f, k), Upto(g, l),
                        n + 1 \in 0..k, n + 1 \in 0..l
                 PROVE  f[n + 1] = g[n + 1]
      <4> HIDE DEF Upto
      <4> QED
        OBVIOUS
    <3>1. f[n] = g[n]
      <4>1. n \in 0..k /\ n \in 0..l
        OBVIOUS
      <4> HIDE DEF Upto
      <4> QED
        BY <2>2, <4>1
    <3> HIDE DEF first
    <3>2. f[n+1] = Turn(f, n + 1) /\ g[n+1] = Turn(g, n + 1)
      OBVIOUS
    <3> QED
      BY <3>1, <3>2
  <2> HIDE DEF T
  <2> QED
    BY <2>1, <2>2, SetInduction
<1> DEFINE Some_(n) == CHOOSE f : Upto(f, n)
           h == [n \in Nat |-> Some_(n)[n]]
<1>3. ASSUME NEW n \in Nat PROVE Upto(Some_(n), n)
  <2>1. \E f : Upto(f, n)
    BY <1>1
  <2> HIDE DEF Upto
  <2> QED
    BY <2>1
<1>4. \A n \in Nat : h[n] = Turn(h, n)
  <2> TAKE n \in Nat
  <2>1. Some_(n)[n] = Turn(Some_(n), n)
    <3>1. Upto(Some_(n), n)
      BY <1>3
    <3> HIDE DEF Some_, first
    <3> QED
      BY <3>1
  <2>2. CASE n = 0
    BY <2>1, <2>2
  <2>3. CASE n # 0
    <3>1. n - 1 \in Nat /\ n - 1 \in 0..n /\ n - 1 \in 0..(n-1)
      BY <2>3
    <3>2. Upto(Some_(n), n) /\ Upto(Some_(n - 1), n - 1)
      BY <3>1, <1>3
    <3> HIDE DEF Some_
    <3>3. Some_(n)[n-1] = Some_(n-1)[n-1]
      <4>1. n - 1 \in T
        BY <3>1, <1>2
      <4> HIDE DEF Upto
      <4> QED
        BY <4>1, <3>1, <3>2
    <3>4. h[n-1] = Some_(n-1)[n-1] /\ h[n] = Some_(n)[n]
      BY <3>1
    <3> QED
      BY <2>1, <2>3, <3>3, <3>4
  <2> QED
    BY <2>2, <2>3
<1>5. h = [n \in Nat |-> Turn(h, n)]
  <2>1. h = [n \in Nat |-> h[n]]
    OBVIOUS
  <2> HIDE DEF h, first
  <2> QED
    BY <1>4, <2>1
<1> HIDE DEF h, first
<1> DEFINE w == CHOOSE f : f = [n \in Nat |-> IF n = 0 THEN first ELSE Deeper(store, f[n - 1])]
<1>6. w = [n \in Nat |-> IF n = 0 THEN first ELSE Deeper(store, w[n - 1])]
  BY <1>5
<1>7. Level(store, ref) = w
  BY DEF Level, first
<1> HIDE DEF w
<1>8. \A n \in Nat : w[n + 1] = Deeper(store, w[n])
  BY <1>6
<1>9. w[1] = Deeper(store, w[0])
  BY <1>6, 1 \in Nat, 1 # 0, 1 - 1 = 0
<1> QED
  BY <1>6, <1>7, <1>8, <1>9 DEF first

-----------------------------------------------------------------------------
(* Paths *)

LEMMA PathLength ==
  ASSUME NEW p \in Path
  PROVE  Len(p) \in Nat /\ (p = <<>> <=> Len(p) = 0) /\ (p # <<>> => p[1] \in Nibbles)
<1>1. Len(p) \in Nat /\ (p = <<>> <=> Len(p) = 0)
  BY EmptySeq, LenProperties DEF Path
<1>2. p # <<>> => 1 \in 1..Len(p)
  BY <1>1
<1> QED
  BY <1>1, <1>2, ElementOfSeq DEF Path

LEMMA ConcatPath ==
  ASSUME NEW p \in Path, NEW q \in Path
  PROVE  p \o q \in Path /\ Len(p \o q) = Len(p) + Len(q)
BY ConcatProperties DEF Path

LEMMA ConcatPaths ==
  ASSUME NEW p \in Path, NEW q \in Path, NEW r \in Path
  PROVE  (p \o q) \o r = p \o (q \o r)
BY ConcatAssociative DEF Path

LEMMA DigitPath ==
  ASSUME NEW i \in Nibbles
  PROVE  <<i>> \in Path /\ Len(<<i>>) = 1 /\ <<i>> # <<>>
BY DEF Path

\* A path begins with another exactly when a rest is left, and that is what
\* consume() leaves.
LEMMA PrefixAndRest ==
  ASSUME NEW k \in Path, NEW p \in Path
  PROVE  /\ \A q \in Path : p \o q = k <=> StartsWith(k, p) /\ q = Consume(k, Len(p))
         /\ StartsWith(k, p) => /\ Len(p) \in 0..Len(k)
                                /\ Consume(k, Len(p)) \in Path
                                /\ Len(Consume(k, Len(p))) = Len(k) - Len(p)
<1>1. Len(k) \in Nat /\ Len(p) \in Nat
  BY PathLength
<1>2. ASSUME StartsWith(k, p)
      PROVE  /\ Len(p) \in 0..Len(k)
             /\ Consume(k, Len(p)) \in Path
             /\ Len(Consume(k, Len(p))) = Len(k) - Len(p)
             /\ \A i \in 1..(Len(k) - Len(p)) : Consume(k, Len(p))[i] = k[i + Len(p)]
  BY <1>1, <1>2, ConsumePath DEF StartsWith
<1>3. ASSUME NEW q \in Path, p \o q = k
      PROVE  StartsWith(k, p) /\ q = Consume(k, Len(p))
  <2>1. /\ Len(q) \in Nat /\ Len(k) = Len(p) + Len(q)
        /\ \A i \in 1..Len(p) + Len(q) : k[i] = IF i <= Len(p) THEN p[i] ELSE q[i - Len(p)]
    BY <1>3, PathLength, ConcatProperties DEF Path
  <2>2. StartsWith(k, p)
    BY <1>1, <2>1 DEF StartsWith
  <2>3. ASSUME NEW i \in 1..Len(q) PROVE q[i] = Consume(k, Len(p))[i]
    <3>1. i + Len(p) \in 1..Len(p) + Len(q) /\ ~(i + Len(p) <= Len(p)) /\ (i + Len(p)) - Len(p) = i
      BY <1>1, <2>1
    <3>2. k[i + Len(p)] = q[i]
      BY <2>1, <3>1
    <3>3. i \in 1..(Len(k) - Len(p))
      BY <1>1, <2>1
    <3> QED
      BY <1>2, <2>2, <3>2, <3>3
  <2>4. Len(q) = Len(Consume(k, Len(p)))
    BY <1>1, <1>2, <2>1, <2>2
  <2>5. q = Consume(k, Len(p))
    BY <1>2, <2>2, <2>3, <2>4, SeqEqual DEF Path
  <2> QED
    BY <2>2, <2>5
<1>4. ASSUME StartsWith(k, p) PROVE p \o Consume(k, Len(p)) = k
  <2> DEFINE q == Consume(k, Len(p))
             u == p \o q
  <2>1. q \in Path /\ Len(q) = Len(k) - Len(p) /\ \A i \in 1..(Len(k) - Len(p)) : q[i] = k[i + Len(p)]
    BY <1>2, <1>4
  <2> HIDE DEF q
  <2>2. /\ u \in Path /\ Len(u) = Len(p) + Len(q)
        /\ \A i \in 1..Len(p) + Len(q) : u[i] = IF i <= Len(p) THEN p[i] ELSE q[i - Len(p)]
    BY <2>1, ConcatProperties DEF Path
  <2> HIDE DEF u
  <2>3. Len(u) = Len(k)
    BY <1>1, <2>1, <2>2
  <2>4. ASSUME NEW i \in 1..Len(u) PROVE u[i] = k[i]
    <3>1. CASE i <= Len(p)
      BY <1>1, <1>4, <2>1, <2>2, <2>4, <3>1 DEF StartsWith
    <3>2. CASE ~(i <= Len(p))
      <4>1. i - Len(p) \in 1..(Len(k) - Len(p)) /\ (i - Len(p)) + Len(p) = i /\ i \in 1..Len(p) + Len(q)
        BY <1>1, <2>1, <2>2, <2>4, <3>2
      <4>2. u[i] = q[i - Len(p)] /\ q[i - Len(p)] = k[(i - Len(p)) + Len(p)]
        BY <2>1, <2>2, <3>2, <4>1
      <4> QED
        BY <4>1, <4>2
    <3> QED
      BY <3>1, <3>2
  <2>5. u = k
    BY <2>2, <2>3, <2>4, SeqEqual DEF Path
  <2> QED
    BY <2>5 DEF u, q
<1> QED
  BY <1>2, <1>3, <1>4

LEMMA DigitAndRest ==
  ASSUME NEW k \in Path, NEW i \in Nibbles
  PROVE  /\ \A q \in Path : <<i>> \o q = k <=> k # <<>> /\ k[1] = i /\ q = Consume(k, 1)
         /\ k # <<>> => Consume(k, 1) \in Path /\ Len(Consume(k, 1)) = Len(k) - 1
<1>1. Len(k) \in Nat /\ (k = <<>> <=> Len(k) = 0)
  BY PathLength
<1>2. <<i>> \in Path /\ Len(<<i>>) = 1 /\ <<i>>[1] = i
  BY DigitPath
<1>3. StartsWith(k, <<i>>) <=> k # <<>> /\ k[1] = i
  BY <1>1, <1>2 DEF StartsWith
<1>4. k # <<>> => Consume(k, 1) \in Path /\ Len(Consume(k, 1)) = Len(k) - 1
  BY <1>1, ConsumePath
<1> DEFINE p == <<i>>
<1>5. p \in Path /\ Len(p) = 1
  BY <1>2
<1> HIDE DEF p
<1>6. \A q \in Path : p \o q = k <=> StartsWith(k, p) /\ q = Consume(k, 1)
  <2>1. \A q \in Path : p \o q = k <=> StartsWith(k, p) /\ q = Consume(k, Len(p))
    BY <1>5, PrefixAndRest
  <2> QED
    BY <1>5, <2>1
<1> QED
  BY <1>3, <1>4, <1>6 DEF p

-----------------------------------------------------------------------------
(* What a trie holds, one level after the other *)

\* References to compressed nodes over the same references.
Closed(R) ==
  \A r \in R : r \notin NoNode /\ r.of \in Nodes(R) /\ Compressed(r.of)

\* The trie under ref holds v at k, however deep.
Holds(store, ref, k, v) ==
  \E n \in Nat : [digits |-> k, value |-> v] \in HeldAt(store, Level(store, ref)[n])

\* The three forms of a node.
LEMMA NodeForms ==
  ASSUME NEW R, EmptyBytes \notin R, NEW n \in Nodes(R)
  PROVE  /\ n.type \in {"leaf", "extension", "branch"}
         /\ n.type = "leaf" => n = Leaf(n.path, n.data) /\ n.path \in Path /\ n.data \in Values
         /\ n.type = "extension" =>
              n = Extension(n.path, n.next) /\ n.path \in Path /\ n.next \in R
         /\ n.type = "branch" =>
              /\ n = Branch(n.branches, n.data) /\ n.branches \in Branches(R)
              /\ n.data \in Values \cup {EmptyBytes}
              /\ \A i \in Nibbles : n.branches[i] \in R \cup {EmptyBytes}
BY DEF Nodes, LeafNodes, ExtensionNodes, BranchNodes, Leaf, Extension, Branch, Branches

LEMMA WaysOfNode ==
  ASSUME NEW R, EmptyBytes \notin R, NEW n \in Nodes(R)
  PROVE  /\ Ways(n) \subseteq [digits : Path, ref : R \cup NoNode]
         /\ Held(n) \subseteq [digits : Path, value : Values]
         /\ n.type = "leaf" => /\ Ways(n) = {}
                               /\ Held(n) = {[digits |-> n.path, value |-> n.data]}
         /\ n.type = "extension" => /\ Ways(n) = {[digits |-> n.path, ref |-> n.next]}
                                    /\ Held(n) = {}
         /\ n.type = "branch" =>
              /\ Ways(n) = {[digits |-> <<i>>, ref |-> n.branches[i]] : i \in Nibbles}
              /\ Held(n) = {[digits |-> <<>>, value |-> d] : d \in {n.data} \ {EmptyBytes}}
<1>1. CASE n.type = "leaf"
  BY <1>1, NodeForms DEF Ways, Held
<1>2. CASE n.type = "extension"
  BY <1>2, NodeForms DEF Ways, Held
<1>3. CASE n.type = "branch"
  <2>1. <<>> \in Path /\ \A i \in Nibbles : <<i>> \in Path
    BY DigitPath, EmptySeq DEF Path
  <2> QED
    BY <1>3, <2>1, NodeForms DEF Ways, Held, NoNode
<1> QED
  BY <1>1, <1>2, <1>3, NodeForms

\* What it is for e to be a place below those of P, or a path and value there.
Reached(store, P, e) ==
  \E pl \in P : /\ Readable(store, pl.ref)
                /\ \E way \in Ways(pl.ref.of) :
                     e = [digits |-> pl.digits \o way.digits, ref |-> way.ref]

Found(store, P, e) ==
  \E pl \in P : /\ Readable(store, pl.ref)
                /\ \E h \in Held(pl.ref.of) :
                     e = [digits |-> pl.digits \o h.digits, value |-> h.value]

LEMMA DeeperMember ==
  ASSUME NEW store, NEW P, NEW e
  PROVE  e \in Deeper(store, P) <=> Reached(store, P, e)
<1> DEFINE G(pl) == {[digits |-> pl.digits \o way.digits, ref |-> way.ref] : way \in Ways(pl.ref.of)}
           Q == {pl \in P : Readable(store, pl.ref)}
<1>1. Deeper(store, P) = UNION {G(pl) : pl \in Q}
  BY DEF Deeper
<1>2. \A pl : e \in G(pl) <=> \E way \in Ways(pl.ref.of) :
                               e = [digits |-> pl.digits \o way.digits, ref |-> way.ref]
  OBVIOUS
<1> HIDE DEF G
<1>3. e \in UNION {G(pl) : pl \in Q} <=> \E pl \in Q : e \in G(pl)
  BY Zenon
<1> QED
  BY <1>1, <1>2, <1>3 DEF Reached

LEMMA HeldAtMember ==
  ASSUME NEW store, NEW P, NEW e
  PROVE  e \in HeldAt(store, P) <=> Found(store, P, e)
<1> DEFINE G(pl) == {[digits |-> pl.digits \o h.digits, value |-> h.value] : h \in Held(pl.ref.of)}
           Q == {pl \in P : Readable(store, pl.ref)}
<1>1. HeldAt(store, P) = UNION {G(pl) : pl \in Q}
  BY DEF HeldAt
<1>2. \A pl : e \in G(pl) <=> \E h \in Held(pl.ref.of) :
                               e = [digits |-> pl.digits \o h.digits, value |-> h.value]
  OBVIOUS
<1> HIDE DEF G
<1>3. e \in UNION {G(pl) : pl \in Q} <=> \E pl \in Q : e \in G(pl)
  BY Zenon
<1> QED
  BY <1>1, <1>2, <1>3 DEF Found

\* Below places of references in R are places of references in R.
LEMMA DeeperTyped ==
  ASSUME NEW R, Closed(R), NEW store,
         NEW P, P \subseteq [digits : Path, ref : R \cup NoNode]
  PROVE  Deeper(store, P) \subseteq [digits : Path, ref : R \cup NoNode]
<1> SUFFICES ASSUME NEW e \in Deeper(store, P)
             PROVE  e \in [digits : Path, ref : R \cup NoNode]
  OBVIOUS
<1>1. PICK pl \in P : /\ Readable(store, pl.ref)
                      /\ \E way \in Ways(pl.ref.of) :
                           e = [digits |-> pl.digits \o way.digits, ref |-> way.ref]
  <2>1. Reached(store, P, e)
    BY DeeperMember
  <2> QED
    BY <2>1 DEF Reached
<1>2. PICK way \in Ways(pl.ref.of) : e = [digits |-> pl.digits \o way.digits, ref |-> way.ref]
  BY <1>1
<1>3. pl.ref \in R /\ pl.digits \in Path
  BY <1>1 DEF Readable
<1>4. way \in [digits : Path, ref : R \cup NoNode]
  BY <1>3, WaysOfNode DEF Closed, NoNode
<1> QED
  BY <1>2, <1>3, <1>4, ConcatPath

LEMMA LevelTyped ==
  ASSUME NEW R, Closed(R), NEW store, NEW r \in R \cup NoNode
  PROVE  \A n \in Nat : Level(store, r)[n] \subseteq [digits : Path, ref : R \cup NoNode]
<1> DEFINE S == {n \in Nat : Level(store, r)[n] \subseteq [digits : Path, ref : R \cup NoNode]}
<1>1. 0 \in S
  <2>1. <<>> \in Path
    BY EmptySeq DEF Path
  <2> QED
    BY <2>1, LevelSteps
<1>2. ASSUME NEW n \in Nat, n \in S PROVE n + 1 \in S
  <2>1. Level(store, r)[n + 1] = Deeper(store, Level(store, r)[n])
    BY LevelSteps
  <2> QED
    BY <1>2, <2>1, DeeperTyped
<1> HIDE DEF S
<1>3. Nat \subseteq S
  BY <1>1, <1>2, SetInduction
<1> QED
  BY <1>3 DEF S

\* Nothing is below a reference that cannot be followed.
LEMMA LevelUnreadable ==
  ASSUME NEW store, NEW r, ~Readable(store, r)
  PROVE  \A n \in Nat : \A pl \in Level(store, r)[n] : ~Readable(store, pl.ref)
<1> DEFINE S == {n \in Nat : \A pl \in Level(store, r)[n] : ~Readable(store, pl.ref)}
<1>1. 0 \in S
  BY LevelSteps
<1>2. ASSUME NEW n \in Nat, n \in S PROVE n + 1 \in S
  <2>1. Level(store, r)[n + 1] = Deeper(store, Level(store, r)[n])
    BY LevelSteps
  <2>2. Deeper(store, Level(store, r)[n]) = {}
    BY <1>2 DEF Deeper
  <2> QED
    BY <2>1, <2>2
<1> HIDE DEF S
<1>3. Nat \subseteq S
  BY <1>1, <1>2, SetInduction
<1> QED
  BY <1>3 DEF S

\* One level below r come the tries its ways lead to, each behind the digits
\* of its way.
InBelow(store, r, n, d, s) ==
  \E way \in Ways(r.of) : \E pl \in Level(store, way.ref)[n] :
    d = way.digits \o pl.digits /\ s = pl.ref

LEMMA LevelBelow ==
  ASSUME NEW R, Closed(R), NEW store, NEW r \in R, Readable(store, r)
  PROVE  \A n \in Nat : \A d, s :
           [digits |-> d, ref |-> s] \in Level(store, r)[n + 1] <=> InBelow(store, r, n, d, s)
<1> DEFINE T == [digits : Path, ref : R \cup NoNode]
           S == {n \in Nat : \A d, s : [digits |-> d, ref |-> s] \in Level(store, r)[n + 1] <=> InBelow(store, r, n, d, s)}
<1>0. Ways(r.of) \subseteq T
  BY WaysOfNode DEF Closed, NoNode
<1>1. 0 \in S
  <2>1. Level(store, r)[1] = Deeper(store, {[digits |-> <<>>, ref |-> r]})
    BY LevelSteps
  <2>2. \A way \in Ways(r.of) : Level(store, way.ref)[0] = {[digits |-> <<>>, ref |-> way.ref]}
    BY LevelSteps
  <2>3. \A way \in Ways(r.of) : <<>> \o way.digits = way.digits /\ way.digits \o <<>> = way.digits
    BY <1>0, ConcatEmptySeq DEF Path
  <2>4. ASSUME NEW d, NEW s
        PROVE  [digits |-> d, ref |-> s] \in Level(store, r)[1] <=> InBelow(store, r, 0, d, s)
    <3>1. [digits |-> d, ref |-> s] \in Level(store, r)[1]
            <=> \E way \in Ways(r.of) : d = <<>> \o way.digits /\ s = way.ref
      <4>1. [digits |-> d, ref |-> s] \in Level(store, r)[1]
              <=> Reached(store, {[digits |-> <<>>, ref |-> r]}, [digits |-> d, ref |-> s])
        BY <2>1, DeeperMember
      <4>2. Reached(store, {[digits |-> <<>>, ref |-> r]}, [digits |-> d, ref |-> s])
              <=> \E way \in Ways(r.of) : [digits |-> d, ref |-> s] = [digits |-> <<>> \o way.digits, ref |-> way.ref]
        BY DEF Reached
      <4>3. \A x, y : [digits |-> d, ref |-> s] = [digits |-> x, ref |-> y] <=> d = x /\ s = y
        OBVIOUS
      <4> QED
        BY <4>1, <4>2, <4>3
    <3>2. InBelow(store, r, 0, d, s) <=> \E way \in Ways(r.of) : d = way.digits \o <<>> /\ s = way.ref
      <4>1. ASSUME NEW way \in Ways(r.of)
            PROVE  (\E pl \in Level(store, way.ref)[0] : d = way.digits \o pl.digits /\ s = pl.ref)
                     <=> d = way.digits \o <<>> /\ s = way.ref
        <5> DEFINE e == [digits |-> <<>>, ref |-> way.ref]
        <5>1. Level(store, way.ref)[0] = {e} /\ e.digits = <<>> /\ e.ref = way.ref
          BY <2>2
        <5> HIDE DEF e
        <5> QED
          BY <5>1
      <4> QED
        BY <4>1 DEF InBelow
    <3> QED
      BY <2>3, <3>1, <3>2
  <2> QED
    BY <2>4, 0 + 1 = 1
<1>2. ASSUME NEW n \in Nat, n \in S PROVE n + 1 \in S
  <2> SUFFICES ASSUME NEW d, NEW s
               PROVE  [digits |-> d, ref |-> s] \in Level(store, r)[(n + 1) + 1] <=> InBelow(store, r, n + 1, d, s)
    OBVIOUS
  <2>1. Level(store, r)[(n + 1) + 1] = Deeper(store, Level(store, r)[n + 1])
    BY LevelSteps
  <2>2. \A way \in Ways(r.of) : /\ Level(store, way.ref)[n + 1] = Deeper(store, Level(store, way.ref)[n])
                                /\ Level(store, way.ref)[n] \subseteq T
    BY <1>0, LevelSteps, LevelTyped
  <2>3. Level(store, r)[n + 1] \subseteq T
    BY LevelTyped
  <2>4. ASSUME [digits |-> d, ref |-> s] \in Level(store, r)[(n + 1) + 1] PROVE InBelow(store, r, n + 1, d, s)
    <3>0. PICK pl \in Level(store, r)[n + 1] : \E w \in Ways(pl.ref.of) :
             Readable(store, pl.ref) /\ d = pl.digits \o w.digits /\ s = w.ref
      <4>1. Reached(store, Level(store, r)[n + 1], [digits |-> d, ref |-> s])
        BY <2>1, <2>4, DeeperMember
      <4> QED
        BY <4>1 DEF Reached
    <3>1. PICK w \in Ways(pl.ref.of) :
             Readable(store, pl.ref) /\ d = pl.digits \o w.digits /\ s = w.ref
      BY <3>0
    <3>2. [digits |-> pl.digits, ref |-> pl.ref] = pl
      BY <2>3
    <3>7. PICK way \in Ways(r.of) : \E q \in Level(store, way.ref)[n] :
             pl.digits = way.digits \o q.digits /\ pl.ref = q.ref
      <4>1. InBelow(store, r, n, pl.digits, pl.ref)
        BY <1>2, <3>2
      <4> QED
        BY <4>1 DEF InBelow
    <3>3. PICK q \in Level(store, way.ref)[n] :
             pl.digits = way.digits \o q.digits /\ pl.ref = q.ref
      BY <3>7
    <3> DEFINE e == [digits |-> q.digits \o w.digits, ref |-> w.ref]
    <3>4. e \in Level(store, way.ref)[n + 1]
      <4>1. Reached(store, Level(store, way.ref)[n], e)
        BY <3>1, <3>3 DEF Reached
      <4> QED
        BY <2>2, <4>1, DeeperMember
    <3>5. w.digits \in Path /\ way.digits \in Path /\ q.digits \in Path
      <4>1. pl.ref \in R
        BY <2>3, <3>1 DEF Readable
      <4>2. w \in T
        BY <4>1, WaysOfNode DEF Closed, NoNode
      <4> QED
        BY <1>0, <2>2, <3>3, <4>2
    <3>6. d = way.digits \o e.digits /\ s = e.ref
      <4>1. (way.digits \o q.digits) \o w.digits = way.digits \o (q.digits \o w.digits)
        BY <3>5, ConcatPaths
      <4> QED
        BY <3>1, <3>3, <4>1
    <3> QED
      BY <3>4, <3>6 DEF InBelow
  <2>5. ASSUME InBelow(store, r, n + 1, d, s) PROVE [digits |-> d, ref |-> s] \in Level(store, r)[(n + 1) + 1]
    <3>0. PICK way \in Ways(r.of) : \E e \in Level(store, way.ref)[n + 1] :
             d = way.digits \o e.digits /\ s = e.ref
      BY <2>5 DEF InBelow
    <3>1. PICK e \in Level(store, way.ref)[n + 1] : d = way.digits \o e.digits /\ s = e.ref
      BY <3>0
    <3>6. PICK q \in Level(store, way.ref)[n] : \E w \in Ways(q.ref.of) :
             Readable(store, q.ref) /\ e = [digits |-> q.digits \o w.digits, ref |-> w.ref]
      <4>1. Reached(store, Level(store, way.ref)[n], e)
        BY <2>2, <3>1, DeeperMember
      <4> QED
        BY <4>1 DEF Reached
    <3>2. PICK w \in Ways(q.ref.of) :
             Readable(store, q.ref) /\ e = [digits |-> q.digits \o w.digits, ref |-> w.ref]
      BY <3>6
    <3> DEFINE pl == [digits |-> way.digits \o q.digits, ref |-> q.ref]
    <3>3. pl \in Level(store, r)[n + 1]
      <4>1. InBelow(store, r, n, pl.digits, pl.ref)
        BY <3>6 DEF InBelow
      <4> QED
        BY <1>2, <4>1
    <3>4. w.digits \in Path /\ way.digits \in Path /\ q.digits \in Path
      <4>1. q.ref \in R
        BY <2>2, <3>2 DEF Readable
      <4>2. w \in T
        BY <4>1, WaysOfNode DEF Closed, NoNode
      <4> QED
        BY <1>0, <2>2, <3>2, <4>2
    <3>5. d = pl.digits \o w.digits /\ s = w.ref
      <4>1. (way.digits \o q.digits) \o w.digits = way.digits \o (q.digits \o w.digits)
        BY <3>4, ConcatPaths
      <4> QED
        BY <3>1, <3>2, <4>1
    <3> QED
      <4>1. Reached(store, Level(store, r)[n + 1], [digits |-> d, ref |-> s])
        BY <3>2, <3>3, <3>5 DEF Reached
      <4> QED
        BY <2>1, <4>1, DeeperMember
  <2> QED
    BY <2>4, <2>5
<1> HIDE DEF S
<1>3. Nat \subseteq S
  BY <1>1, <1>2, SetInduction
<1>4. \A n \in Nat : n \in S
  BY <1>3
<1> QED
  BY <1>4, Zenon DEF S

\* Nothing is held where nothing can be read.
LEMMA HoldsUnreadable ==
  ASSUME NEW store, NEW r, ~Readable(store, r), NEW k, NEW v
  PROVE  ~Holds(store, r, k, v)
<1> SUFFICES ASSUME NEW n \in Nat, [digits |-> k, value |-> v] \in HeldAt(store, Level(store, r)[n])
             PROVE  FALSE
  BY DEF Holds
<1>1. Found(store, Level(store, r)[n], [digits |-> k, value |-> v])
  BY HeldAtMember
<1> QED
  BY <1>1, LevelUnreadable DEF Found

LEMMA HoldsTyped ==
  ASSUME NEW R, Closed(R), NEW store, NEW r \in R \cup NoNode, NEW k, NEW v, Holds(store, r, k, v)
  PROVE  k \in Path /\ v \in Values
<1>1. PICK n \in Nat : [digits |-> k, value |-> v] \in HeldAt(store, Level(store, r)[n])
  BY DEF Holds
<1>2. Found(store, Level(store, r)[n], [digits |-> k, value |-> v])
  BY <1>1, HeldAtMember
<1>3. PICK pl \in Level(store, r)[n] : /\ Readable(store, pl.ref)
                                       /\ \E h \in Held(pl.ref.of) :
                                            [digits |-> k, value |-> v] = [digits |-> pl.digits \o h.digits, value |-> h.value]
  BY <1>2 DEF Found
<1>4. PICK h \in Held(pl.ref.of) : k = pl.digits \o h.digits /\ v = h.value
  BY <1>3
<1>5. pl.digits \in Path /\ pl.ref \in R
  BY <1>1, <1>3, LevelTyped DEF Readable
<1>6. h.digits \in Path /\ h.value \in Values
  BY <1>5, WaysOfNode DEF Closed, NoNode
<1> QED
  BY <1>4, <1>5, <1>6, ConcatPath

\* A node holds its own values and, behind the digits of each way, what the
\* trie there holds.
LEMMA HoldsBelow ==
  ASSUME NEW R, Closed(R), NEW store, NEW r \in R, Readable(store, r), NEW k \in Path, NEW v
  PROVE  Holds(store, r, k, v) <=>
           \/ [digits |-> k, value |-> v] \in Held(r.of)
           \/ \E way \in Ways(r.of) : \E d \in Path :
                k = way.digits \o d /\ Holds(store, way.ref, d, v)
<1> DEFINE e == [digits |-> k, value |-> v]
           T == [digits : Path, ref : R \cup NoNode]
<1>1. Ways(r.of) \subseteq T /\ Held(r.of) \subseteq [digits : Path, value : Values]
  BY WaysOfNode DEF Closed, NoNode
<1>2. HeldAt(store, Level(store, r)[0]) = Held(r.of)
  <2> SUFFICES ASSUME NEW f PROVE f \in HeldAt(store, Level(store, r)[0]) <=> f \in Held(r.of)
    OBVIOUS
  <2>1. f \in HeldAt(store, Level(store, r)[0]) <=> Found(store, {[digits |-> <<>>, ref |-> r]}, f)
    BY LevelSteps, HeldAtMember
  <2>2. Found(store, {[digits |-> <<>>, ref |-> r]}, f)
          <=> \E h \in Held(r.of) : f = [digits |-> <<>> \o h.digits, value |-> h.value]
    BY DEF Found
  <2>3. \A h \in Held(r.of) : [digits |-> <<>> \o h.digits, value |-> h.value] = h
    <3> TAKE h \in Held(r.of)
    <3>1. <<>> \o h.digits = h.digits
      BY <1>1, ConcatEmptySeq DEF Path
    <3> QED
      BY <1>1, <3>1
  <2> QED
    BY <2>1, <2>2, <2>3
<1>3. ASSUME Holds(store, r, k, v), e \notin Held(r.of)
      PROVE  \E way \in Ways(r.of) : \E d \in Path :
               k = way.digits \o d /\ Holds(store, way.ref, d, v)
  <2>1. PICK m \in Nat : e \in HeldAt(store, Level(store, r)[m])
    BY <1>3 DEF Holds
  <2>2. m # 0
    BY <1>2, <1>3, <2>1
  <2>3. PICK n \in Nat : m = n + 1
    <3>1. m - 1 \in Nat /\ m = (m - 1) + 1
      BY <2>2
    <3> QED
      BY <3>1
  <2>4. Found(store, Level(store, r)[n + 1], e)
    BY <2>1, <2>3, HeldAtMember
  <2>5. PICK pl \in Level(store, r)[n + 1] :
           Readable(store, pl.ref) /\ \E h \in Held(pl.ref.of) :
             e = [digits |-> pl.digits \o h.digits, value |-> h.value]
    BY <2>4 DEF Found
  <2>6. PICK h \in Held(pl.ref.of) : e = [digits |-> pl.digits \o h.digits, value |-> h.value]
    BY <2>5
  <2>7. pl \in T /\ [digits |-> pl.digits, ref |-> pl.ref] = pl
    BY LevelTyped
  <2>8. InBelow(store, r, n, pl.digits, pl.ref)
    BY <2>7, LevelBelow
  <2>9. PICK way \in Ways(r.of) : \E q \in Level(store, way.ref)[n] :
           pl.digits = way.digits \o q.digits /\ pl.ref = q.ref
    BY <2>8 DEF InBelow
  <2>10. PICK q \in Level(store, way.ref)[n] : pl.digits = way.digits \o q.digits /\ pl.ref = q.ref
    BY <2>9
  <2>11. way.digits \in Path /\ q.digits \in Path /\ h.digits \in Path
    <3>1. way \in T /\ q \in T
      BY <1>1, LevelTyped
    <3>2. pl.ref \in R
      BY <2>5, <2>7 DEF Readable
    <3>3. h \in [digits : Path, value : Values]
      BY <3>2, WaysOfNode DEF Closed, NoNode
    <3> QED
      BY <3>1, <3>3
  <2> DEFINE d == q.digits \o h.digits
  <2>12. d \in Path /\ (way.digits \o q.digits) \o h.digits = way.digits \o d
    <3>1. d \in Path
      BY <2>11, ConcatPath
    <3>2. (way.digits \o q.digits) \o h.digits = way.digits \o (q.digits \o h.digits)
      BY <2>11, ConcatPaths
    <3> QED
      BY <3>1, <3>2
  <2>13. k = way.digits \o d /\ v = h.value
    BY <2>6, <2>10, <2>12
  <2>14. Found(store, Level(store, way.ref)[n], [digits |-> d, value |-> v])
    BY <2>5, <2>6, <2>10, <2>13 DEF Found
  <2>15. Holds(store, way.ref, d, v)
    BY <2>14, HeldAtMember DEF Holds
  <2> QED
    BY <2>12, <2>13, <2>15
<1>4. ASSUME NEW way \in Ways(r.of), NEW d \in Path, k = way.digits \o d, Holds(store, way.ref, d, v)
      PROVE  Holds(store, r, k, v)
  <2>1. PICK n \in Nat : [digits |-> d, value |-> v] \in HeldAt(store, Level(store, way.ref)[n])
    BY <1>4 DEF Holds
  <2>2. Found(store, Level(store, way.ref)[n], [digits |-> d, value |-> v])
    BY <2>1, HeldAtMember
  <2>3. PICK q \in Level(store, way.ref)[n] :
           Readable(store, q.ref) /\ \E h \in Held(q.ref.of) :
             [digits |-> d, value |-> v] = [digits |-> q.digits \o h.digits, value |-> h.value]
    BY <2>2 DEF Found
  <2>4. PICK h \in Held(q.ref.of) : d = q.digits \o h.digits /\ v = h.value
    BY <2>3
  <2>5. way.digits \in Path /\ q.digits \in Path /\ h.digits \in Path
    <3>1. way \in T /\ q \in T
      BY <1>1, LevelTyped
    <3>2. q.ref \in R
      BY <2>3, <3>1 DEF Readable
    <3>3. h \in [digits : Path, value : Values]
      BY <3>2, WaysOfNode DEF Closed, NoNode
    <3> QED
      BY <3>1, <3>3
  <2> DEFINE pl == [digits |-> way.digits \o q.digits, ref |-> q.ref]
  <2>6. pl \in Level(store, r)[n + 1]
    <3>1. InBelow(store, r, n, pl.digits, pl.ref)
      BY <2>3 DEF InBelow
    <3> QED
      BY <3>1, LevelBelow
  <2>7. k = pl.digits \o h.digits
    <3>1. (way.digits \o q.digits) \o h.digits = way.digits \o (q.digits \o h.digits)
      <4>1. \A a, b, c \in Path : (a \o b) \o c = a \o (b \o c)
        BY ConcatPaths
      <4> QED
        BY <2>5, <4>1, ZenonT(30)
    <3>2. pl.digits = way.digits \o q.digits
      OBVIOUS
    <3> HIDE DEF pl
    <3> QED
      BY <1>4, <2>4, <3>1, <3>2
  <2>8. Found(store, Level(store, r)[n + 1], e)
    BY <2>3, <2>4, <2>6, <2>7 DEF Found
  <2>9. e \in HeldAt(store, Level(store, r)[n + 1]) /\ n + 1 \in Nat
    BY <2>8, HeldAtMember
  <2> QED
    BY <2>9 DEF Holds
<1>5. ASSUME e \in Held(r.of) PROVE Holds(store, r, k, v)
  BY <1>2, <1>5 DEF Holds
<1> QED
  BY <1>3, <1>4, <1>5

\* The same for each form of a node.
LEMMA HoldsLeaf ==
  ASSUME NEW R, Closed(R), NEW store, NEW r \in R, Readable(store, r), r.of.type = "leaf",
         NEW k \in Path, NEW v
  PROVE  Holds(store, r, k, v) <=> k = r.of.path /\ v = r.of.data
<1>1. Ways(r.of) = {} /\ Held(r.of) = {[digits |-> r.of.path, value |-> r.of.data]}
  BY WaysOfNode DEF Closed, NoNode
<1>2. Holds(store, r, k, v) <=> [digits |-> k, value |-> v] \in Held(r.of)
  BY <1>1, HoldsBelow
<1>3. \A x, y : [digits |-> k, value |-> v] = [digits |-> x, value |-> y] <=> k = x /\ v = y
  OBVIOUS
<1> QED
  BY <1>1, <1>2, <1>3

LEMMA HoldsExtension ==
  ASSUME NEW R, Closed(R), NEW store, NEW r \in R, Readable(store, r), r.of.type = "extension",
         NEW k \in Path, NEW v
  PROVE  Holds(store, r, k, v) <=>
           /\ StartsWith(k, r.of.path)
           /\ Holds(store, r.of.next, Consume(k, Len(r.of.path)), v)
<1> DEFINE p == r.of.path
           next == r.of.next
           way == [digits |-> p, ref |-> next]
<1>1. Ways(r.of) = {way} /\ Held(r.of) = {} /\ p \in Path
  BY WaysOfNode, NodeForms DEF Closed, NoNode
<1>2. way.digits = p /\ way.ref = next
  OBVIOUS
<1> HIDE DEF way, next, p
<1>3. Holds(store, r, k, v) <=> \E d \in Path : k = p \o d /\ Holds(store, next, d, v)
  <2>1. Holds(store, r, k, v) <=>
          \/ [digits |-> k, value |-> v] \in Held(r.of)
          \/ \E w \in Ways(r.of) : \E d \in Path : k = w.digits \o d /\ Holds(store, w.ref, d, v)
    BY HoldsBelow
  <2> QED
    BY <1>1, <1>2, <2>1
<1>4. \A d \in Path : p \o d = k <=> StartsWith(k, p) /\ d = Consume(k, Len(p))
  BY <1>1, PrefixAndRest
<1>5. StartsWith(k, p) => Consume(k, Len(p)) \in Path
  BY <1>1, PrefixAndRest
<1>6. Holds(store, r, k, v) <=> StartsWith(k, p) /\ Holds(store, next, Consume(k, Len(p)), v)
  BY <1>3, <1>4, <1>5
<1> QED
  BY <1>6 DEF p, next

LEMMA HoldsBranch ==
  ASSUME NEW R, Closed(R), NEW store, NEW r \in R, Readable(store, r), r.of.type = "branch",
         NEW k \in Path, NEW v
  PROVE  Holds(store, r, k, v) <=>
           IF k = <<>> THEN v = r.of.data /\ v # EmptyBytes
           ELSE Holds(store, r.of.branches[k[1]], Consume(k, 1), v)
<1> DEFINE b == r.of.branches
<1>1. /\ Ways(r.of) = {[digits |-> <<i>>, ref |-> b[i]] : i \in Nibbles}
      /\ Held(r.of) = {[digits |-> <<>>, value |-> d] : d \in {r.of.data} \ {EmptyBytes}}
  BY WaysOfNode DEF Closed, NoNode
<1> HIDE DEF b
<1>2. [digits |-> k, value |-> v] \in Held(r.of) <=> k = <<>> /\ v = r.of.data /\ v # EmptyBytes
  BY <1>1
<1>3. (\E way \in Ways(r.of) : \E d \in Path : k = way.digits \o d /\ Holds(store, way.ref, d, v))
        <=> \E i \in Nibbles : \E d \in Path : k = <<i>> \o d /\ Holds(store, b[i], d, v)
  <2> DEFINE W(i) == [digits |-> <<i>>, ref |-> b[i]]
  <2>1. Ways(r.of) = {W(i) : i \in Nibbles} /\ \A i : W(i).digits = <<i>> /\ W(i).ref = b[i]
    BY <1>1
  <2> HIDE DEF W
  <2> QED
    BY <2>1
<1>4. ASSUME NEW i \in Nibbles, NEW d \in Path
      PROVE  k = <<i>> \o d <=> k # <<>> /\ k[1] = i /\ d = Consume(k, 1)
  BY DigitAndRest
<1>5. k # <<>> => k[1] \in Nibbles /\ Consume(k, 1) \in Path
  BY PathLength, DigitAndRest
<1>6. (\E i \in Nibbles : \E d \in Path : k = <<i>> \o d /\ Holds(store, b[i], d, v))
        <=> k # <<>> /\ Holds(store, b[k[1]], Consume(k, 1), v)
  BY <1>4, <1>5
<1>7. Holds(store, r, k, v) <=>
        \/ k = <<>> /\ v = r.of.data /\ v # EmptyBytes
        \/ k # <<>> /\ Holds(store, b[k[1]], Consume(k, 1), v)
  <2>1. Holds(store, r, k, v) <=>
          \/ [digits |-> k, value |-> v] \in Held(r.of)
          \/ \E way \in Ways(r.of) : \E d \in Path : k = way.digits \o d /\ Holds(store, way.ref, d, v)
    BY HoldsBelow
  <2> QED
    BY <1>2, <1>3, <1>6, <2>1
<1> QED
  BY <1>7 DEF b

-----------------------------------------------------------------------------
(* What a trie holds depends on its nodes alone *)

\* The rests a lookup goes on with are shorter: an extension has a path.
LEMMA ShorterRests ==
  ASSUME NEW R, Closed(R), NEW r \in R, NEW k \in Path
  PROVE  /\ r.of.type \in {"leaf", "extension", "branch"}
         /\ r.of.type = "extension" =>
              /\ r.of.path \in Path /\ r.of.next \in R
              /\ StartsWith(k, r.of.path) =>
                   /\ Consume(k, Len(r.of.path)) \in Path
                   /\ Len(Consume(k, Len(r.of.path))) < Len(k)
         /\ r.of.type = "branch" /\ k # <<>> =>
              /\ k[1] \in Nibbles /\ r.of.branches[k[1]] \in R \cup NoNode
              /\ Consume(k, 1) \in Path /\ Len(Consume(k, 1)) < Len(k)
<1>1. EmptyBytes \notin R /\ r.of \in Nodes(R) /\ Compressed(r.of)
  BY DEF Closed, NoNode
<1>2. Len(k) \in Nat
  BY PathLength
<1>3. CASE r.of.type = "extension"
  <2>1. r.of.path \in Path /\ r.of.next \in R /\ r.of.path # <<>>
    BY <1>1, <1>3, NodeForms DEF Compressed
  <2>2. Len(r.of.path) \in Nat /\ Len(r.of.path) # 0
    BY <2>1, PathLength
  <2>3. ASSUME StartsWith(k, r.of.path)
        PROVE  /\ Consume(k, Len(r.of.path)) \in Path
               /\ Len(Consume(k, Len(r.of.path))) < Len(k)
    <3>1. /\ Consume(k, Len(r.of.path)) \in Path
          /\ Len(Consume(k, Len(r.of.path))) = Len(k) - Len(r.of.path)
      BY <2>1, <2>3, PrefixAndRest
    <3> QED
      BY <1>2, <2>2, <3>1
  <2> QED
    BY <1>3, <2>1, <2>3
<1>4. CASE r.of.type = "branch" /\ k # <<>>
  <2>1. k[1] \in Nibbles
    BY <1>4, PathLength
  <2>2. Consume(k, 1) \in Path /\ Len(Consume(k, 1)) = Len(k) - 1
    BY <1>4, <2>1, DigitAndRest
  <2>3. r.of.branches[k[1]] \in R \cup NoNode
    BY <1>1, <1>4, <2>1, NodeForms DEF NoNode
  <2> QED
    BY <1>2, <1>4, <2>1, <2>2, <2>3
<1> QED
  BY <1>1, <1>3, <1>4, NodeForms

\* Two stores that have the nodes of R hold the same in the tries over R.
LEMMA HoldsSame ==
  ASSUME NEW R, Closed(R), NEW A, NEW B,
         \A r \in R : Readable(A, r) /\ Readable(B, r)
  PROVE  \A r \in R \cup NoNode, k \in Path : \A v : Holds(A, r, k, v) <=> Holds(B, r, k, v)
<1> DEFINE Same(r, k) == \A v : Holds(A, r, k, v) <=> Holds(B, r, k, v)
           S == {n \in Nat : \A k \in Path : Len(k) < n => \A r \in R \cup NoNode : Same(r, k)}
<1>1. 0 \in S
  BY PathLength
<1>2. ASSUME NEW n \in Nat, n \in S PROVE n + 1 \in S
  <2> SUFFICES ASSUME NEW k \in Path, Len(k) < n + 1, NEW r \in R \cup NoNode PROVE Same(r, k)
    <3> HIDE DEF Same
    <3> QED
      OBVIOUS
  <2>1. \A d \in Path : Len(d) < Len(k) => \A s \in R \cup NoNode : Same(s, d)
    <3>1. \A d \in Path : Len(d) \in Nat
      BY PathLength
    <3> HIDE DEF Same
    <3> QED
      BY <1>2, <3>1
  <2>2. CASE r \in NoNode
    BY <2>2, HoldsUnreadable DEF Readable
  <2>3. CASE r \in R
    <3>1. CASE r.of.type = "leaf"
      BY <2>3, <3>1, HoldsLeaf
    <3>2. CASE r.of.type = "extension"
      <4>1. StartsWith(k, r.of.path) => Same(r.of.next, Consume(k, Len(r.of.path)))
        <5> HIDE DEF Same
        <5> QED
          BY <2>1, <2>3, <3>2, ShorterRests
      <4> QED
        BY <2>3, <3>2, <4>1, HoldsExtension
    <3>3. CASE r.of.type = "branch"
      <4>1. k # <<>> => Same(r.of.branches[k[1]], Consume(k, 1))
        <5> HIDE DEF Same
        <5> QED
          BY <2>1, <2>3, <3>3, ShorterRests
      <4> QED
        BY <2>3, <3>3, <4>1, HoldsBranch
    <3> QED
      BY <2>3, <3>1, <3>2, <3>3, ShorterRests
  <2> QED
    BY <2>2, <2>3
<1> HIDE DEF S
<1>3. Nat \subseteq S
  BY <1>1, <1>2, SetInduction
<1>4. ASSUME NEW r \in R \cup NoNode, NEW k \in Path PROVE Same(r, k)
  <2>1. Len(k) + 1 \in S /\ Len(k) < Len(k) + 1
    BY <1>3, PathLength
  <2> HIDE DEF Same
  <2> QED
    BY <2>1 DEF S
<1> QED
  BY <1>4

\* A trie holds one value at most for a path.
LEMMA HoldsOnce ==
  ASSUME NEW R, Closed(R), NEW A, \A r \in R : Readable(A, r)
  PROVE  \A r \in R \cup NoNode, k \in Path : \A v, w :
           Holds(A, r, k, v) /\ Holds(A, r, k, w) => v = w
<1> DEFINE Once(r, k) == \A v, w : Holds(A, r, k, v) /\ Holds(A, r, k, w) => v = w
           S == {n \in Nat : \A k \in Path : Len(k) < n => \A r \in R \cup NoNode : Once(r, k)}
<1>1. 0 \in S
  BY PathLength
<1>2. ASSUME NEW n \in Nat, n \in S PROVE n + 1 \in S
  <2> SUFFICES ASSUME NEW k \in Path, Len(k) < n + 1, NEW r \in R \cup NoNode PROVE Once(r, k)
    <3> HIDE DEF Once
    <3> QED
      OBVIOUS
  <2>1. \A d \in Path : Len(d) < Len(k) => \A s \in R \cup NoNode : Once(s, d)
    <3>1. \A d \in Path : Len(d) \in Nat
      BY PathLength
    <3> HIDE DEF Once
    <3> QED
      BY <1>2, <3>1
  <2>2. CASE r \in NoNode
    BY <2>2, HoldsUnreadable DEF Readable
  <2>3. CASE r \in R
    <3>1. CASE r.of.type = "leaf"
      BY <2>3, <3>1, HoldsLeaf
    <3>2. CASE r.of.type = "extension"
      <4>1. StartsWith(k, r.of.path) => Once(r.of.next, Consume(k, Len(r.of.path)))
        <5> HIDE DEF Once
        <5> QED
          BY <2>1, <2>3, <3>2, ShorterRests
      <4> QED
        BY <2>3, <3>2, <4>1, HoldsExtension
    <3>3. CASE r.of.type = "branch"
      <4>1. k # <<>> => Once(r.of.branches[k[1]], Consume(k, 1))
        <5> HIDE DEF Once
        <5> QED
          BY <2>1, <2>3, <3>3, ShorterRests
      <4> QED
        BY <2>3, <3>3, <4>1, HoldsBranch
    <3> QED
      BY <2>3, <3>1, <3>2, <3>3, ShorterRests
  <2> QED
    BY <2>2, <2>3
<1> HIDE DEF S
<1>3. Nat \subseteq S
  BY <1>1, <1>2, SetInduction
<1>4. ASSUME NEW r \in R \cup NoNode, NEW k \in Path PROVE Once(r, k)
  <2>1. Len(k) + 1 \in S /\ Len(k) < Len(k) + 1
    BY <1>3, PathLength
  <2> HIDE DEF Once
  <2> QED
    BY <2>1 DEF S
<1> QED
  BY <1>4

-----------------------------------------------------------------------------
(* Contents is what the trie holds at the keys *)

\* Every level takes a digit at least.
LEMMA LevelDigits ==
  ASSUME NEW R, Closed(R), NEW A, NEW r \in R \cup NoNode
  PROVE  \A n \in Nat : \A pl \in Level(A, r)[n] : n <= Len(pl.digits)
<1> DEFINE T == [digits : Path, ref : R \cup NoNode]
           S == {n \in Nat : \A pl \in Level(A, r)[n] : n <= Len(pl.digits)}
<1>1. 0 \in S
  <2>1. \A pl \in Level(A, r)[0] : Len(pl.digits) \in Nat
    BY LevelTyped, PathLength
  <2> QED
    BY <2>1
<1>2. ASSUME NEW n \in Nat, n \in S PROVE n + 1 \in S
  <2> SUFFICES ASSUME NEW e \in Level(A, r)[n + 1] PROVE n + 1 <= Len(e.digits)
    OBVIOUS
  <2>1. Level(A, r)[n + 1] = Deeper(A, Level(A, r)[n])
    BY LevelSteps
  <2>2. Reached(A, Level(A, r)[n], e)
    BY <2>1, DeeperMember
  <2>3. PICK pl \in Level(A, r)[n] : /\ Readable(A, pl.ref)
                                     /\ \E way \in Ways(pl.ref.of) :
                                          e = [digits |-> pl.digits \o way.digits, ref |-> way.ref]
    BY <2>2 DEF Reached
  <2>4. PICK way \in Ways(pl.ref.of) : e.digits = pl.digits \o way.digits
    <3>1. PICK way \in Ways(pl.ref.of) : e = [digits |-> pl.digits \o way.digits, ref |-> way.ref]
      BY <2>3
    <3> QED
      BY <3>1
  <2>5. pl.digits \in Path /\ pl.ref \in R
    <3>1. pl \in T
      BY LevelTyped
    <3> QED
      BY <2>3, <3>1 DEF Readable
  <2>6. way.digits \in Path /\ way.digits # <<>>
    <3> DEFINE m == pl.ref.of
    <3>1. m \in Nodes(R) /\ Compressed(m) /\ EmptyBytes \notin R
      BY <2>5 DEF Closed, NoNode
    <3> HIDE DEF m
    <3>2. way \in Ways(m)
      BY DEF m
    <3>3. CASE m.type = "leaf"
      BY <3>1, <3>2, <3>3, WaysOfNode
    <3>4. CASE m.type = "extension"
      <4>1. Ways(m) = {[digits |-> m.path, ref |-> m.next]} /\ m.path \in Path /\ m.path # <<>>
        BY <3>1, <3>4, WaysOfNode, NodeForms DEF Compressed
      <4> QED
        BY <3>2, <4>1
    <3>5. CASE m.type = "branch"
      <4>1. Ways(m) = {[digits |-> <<i>>, ref |-> m.branches[i]] : i \in Nibbles}
        BY <3>1, <3>5, WaysOfNode
      <4>2. PICK i \in Nibbles : way.digits = <<i>>
        BY <3>2, <4>1
      <4> QED
        BY <4>2, DigitPath
    <3> QED
      BY <3>1, <3>3, <3>4, <3>5, NodeForms
  <2>7. /\ Len(e.digits) = Len(pl.digits) + Len(way.digits)
        /\ Len(pl.digits) \in Nat /\ Len(way.digits) \in Nat /\ Len(way.digits) # 0
    BY <2>4, <2>5, <2>6, ConcatPath, PathLength
  <2>8. n <= Len(pl.digits)
    BY <1>2
  <2>9. ASSUME NEW a \in Nat, NEW b \in Nat, b # 0, n <= a PROVE n + 1 <= a + b
    BY <2>9
  <2> QED
    <3> DEFINE a == Len(pl.digits)
               b == Len(way.digits)
    <3>1. a \in Nat /\ b \in Nat /\ b # 0 /\ n <= a /\ Len(e.digits) = a + b
      BY <2>7, <2>8
    <3> HIDE DEF a, b
    <3> QED
      BY <2>9, <3>1
<1> HIDE DEF S
<1>3. Nat \subseteq S
  BY <1>1, <1>2, SetInduction
<1> QED
  BY <1>3 DEF S

\* Reading depth levels finds all there is at paths of depth digits.
LEMMA PairsHold ==
  ASSUME NEW R, Closed(R), NEW A, NEW r \in R \cup NoNode, NEW depth \in Nat
  PROVE  /\ \A e \in Pairs(A, r, depth) :
              e = [digits |-> e.digits, value |-> e.value] /\ Holds(A, r, e.digits, e.value)
         /\ \A k \in Path : \A v : Len(k) <= depth /\ Holds(A, r, k, v)
                                     => [digits |-> k, value |-> v] \in Pairs(A, r, depth)
<1> DEFINE P == Pairs(A, r, depth)
<1>1. \A e : e \in P <=> \E n \in 0..depth : e \in HeldAt(A, Level(A, r)[n])
  BY DEF Pairs
<1>2. ASSUME NEW e \in P PROVE e = [digits |-> e.digits, value |-> e.value] /\ Holds(A, r, e.digits, e.value)
  <2>1. PICK n \in 0..depth : e \in HeldAt(A, Level(A, r)[n])
    BY <1>1
  <2>2. Found(A, Level(A, r)[n], e)
    BY <2>1, HeldAtMember
  <2>3. e = [digits |-> e.digits, value |-> e.value]
    BY <2>2 DEF Found
  <2> QED
    BY <2>1, <2>3 DEF Holds
<1>3. ASSUME NEW k \in Path, NEW v, Len(k) <= depth, Holds(A, r, k, v)
      PROVE  [digits |-> k, value |-> v] \in P
  <2> DEFINE e == [digits |-> k, value |-> v]
  <2>1. PICK n \in Nat : e \in HeldAt(A, Level(A, r)[n])
    BY <1>3 DEF Holds
  <2>2. Found(A, Level(A, r)[n], e)
    BY <2>1, HeldAtMember
  <2>3. PICK pl \in Level(A, r)[n] : /\ Readable(A, pl.ref)
                                     /\ \E h \in Held(pl.ref.of) :
                                          e = [digits |-> pl.digits \o h.digits, value |-> h.value]
    BY <2>2 DEF Found
  <2>4. PICK h \in Held(pl.ref.of) : k = pl.digits \o h.digits
    BY <2>3
  <2>5. pl.digits \in Path /\ pl.ref \in R
    <3>1. pl \in [digits : Path, ref : R \cup NoNode]
      BY LevelTyped
    <3> QED
      BY <2>3, <3>1 DEF Readable
  <2>6. h.digits \in Path
    BY <2>5, WaysOfNode DEF Closed, NoNode
  <2>7. Len(k) = Len(pl.digits) + Len(h.digits) /\ Len(pl.digits) \in Nat /\ Len(h.digits) \in Nat
    BY <2>4, <2>5, <2>6, ConcatPath, PathLength
  <2>8. n <= Len(pl.digits)
    BY LevelDigits
  <2>9. n \in 0..depth
    <3> DEFINE a == Len(pl.digits)
               b == Len(h.digits)
               c == Len(k)
    <3>1. a \in Nat /\ b \in Nat /\ c = a + b /\ n <= a /\ c <= depth
      BY <1>3, <2>7, <2>8
    <3> HIDE DEF a, b, c
    <3> QED
      BY <3>1
  <2> HIDE DEF P, e
  <2> QED
    BY <1>1, <2>1, <2>9 DEF e
<1> QED
  BY <1>2, <1>3

\* Contents, of any store.
ContentsOf(store, ref) ==
  LET pairs == Pairs(store, ref, MaxDigits)
  IN  [k \in Keys |-> IF \E e \in pairs : e.digits = k
                      THEN (CHOOSE e \in pairs : e.digits = k).value ELSE EmptyBytes]

LEMMA ContentsHold ==
  ASSUME NEW R, Closed(R), NEW A, \A r \in R : Readable(A, r), NEW r \in R \cup NoNode
  PROVE  /\ ContentsOf(A, r) = [k \in Keys |-> ContentsOf(A, r)[k]]
         /\ \A k \in Keys : \A v : Holds(A, r, k, v) => ContentsOf(A, r)[k] = v
         /\ \A k \in Keys : (\A v : ~Holds(A, r, k, v)) => ContentsOf(A, r)[k] = EmptyBytes
<1> DEFINE P == Pairs(A, r, MaxDigits)
           At(k) == IF \E e \in P : e.digits = k
                    THEN (CHOOSE e \in P : e.digits = k).value ELSE EmptyBytes
<1>1. ContentsOf(A, r) = [k \in Keys |-> At(k)]
  BY DEF ContentsOf
<1>2. /\ \A e \in P : Holds(A, r, e.digits, e.value)
      /\ \A k \in Path : \A v : Len(k) <= MaxDigits /\ Holds(A, r, k, v)
                                  => [digits |-> k, value |-> v] \in P
  BY PairsHold, ReadAssumption
<1>3. \A k \in Keys : k \in Path /\ Len(k) <= MaxDigits
  BY TrieAssumption, ReadAssumption
<1> HIDE DEF P
<1>4. ASSUME NEW k \in Keys, NEW v, Holds(A, r, k, v) PROVE At(k) = v
  <2> DEFINE e == CHOOSE e \in P : e.digits = k
  <2>1. \E f \in P : f.digits = k
    <3>1. [digits |-> k, value |-> v] \in P
      BY <1>2, <1>3, <1>4
    <3> QED
      BY <3>1
  <2>2. e \in P /\ e.digits = k
    BY <2>1
  <2>3. Holds(A, r, k, e.value)
    BY <1>2, <2>2
  <2>4. e.value = v
    BY <1>3, <1>4, <2>3, HoldsOnce
  <2> QED
    BY <2>1, <2>4
<1>5. ASSUME NEW k \in Keys, \A v : ~Holds(A, r, k, v) PROVE At(k) = EmptyBytes
  BY <1>2, <1>5
<1> HIDE DEF At
<1> QED
  BY <1>1, <1>4, <1>5

-----------------------------------------------------------------------------
(* Paths taken apart *)

LEMMA EmptyPath ==
  ASSUME NEW k \in Path
  PROVE  <<>> \in Path /\ StartsWith(k, <<>>) /\ Consume(k, 0) = k /\ k \o <<>> = k /\ <<>> \o k = k
<1>1. <<>> \in Path /\ <<>> \o k = k /\ k \o <<>> = k /\ Len(<<>>) = 0
  BY EmptySeq, ConcatEmptySeq DEF Path
<1>2. StartsWith(k, <<>>) /\ k = Consume(k, Len(<<>>))
  BY <1>1, PrefixAndRest
<1> QED
  BY <1>1, <1>2

\* To take off p and then q is to take off both at once.
LEMMA PrefixInParts ==
  ASSUME NEW k \in Path, NEW p \in Path, NEW q \in Path
  PROVE  /\ StartsWith(k, p \o q) <=> StartsWith(k, p) /\ StartsWith(Consume(k, Len(p)), q)
         /\ StartsWith(k, p \o q) =>
              Consume(k, Len(p \o q)) = Consume(Consume(k, Len(p)), Len(q))
<1> DEFINE u == p \o q
<1>1. u \in Path /\ \A e \in Path : u \o e = p \o (q \o e) /\ q \o e \in Path
  <2>1. u \in Path
    BY ConcatPath
  <2>2. \A e \in Path : (p \o q) \o e = p \o (q \o e)
    BY ConcatPaths
  <2>3. \A e \in Path : q \o e \in Path
    BY ConcatPath
  <2> QED
    BY <2>1, <2>2, <2>3
<1> HIDE DEF u
<1>2. ASSUME StartsWith(k, u)
      PROVE  /\ StartsWith(k, p) /\ StartsWith(Consume(k, Len(p)), q)
             /\ Consume(k, Len(u)) = Consume(Consume(k, Len(p)), Len(q))
  <2> DEFINE e == Consume(k, Len(u))
  <2>1. e \in Path /\ u \o e = k
    BY <1>1, <1>2, PrefixAndRest
  <2> HIDE DEF e
  <2>2. p \o (q \o e) = k /\ q \o e \in Path
    BY <1>1, <2>1
  <2>3. StartsWith(k, p) /\ q \o e = Consume(k, Len(p))
    <3> DEFINE f == q \o e
    <3>1. f \in Path /\ p \o f = k
      BY <2>2
    <3>a. \A g \in Path : p \o g = k <=> StartsWith(k, p) /\ g = Consume(k, Len(p))
      BY PrefixAndRest
    <3> HIDE DEF f
    <3>2. StartsWith(k, p) /\ f = Consume(k, Len(p))
      BY <3>1, <3>a
    <3> QED
      BY <3>2 DEF f
  <2>4. Consume(k, Len(p)) \in Path
    BY <2>2, <2>3
  <2>5. StartsWith(Consume(k, Len(p)), q) /\ e = Consume(Consume(k, Len(p)), Len(q))
    BY <2>1, <2>3, <2>4, PrefixAndRest
  <2> QED
    BY <2>3, <2>5 DEF e
<1>3. ASSUME StartsWith(k, p), StartsWith(Consume(k, Len(p)), q) PROVE StartsWith(k, u)
  <2> DEFINE d == Consume(k, Len(p))
             e == Consume(d, Len(q))
  <2>1. d \in Path /\ p \o d = k
    BY <1>3, PrefixAndRest
  <2>2. e \in Path /\ q \o e = d
    BY <1>3, <2>1, PrefixAndRest
  <2> HIDE DEF d, e
  <2>3. u \o e = k
    BY <1>1, <2>1, <2>2
  <2> QED
    BY <1>1, <2>2, <2>3, PrefixAndRest
<1> QED
  BY <1>2, <1>3 DEF u

\* The parts of two paths before and after the digits they share.
LEMMA SplitParts ==
  ASSUME NEW p \in Path, NEW q \in Path
  PROVE  \A c, u : c = CommonLen(p, q) /\ u = SubSeq(p, 1, c) =>
           /\ u \in Path
           /\ Consume(p, c) \in Path /\ p = u \o Consume(p, c)
           /\ Consume(q, c) \in Path /\ q = u \o Consume(q, c)
<1> SUFFICES ASSUME NEW c, c = CommonLen(p, q), NEW u, u = SubSeq(p, 1, c)
             PROVE  /\ u \in Path
                    /\ Consume(p, c) \in Path /\ p = u \o Consume(p, c)
                    /\ Consume(q, c) \in Path /\ q = u \o Consume(q, c)
  OBVIOUS
<1>1. /\ c \in 0..Len(p) /\ c \in 0..Len(q) /\ Len(p) \in Nat /\ Len(q) \in Nat
      /\ \A i \in 1..c : p[i] = q[i]
  BY CommonLenIsMaximal, PathLength
<1>2. u \in Path
  BY <1>1, PrefixPath
<1>3. Len(u) = c /\ \A i \in 1..c : u[i] = p[i]
  <2>1. \A i \in 1..c : p[i] \in Nibbles
    BY <1>1, ElementOfSeq DEF Path
  <2>2. /\ Len(SubSeq(p, 1, c)) = IF 1 <= c THEN c - 1 + 1 ELSE 0
        /\ \A i \in 1..(c - 1 + 1) : SubSeq(p, 1, c)[i] = p[1 + i - 1]
    BY <1>1, <2>1, SubSeqProperties
  <2> QED
    BY <1>1, <2>2
<1>4. StartsWith(p, u) /\ StartsWith(q, u)
  BY <1>1, <1>3 DEF StartsWith
<1> QED
  BY <1>2, <1>3, <1>4, PrefixAndRest

\* A path that is not empty is its first digit and the rest.
LEMMA FirstDigit ==
  ASSUME NEW p \in Path, p # <<>>
  PROVE  /\ p[1] \in Nibbles /\ <<p[1]>> \in Path /\ Len(<<p[1]>>) = 1
         /\ Consume(p, 1) \in Path /\ p = <<p[1]>> \o Consume(p, 1)
         /\ Len(Consume(p, 1)) = Len(p) - 1
         /\ Consume(p, 1) = <<>> <=> Len(p) = 1
<1>1. p[1] \in Nibbles /\ Len(p) \in Nat
  BY PathLength
<1>2. Consume(p, 1) \in Path /\ Len(Consume(p, 1)) = Len(p) - 1
  BY <1>1, DigitAndRest
<1>3. p = <<p[1]>> \o Consume(p, 1)
  BY <1>1, <1>2, DigitAndRest
<1>4. Consume(p, 1) = <<>> <=> Len(p) = 1
  BY <1>1, <1>2, PathLength
<1> QED
  BY <1>1, <1>2, <1>3, <1>4, DigitPath

\* Two paths that are not empty are equal, or one begins with the other, when
\* their first digits are equal and their rests are so.
LEMMA DigitByDigit ==
  ASSUME NEW d \in Path, d # <<>>, NEW p \in Path, p # <<>>
  PROVE  /\ d = p <=> d[1] = p[1] /\ Consume(d, 1) = Consume(p, 1)
         /\ StartsWith(d, p) <=> d[1] = p[1] /\ StartsWith(Consume(d, 1), Consume(p, 1))
         /\ StartsWith(d, p) =>
              Consume(d, Len(p)) = Consume(Consume(d, 1), Len(Consume(p, 1)))
<1> DEFINE x == <<p[1]>>
           y == Consume(p, 1)
<1>1. x \in Path /\ y \in Path /\ p = x \o y /\ Len(x) = 1 /\ p[1] \in Nibbles
  BY FirstDigit
<1>2. d = <<d[1]>> \o Consume(d, 1)
  BY FirstDigit
<1>3. d = p <=> d[1] = p[1] /\ Consume(d, 1) = Consume(p, 1)
  BY <1>1, <1>2
<1>4. StartsWith(d, x) <=> d[1] = p[1]
  <2>1. Len(d) \in Nat /\ Len(d) # 0
    BY PathLength
  <2> QED
    BY <1>1, <2>1 DEF StartsWith
<1> HIDE DEF x, y
<1>5. /\ StartsWith(d, x \o y) <=> StartsWith(d, x) /\ StartsWith(Consume(d, 1), y)
      /\ StartsWith(d, x \o y) => Consume(d, Len(x \o y)) = Consume(Consume(d, 1), Len(y))
  <2>1. /\ StartsWith(d, x \o y) <=> StartsWith(d, x) /\ StartsWith(Consume(d, Len(x)), y)
        /\ StartsWith(d, x \o y) => Consume(d, Len(x \o y)) = Consume(Consume(d, Len(x)), Len(y))
    BY <1>1, PrefixInParts, Zenon
  <2> QED
    BY <1>1, <2>1
<1> QED
  BY <1>1, <1>3, <1>4, <1>5 DEF y

-----------------------------------------------------------------------------
(* What the nodes that _update builds hold.  S stands for all references in *)
(* use, and for the store that has them all.                                *)

\* new holds what old holds, but w at p.
Updated(S, new, old, p, w) ==
  \A k \in Path : \A v : Holds(S, new, k, v) <=> IF k = p THEN v = w ELSE Holds(S, old, k, v)

LEMMA AllReadable ==
  ASSUME NEW S, Closed(S)
  PROVE  EmptyBytes \notin S /\ \A r \in S : Readable(S, r)
BY DEF Closed, Readable, NoNode

\* Where there was nothing, or a leaf with this path.
LEMMA UpdatedByLeaf ==
  ASSUME NEW S, Closed(S), NEW new \in S, NEW p \in Path, NEW w, new.of = Leaf(p, w),
         NEW old \in S \cup NoNode,
         old \in S => old.of.type = "leaf" /\ old.of.path = p
  PROVE  Updated(S, new, old, p, w)
<1> SUFFICES ASSUME NEW k \in Path, NEW v
             PROVE  Holds(S, new, k, v) <=> IF k = p THEN v = w ELSE Holds(S, old, k, v)
  BY DEF Updated
<1>1. new.of.type = "leaf" /\ new.of.path = p /\ new.of.data = w
  BY DEF Leaf
<1>2. Holds(S, new, k, v) <=> k = p /\ v = w
  BY <1>1, AllReadable, HoldsLeaf
<1>3. CASE old \in S
  <2>1. Holds(S, old, k, v) => k = p
    BY <1>3, AllReadable, HoldsLeaf
  <2> QED
    BY <1>2, <2>1
<1>4. CASE old \in NoNode
  <2>1. ~Holds(S, old, k, v)
    BY <1>4, HoldsUnreadable DEF Readable
  <2> QED
    BY <1>2, <2>1
<1> QED
  BY <1>3, <1>4

\* At a branch where the path ends.
LEMMA UpdatedBranchValue ==
  ASSUME NEW S, Closed(S), NEW new \in S, NEW old \in S, NEW w \in Values,
         old.of.type = "branch", new.of = Branch(old.of.branches, w)
  PROVE  Updated(S, new, old, <<>>, w)
<1> SUFFICES ASSUME NEW k \in Path, NEW v
             PROVE  Holds(S, new, k, v) <=> IF k = <<>> THEN v = w ELSE Holds(S, old, k, v)
  BY DEF Updated
<1>1. new.of.type = "branch" /\ new.of.branches = old.of.branches /\ new.of.data = w
  BY DEF Branch
<1>2. Holds(S, new, k, v) <=> IF k = <<>> THEN v = w /\ v # EmptyBytes
                              ELSE Holds(S, old.of.branches[k[1]], Consume(k, 1), v)
  BY <1>1, AllReadable, HoldsBranch
<1>3. Holds(S, old, k, v) <=> IF k = <<>> THEN v = old.of.data /\ v # EmptyBytes
                              ELSE Holds(S, old.of.branches[k[1]], Consume(k, 1), v)
  BY AllReadable, HoldsBranch
<1>4. w # EmptyBytes
  BY NodeAssumption
<1> QED
  BY <1>2, <1>3, <1>4

\* Below an extension.
LEMMA UpdatedBelowExtension ==
  ASSUME NEW S, Closed(S), NEW new \in S, NEW old \in S, NEW w, NEW p \in Path, NEW child \in S,
         old.of.type = "extension", StartsWith(p, old.of.path),
         new.of = Extension(old.of.path, child),
         Updated(S, child, old.of.next, Consume(p, Len(old.of.path)), w)
  PROVE  Updated(S, new, old, p, w)
<1> DEFINE q == old.of.path
           d(k) == Consume(k, Len(q))
<1> SUFFICES ASSUME NEW k \in Path, NEW v
             PROVE  Holds(S, new, k, v) <=> IF k = p THEN v = w ELSE Holds(S, old, k, v)
  BY DEF Updated
<1>1. new.of.type = "extension" /\ new.of.path = q /\ new.of.next = child
  BY DEF Extension
<1>2. q \in Path
  BY NodeForms, AllReadable DEF Closed
<1>3. Holds(S, new, k, v) <=> StartsWith(k, q) /\ Holds(S, child, d(k), v)
  BY <1>1, AllReadable, HoldsExtension
<1>4. Holds(S, old, k, v) <=> StartsWith(k, q) /\ Holds(S, old.of.next, d(k), v)
  BY AllReadable, HoldsExtension
<1>5. StartsWith(k, q) => d(k) \in Path /\ q \o d(k) = k
  BY <1>2, PrefixAndRest
<1>6. d(p) \in Path /\ q \o d(p) = p
  BY <1>2, PrefixAndRest
<1>7. StartsWith(k, q) => (Holds(S, child, d(k), v)
                             <=> IF d(k) = d(p) THEN v = w ELSE Holds(S, old.of.next, d(k), v))
  BY <1>5 DEF Updated
<1> HIDE DEF d, q
<1>8. StartsWith(k, q) => (k = p <=> d(k) = d(p))
  BY <1>5, <1>6
<1>9. StartsWith(p, q)
  BY DEF q
<1> QED
  BY <1>3, <1>4, <1>7, <1>8, <1>9

\* Below a slot of a branch.
LEMMA UpdatedBelowBranch ==
  ASSUME NEW S, Closed(S), NEW new \in S, NEW old \in S, NEW w, NEW p \in Path, NEW child \in S,
         old.of.type = "branch", p # <<>>,
         new.of = Branch(SetBranch(old.of.branches, p[1], child), old.of.data),
         Updated(S, child, old.of.branches[p[1]], Consume(p, 1), w)
  PROVE  Updated(S, new, old, p, w)
<1> SUFFICES ASSUME NEW k \in Path, NEW v
             PROVE  Holds(S, new, k, v) <=> IF k = p THEN v = w ELSE Holds(S, old, k, v)
  BY DEF Updated
<1> DEFINE b == old.of.branches
           nb == new.of.branches
<1>1. new.of.type = "branch" /\ nb = SetBranch(b, p[1], child) /\ new.of.data = old.of.data
  BY DEF Branch
<1>2. Holds(S, new, k, v) <=> IF k = <<>> THEN v = old.of.data /\ v # EmptyBytes
                              ELSE Holds(S, nb[k[1]], Consume(k, 1), v)
  BY <1>1, AllReadable, HoldsBranch
<1>3. Holds(S, old, k, v) <=> IF k = <<>> THEN v = old.of.data /\ v # EmptyBytes
                              ELSE Holds(S, b[k[1]], Consume(k, 1), v)
  BY AllReadable, HoldsBranch
<1>4. CASE k = <<>>
  BY <1>2, <1>3, <1>4
<1>5. CASE k # <<>>
  <2>1. k[1] \in Nibbles /\ Consume(k, 1) \in Path
    BY <1>5, FirstDigit
  <2>2. nb[k[1]] = IF k[1] = p[1] THEN child ELSE b[k[1]]
    BY <1>1, <2>1 DEF SetBranch
  <2>3. k = p <=> k[1] = p[1] /\ Consume(k, 1) = Consume(p, 1)
    BY <1>5, DigitByDigit
  <2>4. Holds(S, child, Consume(k, 1), v)
          <=> IF Consume(k, 1) = Consume(p, 1) THEN v = w ELSE Holds(S, b[p[1]], Consume(k, 1), v)
    BY <2>1 DEF Updated
  <2> HIDE DEF b, nb
  <2> QED
    BY <1>2, <1>3, <1>5, <2>2, <2>3, <2>4
<1> QED
  BY <1>4, <1>5

\* A slot filled by _create_branch_leaf, and the others.
LEMMA LeafInSlot ==
  ASSUME NEW S, Closed(S), NEW b, NEW p \in Path, NEW w, Stored(BranchLeaf(p, w)) \subseteq S,
         NEW i \in Nibbles, NEW d \in Path, NEW v
  PROVE  Holds(S, AddBranchLeaf(b, p, w)[i], d, v) <=>
           IF p # <<>> /\ i = p[1] THEN d = Consume(p, 1) /\ v = w ELSE Holds(S, b[i], d, v)
<1>1. CASE p = <<>>
  BY <1>1 DEF AddBranchLeaf
<1>2. CASE p # <<>>
  <2> DEFINE n == Leaf(Consume(p, 1), w)
             r == IntoReference(n)
  <2>1. r \in S
    <3>1. r \in Stored(<<n>>)
      BY DEF Stored
    <3> QED
      BY <1>2, <3>1 DEF BranchLeaf
  <2>2. r.of = n /\ n.type = "leaf" /\ n.path = Consume(p, 1) /\ n.data = w
    BY DEF IntoReference, Leaf
  <2>3. AddBranchLeaf(b, p, w)[i] = IF i = p[1] THEN r ELSE b[i]
    BY <1>2 DEF AddBranchLeaf, SetBranch
  <2> HIDE DEF r, n
  <2>4. Holds(S, r, d, v) <=> d = Consume(p, 1) /\ v = w
    BY <2>1, <2>2, AllReadable, HoldsLeaf
  <2> QED
    BY <1>2, <2>3, <2>4
<1> QED
  BY <1>1, <1>2

\* A slot filled by _create_branch_extension, and the others.
LEMMA ExtensionInSlot ==
  ASSUME NEW S, Closed(S), NEW b, NEW p \in Path, p # <<>>, NEW next \in S,
         Stored(BranchExtension(p, next)) \subseteq S,
         NEW i \in Nibbles, NEW d \in Path, NEW v
  PROVE  Holds(S, AddBranchExtension(b, p, next)[i], d, v) <=>
           IF i = p[1]
           THEN /\ StartsWith(d, Consume(p, 1))
                /\ Holds(S, next, Consume(d, Len(Consume(p, 1))), v)
           ELSE Holds(S, b[i], d, v)
<1> DEFINE q == Consume(p, 1)
<1>1. q \in Path /\ (q = <<>> <=> Len(p) = 1)
  BY FirstDigit
<1>2. CASE Len(p) = 1
  <2>1. q = <<>> /\ Len(q) = 0
    BY <1>1, <1>2, PathLength
  <2>2. StartsWith(d, q) /\ Consume(d, Len(q)) = d
    BY <2>1, EmptyPath
  <2>3. AddBranchExtension(b, p, next)[i] = IF i = p[1] THEN next ELSE b[i]
    BY <1>2 DEF AddBranchExtension, SetBranch
  <2> QED
    BY <2>2, <2>3
<1>3. CASE Len(p) # 1
  <2> DEFINE n == Extension(q, next)
             r == IntoReference(n)
  <2>1. r \in S
    <3>1. r \in Stored(<<n>>)
      BY DEF Stored
    <3> QED
      BY <1>3, <3>1 DEF BranchExtension
  <2>2. r.of = n /\ n.type = "extension" /\ n.path = q /\ n.next = next
    BY DEF IntoReference, Extension
  <2>3. AddBranchExtension(b, p, next)[i] = IF i = p[1] THEN r ELSE b[i]
    BY <1>3 DEF AddBranchExtension, SetBranch
  <2> HIDE DEF r, n
  <2>4. Holds(S, r, d, v) <=> StartsWith(d, q) /\ Holds(S, next, Consume(d, Len(q)), v)
    BY <2>1, <2>2, AllReadable, HoldsExtension
  <2> QED
    BY <2>3, <2>4
<1> QED
  BY <1>2, <1>3

\* One sequence of nodes stored after another.
LEMMA StoredAfter ==
  ASSUME NEW X, NEW s \in Seq(X), NEW t \in Seq(X)
  PROVE  /\ s \o t \in Seq(X)
         /\ Stored(s \o t) = Stored(s) \cup Stored(t)
         /\ t # <<>> => s \o t # <<>> /\ (s \o t)[Len(s \o t)] = t[Len(t)]
<1> DEFINE u == s \o t
<1>1. /\ u \in Seq(X) /\ Len(u) = Len(s) + Len(t)
      /\ \A i \in 1..Len(u) : u[i] = IF i <= Len(s) THEN s[i] ELSE t[i - Len(s)]
      /\ Len(s) \in Nat /\ Len(t) \in Nat
  BY ConcatProperties, LenProperties
<1> HIDE DEF u
<1>2. \A i \in 1..Len(s) : i \in 1..Len(u) /\ u[i] = s[i]
  BY <1>1
<1>3. ASSUME NEW i \in 1..Len(t) PROVE Len(s) + i \in 1..Len(u) /\ u[Len(s) + i] = t[i]
  <2> DEFINE k == Len(s) + i
  <2>1. k \in 1..Len(u) /\ ~(k <= Len(s)) /\ k - Len(s) = i
    BY <1>1
  <2> HIDE DEF k
  <2>2. u[k] = t[i]
    BY <1>1, <2>1
  <2> QED
    BY <2>1, <2>2 DEF k
<1>4. ASSUME NEW i \in 1..Len(u)
      PROVE  i \in 1..Len(s) \/ (i - Len(s) \in 1..Len(t) /\ Len(s) + (i - Len(s)) = i)
  BY <1>1
<1>5. Stored(u) \subseteq Stored(s) \cup Stored(t)
  <2> SUFFICES ASSUME NEW i \in 1..Len(u) PROVE IntoReference(u[i]) \in Stored(s) \cup Stored(t)
    BY DEF Stored
  <2>1. CASE i \in 1..Len(s)
    BY <1>2, <2>1 DEF Stored
  <2>2. CASE i \notin 1..Len(s)
    <3>1. i - Len(s) \in 1..Len(t) /\ Len(s) + (i - Len(s)) = i
      BY <1>4, <2>2
    <3>2. u[i] = t[i - Len(s)]
      BY <1>3, <3>1
    <3> QED
      BY <3>1, <3>2 DEF Stored
  <2> QED
    BY <2>1, <2>2
<1>6. Stored(s) \subseteq Stored(u)
  BY <1>2 DEF Stored
<1>7. Stored(t) \subseteq Stored(u)
  BY <1>3 DEF Stored
<1>8. ASSUME t # <<>> PROVE u # <<>> /\ u[Len(u)] = t[Len(t)]
  <2>1. Len(t) \in 1..Len(t)
    BY <1>1, <1>8, EmptySeq
  <2>2. u[Len(s) + Len(t)] = t[Len(t)]
    BY <1>3, <2>1
  <2>3. Len(u) # 0 /\ Len(<<>>) = 0
    BY <1>1, <2>1, EmptySeq
  <2> QED
    BY <1>1, <2>2, <2>3
<1> QED
  BY <1>1, <1>5, <1>6, <1>7, <1>8 DEF u

LEMMA StoredInParts ==
  ASSUME NEW X, NEW s \in Seq(X), NEW t \in Seq(X), NEW u \in Seq(X), u # <<>>
  PROVE  /\ Stored(s \o t \o u) = Stored(s) \cup Stored(t) \cup Stored(u)
         /\ (s \o t \o u)[Len(s \o t \o u)] = u[Len(u)]
<1> DEFINE st == s \o t
<1>1. st \in Seq(X) /\ Stored(st) = Stored(s) \cup Stored(t)
  BY StoredAfter
<1> HIDE DEF st
<1>2. Stored(st \o u) = Stored(st) \cup Stored(u) /\ (st \o u)[Len(st \o u)] = u[Len(u)]
  BY <1>1, StoredAfter
<1> QED
  BY <1>1, <1>2 DEF st

\* The branch of a split, with what the paths share above it.
LEMMA BranchBelowHolds ==
  ASSUME NEW S, Closed(S), NEW n, NEW u \in Path, Stored(BranchBelow(u, n)) \subseteq S,
         NEW r, r = IntoReference(BranchBelow(u, n)[Len(BranchBelow(u, n))])
  PROVE  /\ IntoReference(n) \in S /\ r \in S
         /\ \A k \in Path : \A v :
              Holds(S, r, k, v) <=>
                StartsWith(k, u) /\ Holds(S, IntoReference(n), Consume(k, Len(u)), v)
<1> DEFINE m == IntoReference(n)
<1>1. CASE u = <<>>
  <2>1. BranchBelow(u, n) = <<n>> /\ <<n>>[Len(<<n>>)] = n
    BY <1>1 DEF BranchBelow
  <2>2. r = m /\ m \in S
    <3>1. m \in Stored(<<n>>)
      BY DEF Stored
    <3> QED
      BY <2>1, <3>1
  <2>3. \A k \in Path : StartsWith(k, u) /\ Consume(k, Len(u)) = k
    BY <1>1, EmptyPath, PathLength
  <2> HIDE DEF m
  <2> QED
    BY <2>2, <2>3 DEF m
<1>2. CASE u # <<>>
  <2> DEFINE e == Extension(u, m)
             s == <<n, e>>
  <2>1. BranchBelow(u, n) = s
    BY <1>2 DEF BranchBelow
  <2>2. Len(s) = 2 /\ s[1] = n /\ s[2] = e
    OBVIOUS
  <2> HIDE DEF s
  <2>3. m \in Stored(s) /\ IntoReference(e) \in Stored(s)
    BY <2>2, 1 \in 1..2, 2 \in 1..2 DEF Stored
  <2>4. r = IntoReference(e) /\ r \in S /\ m \in S
    BY <2>1, <2>2, <2>3
  <2>5. r.of = e /\ e.type = "extension" /\ e.path = u /\ e.next = m
    BY <2>4 DEF IntoReference, Extension
  <2> HIDE DEF e, m
  <2>6. ASSUME NEW k \in Path, NEW v
        PROVE  Holds(S, r, k, v) <=> StartsWith(k, u) /\ Holds(S, m, Consume(k, Len(u)), v)
    BY <2>4, <2>5, AllReadable, HoldsExtension
  <2> QED
    BY <2>4, <2>6 DEF m
<1> QED
  BY <1>1, <1>2

\* A leaf and what is inserted beside it.
LEMMA UpdatedByLeafSplit ==
  ASSUME NEW S, Closed(S), NEW old \in S, old.of.type = "leaf", NEW p \in Path, old.of.path # p,
         NEW w \in Values, Stored(LeafSplit(p, w, old.of)) \subseteq S,
         NEW new, new = IntoReference(LeafSplit(p, w, old.of)[Len(LeafSplit(p, w, old.of))])
  PROVE  new \in S /\ Updated(S, new, old, p, w)
<1> DEFINE q == old.of.path
           x == old.of.data
           c == CommonLen(p, q)
           u == SubSeq(p, 1, c)
           a == Consume(p, c)
           b == Consume(q, c)
           ba == AddBranchLeaf(NoBranches, a, w)
           bb == AddBranchLeaf(ba, b, x)
           d == IF a = <<>> THEN w ELSE IF b = <<>> THEN x ELSE EmptyBytes
           n == Branch(bb, d)
           m == IntoReference(n)
           sa == BranchLeaf(a, w)
           sb == BranchLeaf(b, x)
           sn == BranchBelow(u, n)
<1>1. q \in Path /\ x \in Values
  BY NodeForms, AllReadable DEF Closed
<1>2. u \in Path /\ a \in Path /\ p = u \o a /\ b \in Path /\ q = u \o b
  <2>1. p \in Path /\ q \in Path
    BY <1>1
  <2> HIDE DEF q
  <2>2. \A i, s : i = CommonLen(p, q) /\ s = SubSeq(p, 1, i) =>
          /\ s \in Path
          /\ Consume(p, i) \in Path /\ p = s \o Consume(p, i)
          /\ Consume(q, i) \in Path /\ q = s \o Consume(q, i)
    BY <2>1, SplitParts, Zenon
  <2> QED
    BY <2>2
<1>3. ~(a = <<>> /\ b = <<>>) /\ (a # <<>> /\ b # <<>> => a[1] # b[1])
  BY <1>1, SplitPoint
<1>4. LeafSplit(p, w, old.of) = sa \o sb \o sn
  BY DEF LeafSplit
<1>5. Stored(sa) \subseteq S /\ Stored(sb) \subseteq S /\ Stored(sn) \subseteq S
      /\ new = IntoReference(sn[Len(sn)])
  <2> DEFINE X == {Leaf(Consume(a, 1), w), Leaf(Consume(b, 1), x), n, Extension(u, m)}
  <2>0. /\ <<>> \in Seq(X)
        /\ \A y \in X : <<y>> \in Seq(X) /\ <<y>> # <<>>
        /\ \A y, z \in X : <<y, z>> \in Seq(X) /\ <<y, z>> # <<>>
    <3> HIDE DEF X
    <3> QED
      BY EmptySeq
  <2>1. sa \in Seq(X)
    BY <2>0, Zenon DEF BranchLeaf
  <2>2. sb \in Seq(X)
    BY <2>0, Zenon DEF BranchLeaf
  <2>3. sn \in Seq(X) /\ sn # <<>>
    BY <2>0, Zenon DEF BranchBelow
  <2> HIDE DEF X, sa, sb, sn
  <2>4. /\ Stored(sa \o sb \o sn) = Stored(sa) \cup Stored(sb) \cup Stored(sn)
        /\ (sa \o sb \o sn)[Len(sa \o sb \o sn)] = sn[Len(sn)]
    BY <2>1, <2>2, <2>3, StoredInParts
  <2> QED
    BY <1>4, <2>4
<1>6. /\ m \in S /\ new \in S
      /\ \A k \in Path : \A v : Holds(S, new, k, v) <=> StartsWith(k, u) /\ Holds(S, m, Consume(k, Len(u)), v)
  <2> HIDE DEF n, u
  <2> QED
    BY <1>2, <1>5, BranchBelowHolds
<1>7. m.of.type = "branch" /\ m.of.branches = bb /\ m.of.data = d
  BY DEF IntoReference, Branch
<1> HIDE DEF m, n
<1>8. ASSUME NEW e \in Path, NEW v
      PROVE  Holds(S, m, e, v) <=> IF e = a THEN v = w ELSE e = b /\ v = x
  <2>1. Holds(S, m, e, v) <=> IF e = <<>> THEN v = d /\ v # EmptyBytes
                              ELSE Holds(S, bb[e[1]], Consume(e, 1), v)
    BY <1>6, <1>7, AllReadable, HoldsBranch
  <2>2. CASE e = <<>>
    <3>1. w # EmptyBytes /\ x # EmptyBytes
      BY <1>1, NodeAssumption
    <3> QED
      BY <1>3, <2>1, <2>2, <3>1
  <2>3. CASE e # <<>>
    <3> DEFINE i == e[1]
               f == Consume(e, 1)
    <3>1. i \in Nibbles /\ f \in Path
      BY <2>3, FirstDigit
    <3>2. a # <<>> => (e = a <=> i = a[1] /\ f = Consume(a, 1))
      BY <1>2, <2>3, DigitByDigit
    <3>3. b # <<>> => (e = b <=> i = b[1] /\ f = Consume(b, 1))
      BY <1>2, <2>3, DigitByDigit
    <3> HIDE DEF i, f, sa, sb, ba, bb, a, b, x, d
    <3>4. Holds(S, bb[i], f, v) <=> IF b # <<>> /\ i = b[1] THEN f = Consume(b, 1) /\ v = x
                                    ELSE Holds(S, ba[i], f, v)
      BY <1>2, <1>5, <3>1, LeafInSlot DEF bb, sb
    <3>5. Holds(S, ba[i], f, v) <=> IF a # <<>> /\ i = a[1] THEN f = Consume(a, 1) /\ v = w
                                    ELSE Holds(S, NoBranches[i], f, v)
      BY <1>2, <1>5, <3>1, LeafInSlot DEF ba, sa
    <3>6. ~Holds(S, NoBranches[i], f, v)
      BY <3>1, HoldsUnreadable DEF Readable, NoNode, NoBranches
    <3>7. Holds(S, m, e, v) <=> Holds(S, bb[i], f, v)
      BY <2>1, <2>3 DEF i, f
    <3> QED
      BY <1>3, <2>3, <3>2, <3>3, <3>4, <3>5, <3>6, <3>7
  <2> QED
    BY <2>2, <2>3
<1>9. ASSUME NEW k \in Path, NEW v
      PROVE  Holds(S, new, k, v) <=> IF k = p THEN v = w ELSE Holds(S, old, k, v)
  <2>1. Holds(S, old, k, v) <=> k = q /\ v = x
    BY AllReadable, HoldsLeaf
  <2> DEFINE e == Consume(k, Len(u))
  <2> HIDE DEF a, b, q, x, u
  <2>2. StartsWith(k, u) => e \in Path
    BY <1>2, PrefixAndRest
  <2>3. k = p <=> StartsWith(k, u) /\ e = a
    BY <1>2, PrefixAndRest
  <2>4. k = q <=> StartsWith(k, u) /\ e = b
    BY <1>2, PrefixAndRest
  <2> HIDE DEF e
  <2>5. Holds(S, new, k, v) <=> StartsWith(k, u) /\ Holds(S, m, e, v)
    BY <1>6 DEF e
  <2> QED
    BY <1>8, <2>1, <2>2, <2>3, <2>4, <2>5
<1> QED
  BY <1>6, <1>9 DEF Updated

\* An extension cut short, and what is inserted beside what it led to.
LEMMA UpdatedByExtensionSplit ==
  ASSUME NEW S, Closed(S), NEW old \in S, old.of.type = "extension",
         NEW p \in Path, ~StartsWith(p, old.of.path),
         NEW w \in Values, Stored(ExtensionSplit(p, w, old.of)) \subseteq S,
         NEW new, new = IntoReference(ExtensionSplit(p, w, old.of)[Len(ExtensionSplit(p, w, old.of))])
  PROVE  new \in S /\ Updated(S, new, old, p, w)
<1> DEFINE q == old.of.path
           next == old.of.next
           c == CommonLen(p, q)
           u == SubSeq(p, 1, c)
           a == Consume(p, c)
           b == Consume(q, c)
           ba == AddBranchLeaf(NoBranches, a, w)
           bb == AddBranchExtension(ba, b, next)
           d == IF a = <<>> THEN w ELSE EmptyBytes
           n == Branch(bb, d)
           m == IntoReference(n)
           sa == BranchLeaf(a, w)
           sb == BranchExtension(b, next)
           sn == BranchBelow(u, n)
<1>1. q \in Path /\ next \in S
  BY NodeForms, AllReadable DEF Closed
<1>2. u \in Path /\ a \in Path /\ p = u \o a /\ b \in Path /\ q = u \o b
  <2>1. p \in Path /\ q \in Path
    BY <1>1
  <2> HIDE DEF q
  <2>2. \A i, s : i = CommonLen(p, q) /\ s = SubSeq(p, 1, i) =>
          /\ s \in Path
          /\ Consume(p, i) \in Path /\ p = s \o Consume(p, i)
          /\ Consume(q, i) \in Path /\ q = s \o Consume(q, i)
    BY <2>1, SplitParts, Zenon
  <2> QED
    BY <2>2
<1>3. b # <<>> /\ (a # <<>> => a[1] # b[1])
  BY <1>1, SplitPoint
<1>4. ExtensionSplit(p, w, old.of) = sa \o sb \o sn
  BY DEF ExtensionSplit
<1>5. Stored(sa) \subseteq S /\ Stored(sb) \subseteq S /\ Stored(sn) \subseteq S
      /\ new = IntoReference(sn[Len(sn)])
  <2> DEFINE X == {Leaf(Consume(a, 1), w), Extension(Consume(b, 1), next), n, Extension(u, m)}
  <2>0. /\ <<>> \in Seq(X)
        /\ \A y \in X : <<y>> \in Seq(X) /\ <<y>> # <<>>
        /\ \A y, z \in X : <<y, z>> \in Seq(X) /\ <<y, z>> # <<>>
    <3> HIDE DEF X
    <3> QED
      BY EmptySeq
  <2>1. sa \in Seq(X)
    BY <2>0, Zenon DEF BranchLeaf
  <2>2. sb \in Seq(X)
    BY <2>0, Zenon DEF BranchExtension
  <2>3. sn \in Seq(X) /\ sn # <<>>
    BY <2>0, Zenon DEF BranchBelow
  <2> HIDE DEF X, sa, sb, sn
  <2>4. /\ Stored(sa \o sb \o sn) = Stored(sa) \cup Stored(sb) \cup Stored(sn)
        /\ (sa \o sb \o sn)[Len(sa \o sb \o sn)] = sn[Len(sn)]
    BY <2>1, <2>2, <2>3, StoredInParts
  <2> QED
    BY <1>4, <2>4
<1>6. /\ m \in S /\ new \in S
      /\ \A k \in Path : \A v : Holds(S, new, k, v) <=> StartsWith(k, u) /\ Holds(S, m, Consume(k, Len(u)), v)
  <2> HIDE DEF n, u
  <2> QED
    BY <1>2, <1>5, BranchBelowHolds
<1>7. m.of.type = "branch" /\ m.of.branches = bb /\ m.of.data = d
  BY DEF IntoReference, Branch
<1> HIDE DEF m, n
<1>8. ASSUME NEW e \in Path, NEW v
      PROVE  Holds(S, m, e, v) <=>
               IF e = a THEN v = w
               ELSE StartsWith(e, b) /\ Holds(S, next, Consume(e, Len(b)), v)
  <2>1. Holds(S, m, e, v) <=> IF e = <<>> THEN v = d /\ v # EmptyBytes
                              ELSE Holds(S, bb[e[1]], Consume(e, 1), v)
    BY <1>6, <1>7, AllReadable, HoldsBranch
  <2>2. CASE e = <<>>
    <3>1. w # EmptyBytes
      BY NodeAssumption
    <3>2. ~StartsWith(e, b)
      <4>1. Len(e) = 0 /\ Len(b) \in Nat /\ Len(b) # 0
        BY <1>2, <1>3, <2>2, PathLength
      <4> QED
        BY <4>1 DEF StartsWith
    <3> QED
      BY <2>1, <2>2, <3>1, <3>2
  <2>3. CASE e # <<>>
    <3> DEFINE i == e[1]
               f == Consume(e, 1)
               g == Consume(b, 1)
    <3>1. i \in Nibbles /\ f \in Path
      BY <2>3, FirstDigit
    <3>2. a # <<>> => (e = a <=> i = a[1] /\ f = Consume(a, 1))
      BY <1>2, <2>3, DigitByDigit
    <3>3. /\ StartsWith(e, b) <=> i = b[1] /\ StartsWith(f, g)
          /\ StartsWith(e, b) => Consume(e, Len(b)) = Consume(f, Len(g))
      BY <1>2, <1>3, <2>3, DigitByDigit
    <3> HIDE DEF i, f, sa, sb, ba, bb, a, b, d, next
    <3>4. Holds(S, bb[i], f, v) <=> IF i = b[1] THEN StartsWith(f, g) /\ Holds(S, next, Consume(f, Len(g)), v)
                                    ELSE Holds(S, ba[i], f, v)
      BY <1>1, <1>2, <1>3, <1>5, <3>1, ExtensionInSlot DEF bb, sb
    <3>5. Holds(S, ba[i], f, v) <=> IF a # <<>> /\ i = a[1] THEN f = Consume(a, 1) /\ v = w
                                    ELSE Holds(S, NoBranches[i], f, v)
      BY <1>2, <1>5, <3>1, LeafInSlot DEF ba, sa
    <3>6. ~Holds(S, NoBranches[i], f, v)
      BY <3>1, HoldsUnreadable DEF Readable, NoNode, NoBranches
    <3>7. Holds(S, m, e, v) <=> Holds(S, bb[i], f, v)
      BY <2>1, <2>3 DEF i, f
    <3> HIDE DEF g
    <3> QED
      BY <1>3, <2>3, <3>2, <3>3, <3>4, <3>5, <3>6, <3>7
  <2> QED
    BY <2>2, <2>3
<1>9. ASSUME NEW k \in Path, NEW v
      PROVE  Holds(S, new, k, v) <=> IF k = p THEN v = w ELSE Holds(S, old, k, v)
  <2>1. Holds(S, old, k, v) <=> StartsWith(k, q) /\ Holds(S, next, Consume(k, Len(q)), v)
    BY AllReadable, HoldsExtension
  <2> DEFINE e == Consume(k, Len(u))
  <2> HIDE DEF a, b, q, next, u
  <2>2. StartsWith(k, u) => e \in Path
    BY <1>2, PrefixAndRest
  <2>3. k = p <=> StartsWith(k, u) /\ e = a
    BY <1>2, PrefixAndRest
  <2>4. /\ StartsWith(k, q) <=> StartsWith(k, u) /\ StartsWith(e, b)
        /\ StartsWith(k, q) => Consume(k, Len(q)) = Consume(e, Len(b))
    BY <1>2, PrefixInParts
  <2> HIDE DEF e
  <2>5. Holds(S, new, k, v) <=> StartsWith(k, u) /\ Holds(S, m, e, v)
    BY <1>6 DEF e
  <2> QED
    BY <1>8, <2>1, <2>2, <2>3, <2>4, <2>5
<1> QED
  BY <1>6, <1>9 DEF Updated

\* What the references of R hold stays when there are more.
LEMMA HoldsWider ==
  ASSUME NEW R, NEW S, Closed(R), Closed(S), R \subseteq S, NEW r \in R \cup NoNode,
         NEW k \in Path, NEW v
  PROVE  Holds(R, r, k, v) <=> Holds(S, r, k, v)
<1>1. \A x \in R : Readable(R, x) /\ Readable(S, x)
  BY AllReadable
<1> QED
  BY <1>1, HoldsSame

LEMMA UpdatedWider ==
  ASSUME NEW R, NEW S, Closed(R), Closed(S), R \subseteq S,
         NEW new \in R, NEW old \in R \cup NoNode, NEW p, NEW w, Updated(R, new, old, p, w)
  PROVE  Updated(S, new, old, p, w)
<1> SUFFICES ASSUME NEW k \in Path, NEW v
             PROVE  Holds(S, new, k, v) <=> IF k = p THEN v = w ELSE Holds(S, old, k, v)
  BY DEF Updated
<1>1. Holds(R, new, k, v) <=> IF k = p THEN v = w ELSE Holds(R, old, k, v)
  BY DEF Updated
<1>2. Holds(R, new, k, v) <=> Holds(S, new, k, v)
  BY HoldsWider
<1>3. Holds(R, old, k, v) <=> Holds(S, old, k, v)
  BY HoldsWider
<1> QED
  BY <1>1, <1>2, <1>3

\* The references in use, and those of the nodes about to be stored.
LEMMA InvClosed ==
  ASSUME NEW R, StoreInv(R)
  PROVE  Closed(R) /\ \A r \in R : Readable(db, r) /\ Readable(R, r)
BY DEF StoreInv, Closed, Resolves, Readable, NoNode

LEMMA StoredClosed ==
  ASSUME NEW R, Closed(R), NEW s, Storable(s, R)
  PROVE  Closed(R \cup Stored(s))
<1> DEFINE S == R \cup Stored(s)
<1>1. R \subseteq S /\ Nodes(R) \subseteq Nodes(S)
  BY NodesMonotonic
<1>2. ASSUME NEW i \in 1..Len(s)
      PROVE  /\ IntoReference(s[i]) \notin NoNode
             /\ IntoReference(s[i]).of \in Nodes(S) /\ Compressed(IntoReference(s[i]).of)
  <2>1. s[i] \in Nodes(S) /\ Compressed(s[i])
    <3>1. s \in Seq(Nodes(S)) /\ Compressed(s[i])
      BY DEF Storable
    <3> HIDE DEF S
    <3> QED
      BY <3>1, ElementOfSeq
  <2>2. IntoReference(s[i]).of = s[i]
    BY DEF IntoReference
  <2> QED
    BY <2>1, <2>2, ReferenceIsNotEmpty
<1>3. ASSUME NEW r \in S PROVE r \notin NoNode /\ r.of \in Nodes(S) /\ Compressed(r.of)
  <2>1. CASE r \in R
    BY <1>1, <2>1 DEF Closed
  <2>2. CASE r \in Stored(s)
    <3>1. PICK i \in 1..Len(s) : r = IntoReference(s[i])
      BY <2>2 DEF Stored
    <3> QED
      BY <1>2, <3>1
  <2> QED
    BY <2>1, <2>2
<1> QED
  BY <1>3 DEF Closed

-----------------------------------------------------------------------------
(* The calls of _update: each waits at the node its caller's path leads to, *)
(* and what returns to it holds what was there but for the rest of the key  *)

\* The reference a waiting call went on with, whether it could, and the rest
\* of its path that it passed on.
Entered(frame) == IF frame.node.type = "extension" THEN frame.node.next
                  ELSE frame.node.branches[frame.slot]

Follows(frame, p) == IF frame.node.type = "extension" THEN StartsWith(p, frame.node.path)
                     ELSE p # <<>> /\ frame.slot = p[1]

Beyond(frame, p) == IF frame.node.type = "extension" THEN Consume(p, Len(frame.node.path))
                    ELSE Consume(p, 1)

\* The reference the i-th call was given.
Target(i) == IF i = 1 THEN rootRef ELSE Entered(stack[i - 1])

Running == pc \in {"update", "store", "return"}

\* P[i] is the path the i-th call was given.
Linked(P) ==
  /\ P \in [Nat -> Path] /\ P[1] = op.key
  /\ \A i \in 1..Len(stack) :
       /\ Target(i) \in db /\ stack[i].node = Target(i).of
       /\ Follows(stack[i], P[i]) /\ P[i + 1] = Beyond(stack[i], P[i])

\* What the innermost call has, is storing or has returned.
Innermost(R, P, n) ==
  /\ pc = "update" => cur = Target(n) /\ path = P[n]
  /\ pc = "store"  => Updated(R \cup Stored(todo), IntoReference(todo[Len(todo)]),
                              Target(n), P[n], op.value)
  /\ pc = "return" => Updated(R, ret, Target(n), P[n], op.value)

ChainInv(R, P) == Running => Linked(P) /\ Innermost(R, P, Len(stack) + 1)

\* The database and the calls of _update, as far as the map goes.
MapInv == \E R, P : Inv(R) /\ ChainInv(R, P)

LEMMA InnermostTarget ==
  ASSUME NEW R, Inv(R), Running, NEW P, Linked(P)
  PROVE  /\ Len(stack) \in Nat
         /\ Target(Len(stack) + 1) \in R \cup NoNode
<1> DEFINE F == ExtensionFrames \cup BranchFrames
           n == Len(stack)
<1>1. stack \in Seq(F) /\ n \in Nat
  <2>1. stack \in Seq(F)
    BY DEF Inv, StackInv
  <2> HIDE DEF F
  <2> QED
    BY <2>1, LenProperties
<1>2. CASE n = 0
  BY <1>2 DEF Target, Inv, RootInv
<1>3. CASE n # 0
  <2>1. n \in 1..n /\ n + 1 # 1 /\ (n + 1) - 1 = n
    BY <1>1, <1>3
  <2> HIDE DEF F, n
  <2>2. stack[n] \in F
    BY <1>1, <2>1, ElementOfSeq DEF n
  <2>3. Target(n + 1) = Entered(stack[n])
    BY <2>1 DEF Target
  <2>4. PICK ref \in db : stack[n].node = ref.of
    BY <2>2 DEF F, ExtensionFrames, BranchFrames
  <2>5. StoreInv(R)
    BY DEF Inv
  <2>6. CASE stack[n] \in ExtensionFrames
    <3>1. stack[n].node.type = "extension" /\ stack[n].node.next \in R
      BY <2>4, <2>5, <2>6, NodeOfRef DEF ExtensionFrames, ExtensionNodes
    <3> QED
      BY <2>3, <3>1 DEF Entered, n
  <2>7. CASE stack[n] \in BranchFrames
    <3>1. stack[n].node.type = "branch" /\ stack[n].slot \in Nibbles
      BY <2>7 DEF BranchFrames
    <3>2. stack[n].node.branches[stack[n].slot] \in R \cup NoNode
      BY <2>4, <2>5, <3>1, NodeOfRef DEF BranchNodes, Branches, NoNode
    <3> QED
      BY <2>3, <3>1, <3>2 DEF Entered, n
  <2> QED
    BY <2>2, <2>6, <2>7 DEF F
<1> QED
  BY <1>1, <1>2, <1>3

\* insert's first call of _update.
LEMMA InsertChain ==
  ASSUME NEW R, Inv(R), NEW k \in Keys, NEW v \in Values, Insert(k, v)
  PROVE  \E P : ChainInv(R, P)'
<1> DEFINE P == [i \in Nat |-> k]
<1>1. stack = <<>> /\ stack' = <<>> /\ Len(stack') = 0
  BY EmptySeq DEF Insert, Inv, StackInv
<1>2. P \in [Nat -> Path] /\ P[1] = k
  BY TrieAssumption
<1> HIDE DEF P
<1>3. Linked(P)'
  BY <1>1, <1>2 DEF Linked, Insert
<1>4. Innermost(R, P, Len(stack) + 1)'
  BY <1>1, <1>2 DEF Innermost, Target, Insert
<1> QED
  BY <1>3, <1>4 DEF ChainInv

\* A call that has built the nodes for its reference.
LEMMA StoreNodesChain ==
  ASSUME NEW R, Inv(R), NEW P, ChainInv(R, P), pc = "update",
         NEW nodes, StoreNodes(nodes),
         Updated(R \cup Stored(nodes), IntoReference(nodes[Len(nodes)]), cur, path, op.value)
  PROVE  ChainInv(R, P)'
<1>1. Linked(P) /\ Innermost(R, P, Len(stack) + 1)
  BY DEF ChainInv, Running
<1>2. UNCHANGED <<db, stack, op, rootRef>> /\ todo' = nodes /\ pc' = "store"
  BY DEF StoreNodes, disk
<1>3. Linked(P)'
  BY <1>1, <1>2 DEF Linked, Target
<1>4. Innermost(R, P, Len(stack) + 1)'
  BY <1>1, <1>2 DEF Innermost, Target
<1> QED
  BY <1>3, <1>4 DEF ChainInv

\* The steps that end in _store_node calls.
LEMMA UpdateStoresChain ==
  ASSUME NEW R, Inv(R), NEW P, ChainInv(R, P),
         \/ UpdateEmpty \/ UpdateLeafValue \/ UpdateLeafSplit
         \/ UpdateExtensionSplit \/ UpdateBranchValue
  PROVE  ChainInv(R, P)'
<1> DEFINE w == op.value
           node == cur.of
           S(nodes) == R \cup Stored(nodes)
           new(nodes) == IntoReference(nodes[Len(nodes)])
<1>1. pc = "update" /\ StoreInv(R) /\ path \in Path /\ w \in Values /\ cur \in R \cup NoNode
  BY DEF Inv, CallInv, UpdateEmpty, UpdateLeafValue, UpdateLeafSplit,
         UpdateExtensionSplit, UpdateBranchValue, AtNode
<1>2. ASSUME NEW nodes, StoreNodes(nodes)
      PROVE  /\ Closed(S(nodes)) /\ nodes # <<>>
  <2>1. Inv(R)'
    BY UpdateStoresInv
  <2>2. Storable(nodes, R) /\ nodes # <<>>
    BY <1>2, <2>1 DEF Inv, CallInv, StoreNodes
  <2>3. Closed(S(nodes))
    BY <1>1, <2>2, InvClosed, StoredClosed
  <2> QED
    BY <2>2, <2>3
<1>3. ASSUME NEW n, StoreNodes(<<n>>)
      PROVE  /\ Closed(S(<<n>>)) /\ new(<<n>>) = IntoReference(n)
             /\ IntoReference(n) \in S(<<n>>) /\ IntoReference(n).of = n
  <2>1. Closed(S(<<n>>))
    BY <1>2, <1>3
  <2>2. Len(<<n>>) = 1 /\ <<n>>[1] = n
    OBVIOUS
  <2>3. IntoReference(n) \in Stored(<<n>>)
    BY <2>2 DEF Stored
  <2> QED
    BY <2>1, <2>2, <2>3 DEF IntoReference
<1>4. CASE UpdateEmpty
  <2> DEFINE n == Leaf(path, w)
  <2>1. StoreNodes(<<n>>) /\ cur \in NoNode
    BY <1>4 DEF UpdateEmpty
  <2> HIDE DEF n, S
  <2>2. Closed(S(<<n>>)) /\ new(<<n>>) \in S(<<n>>) /\ new(<<n>>).of = n
    BY <1>3, <2>1
  <2>3. cur \in S(<<n>>) => FALSE
    BY <2>1, <2>2 DEF Closed
  <2> HIDE DEF new
  <2>4. Updated(S(<<n>>), new(<<n>>), cur, path, w)
    BY <1>1, <2>1, <2>2, <2>3, UpdatedByLeaf DEF n
  <2> QED
    BY <1>1, <2>1, <2>4, StoreNodesChain DEF S, new
<1>5. CASE UpdateLeafValue
  <2> DEFINE n == Leaf(path, w)
  <2>1. StoreNodes(<<n>>) /\ cur \in db /\ cur.of.type = "leaf" /\ cur.of.path = path
    BY <1>5 DEF UpdateLeafValue, AtNode
  <2>2. cur \in S(<<n>>)
    BY <1>1, <2>1 DEF StoreInv
  <2> HIDE DEF n, S
  <2>3. Closed(S(<<n>>)) /\ new(<<n>>) \in S(<<n>>) /\ new(<<n>>).of = n
    BY <1>3, <2>1
  <2> HIDE DEF new
  <2>4. Updated(S(<<n>>), new(<<n>>), cur, path, w)
    BY <1>1, <2>1, <2>2, <2>3, UpdatedByLeaf DEF n
  <2> QED
    BY <1>1, <2>1, <2>4, StoreNodesChain DEF S, new
<1>6. CASE UpdateBranchValue
  <2> DEFINE n == Branch(node.branches, w)
  <2>1. StoreNodes(<<n>>) /\ cur \in db /\ cur.of.type = "branch" /\ path = <<>>
    BY <1>6 DEF UpdateBranchValue, AtNode
  <2>2. cur \in S(<<n>>)
    BY <1>1, <2>1 DEF StoreInv
  <2> HIDE DEF n, S
  <2>3. Closed(S(<<n>>)) /\ new(<<n>>) \in S(<<n>>) /\ new(<<n>>).of = n
    BY <1>3, <2>1
  <2> HIDE DEF new
  <2>4. Updated(S(<<n>>), new(<<n>>), cur, path, w)
    BY <1>1, <2>1, <2>2, <2>3, UpdatedBranchValue DEF n
  <2> QED
    BY <1>1, <2>1, <2>4, StoreNodesChain DEF S, new
<1>7. CASE UpdateLeafSplit
  <2> DEFINE nodes == LeafSplit(path, w, node)
  <2>1. StoreNodes(nodes) /\ cur \in db /\ cur.of.type = "leaf" /\ cur.of.path # path
    BY <1>7 DEF UpdateLeafSplit, AtNode
  <2>2. cur \in S(nodes) /\ Stored(nodes) \subseteq S(nodes)
    BY <1>1, <2>1 DEF StoreInv
  <2>3. Closed(S(nodes))
    BY <1>2, <2>1
  <2> HIDE DEF S
  <2>4. Updated(S(nodes), new(nodes), cur, path, w)
    BY <1>1, <2>1, <2>2, <2>3, UpdatedByLeafSplit
  <2> HIDE DEF nodes, new
  <2> QED
    BY <1>1, <2>1, <2>4, StoreNodesChain DEF S, new
<1>8. CASE UpdateExtensionSplit
  <2> DEFINE nodes == ExtensionSplit(path, w, node)
  <2>1. /\ StoreNodes(nodes) /\ cur \in db /\ cur.of.type = "extension"
        /\ ~StartsWith(path, cur.of.path)
    BY <1>8 DEF UpdateExtensionSplit, AtNode
  <2>2. cur \in S(nodes) /\ Stored(nodes) \subseteq S(nodes)
    BY <1>1, <2>1 DEF StoreInv
  <2>3. Closed(S(nodes))
    BY <1>2, <2>1
  <2> HIDE DEF S
  <2>4. Updated(S(nodes), new(nodes), cur, path, w)
    BY <1>1, <2>1, <2>2, <2>3, UpdatedByExtensionSplit
  <2> HIDE DEF nodes, new
  <2> QED
    BY <1>1, <2>1, <2>4, StoreNodesChain DEF S, new
<1> QED
  BY <1>4, <1>5, <1>6, <1>7, <1>8

\* A call that goes on in a child.
LEMMA DescendChain ==
  ASSUME NEW R, Inv(R), NEW P, ChainInv(R, P), pc = "update", cur \in db,
         NEW frame, frame.node = cur.of, Follows(frame, path),
         NEW n, Consume(path, n) = Beyond(frame, path), Consume(path, n) \in Path,
         Descend(frame, Entered(frame), n)
  PROVE  \E Q : ChainInv(R, Q)'
<1> DEFINE F == ExtensionFrames \cup BranchFrames
<1> PICK last : last = Len(stack)
  OBVIOUS
<1> PICK Q : Q = [P EXCEPT ![last + 2] = Consume(path, n)]
  OBVIOUS
<1>1. Linked(P) /\ Innermost(R, P, last + 1) /\ Running
  BY DEF ChainInv, Running
<1>2. stack \in Seq(F) /\ last \in Nat
  <2>1. stack \in Seq(F)
    BY DEF Inv, StackInv
  <2> HIDE DEF F
  <2> QED
    BY <2>1, LenProperties
<1>3. /\ stack' = Append(stack, frame)
      /\ UNCHANGED <<db, pc, rootRef, op>>
      /\ cur' = Entered(frame) /\ path' = Consume(path, n)
  BY DEF Descend, disk
<1>4. /\ Len(stack') = last + 1
      /\ \A i \in 1..last : stack'[i] = stack[i]
      /\ stack'[last + 1] = frame
  <2> HIDE DEF F
  <2>1. DOMAIN stack = 1..last /\ Len(stack') = last + 1
    BY <1>2, <1>3
  <2> QED
    BY <1>2, <1>3, <2>1
<1>5. /\ Q \in [Nat -> Path] /\ \A i \in Nat : i # last + 2 => Q[i] = P[i]
      /\ Q[last + 2] = Consume(path, n)
  BY <1>1, <1>2 DEF Linked
<1>6. cur = Target(last + 1) /\ path = P[last + 1]
  BY <1>1 DEF Innermost
<1> HIDE DEF F
<1>7. ASSUME NEW i \in 1..(last + 1) PROVE Target(i)' = Target(i)
  <2>1. CASE i = 1
    BY <1>3, <2>1 DEF Target
  <2>2. CASE i # 1
    <3>1. i - 1 \in 1..last
      BY <1>2, <2>2
    <3>2. stack'[i - 1] = stack[i - 1]
      BY <1>4, <3>1
    <3> QED
      BY <2>2, <3>2 DEF Target
  <2> QED
    BY <2>1, <2>2
<1>8. ASSUME NEW i \in 1..Len(stack')
      PROVE  /\ Target(i)' \in db' /\ stack'[i].node = Target(i)'.of
             /\ Follows(stack'[i], Q[i]) /\ Q[i + 1] = Beyond(stack'[i], Q[i])
  <2>1. i \in 1..(last + 1)
    BY <1>4
  <2>2. CASE i = last + 1
    <3>1. stack'[i] = frame /\ Target(i)' = cur /\ i \in Nat /\ i # last + 2 /\ i + 1 = last + 2
      BY <1>2, <1>4, <1>6, <1>7, <2>1, <2>2
    <3>2. Q[i] = path
      BY <1>5, <1>6, <2>2, <3>1
    <3>3. Q[i + 1] = Consume(path, n)
      BY <1>5, <3>1
    <3> QED
      BY <1>3, <3>1, <3>2, <3>3
  <2>3. CASE i # last + 1
    <3>1. i \in 1..last /\ i \in Nat /\ i + 1 \in Nat /\ i # last + 2 /\ i + 1 # last + 2
      BY <1>2, <2>1, <2>3
    <3>2. stack'[i] = stack[i] /\ Target(i)' = Target(i)
      BY <1>4, <1>7, <2>1, <3>1
    <3>3. Q[i] = P[i] /\ Q[i + 1] = P[i + 1]
      BY <1>5, <3>1
    <3>4. /\ Target(i) \in db /\ stack[i].node = Target(i).of
          /\ Follows(stack[i], P[i]) /\ P[i + 1] = Beyond(stack[i], P[i])
      BY <1>1, <3>1 DEF Linked
    <3> QED
      BY <1>3, <3>2, <3>3, <3>4
  <2> QED
    BY <2>2, <2>3
<1>9. Q[1] = op'.key
  <2>1. 1 # last + 2 /\ 1 \in Nat
    BY <1>2
  <2> QED
    BY <1>1, <1>3, <1>5, <2>1 DEF Linked
<1>10. Linked(Q)'
  BY <1>5, <1>8, <1>9 DEF Linked
<1>11. Innermost(R, Q, Len(stack) + 1)'
  <2>1. Len(stack') + 1 = last + 2 /\ last + 2 # 1 /\ (last + 2) - 1 = last + 1
    BY <1>2, <1>4
  <2>2. Target(last + 2)' = Entered(frame)
    BY <1>4, <2>1 DEF Target
  <2>3. pc' = "update"
    BY <1>3
  <2> QED
    BY <1>3, <1>5, <2>1, <2>2, <2>3 DEF Innermost
<1> QED
  BY <1>10, <1>11 DEF ChainInv

LEMMA UpdateFollowsChain ==
  ASSUME NEW R, Inv(R), NEW P, ChainInv(R, P), UpdateExtensionFollow \/ UpdateBranchFollow
  PROVE  \E Q : ChainInv(R, Q)'
<1>1. pc = "update" /\ StoreInv(R) /\ path \in Path /\ cur \in db
  BY DEF Inv, CallInv, UpdateExtensionFollow, UpdateBranchFollow, AtNode
<1>2. CASE UpdateExtensionFollow
  <2> DEFINE frame == [node |-> cur.of]
             n == Len(cur.of.path)
  <2>1. /\ cur.of.type = "extension" /\ StartsWith(path, cur.of.path)
        /\ Descend(frame, cur.of.next, n)
    BY <1>2 DEF UpdateExtensionFollow, AtNode
  <2>2. cur.of.path \in Path
    BY <1>1, <2>1, NodeOfRef DEF ExtensionNodes
  <2>3. Consume(path, n) \in Path
    BY <1>1, <2>1, <2>2, PrefixAndRest
  <2>4. frame.node = cur.of
    OBVIOUS
  <2> HIDE DEF frame
  <2>5. Entered(frame) = cur.of.next /\ Follows(frame, path) /\ Beyond(frame, path) = Consume(path, n)
    BY <2>1, <2>4 DEF Entered, Follows, Beyond
  <2> HIDE DEF n
  <2> QED
    BY <1>1, <2>1, <2>3, <2>4, <2>5, DescendChain
<1>3. CASE UpdateBranchFollow
  <2> DEFINE frame == [node |-> cur.of, slot |-> path[1]]
  <2>1. /\ cur.of.type = "branch" /\ path # <<>>
        /\ Descend(frame, cur.of.branches[path[1]], 1)
    BY <1>3 DEF UpdateBranchFollow, AtNode
  <2>2. Consume(path, 1) \in Path
    BY <1>1, <2>1, FirstDigit
  <2>3. frame.node = cur.of /\ frame.slot = path[1]
    OBVIOUS
  <2> HIDE DEF frame
  <2>4. /\ Entered(frame) = cur.of.branches[path[1]] /\ Follows(frame, path)
        /\ Beyond(frame, path) = Consume(path, 1)
    BY <2>1, <2>3 DEF Entered, Follows, Beyond
  <2> QED
    BY <1>1, <2>1, <2>2, <2>3, <2>4, DescendChain
<1> QED
  BY <1>2, <1>3

\* One _store_node: what is left to store and the references in use are the
\* same together.
LEMMA StoreNodeChain ==
  ASSUME NEW R, Inv(R), NEW P, ChainInv(R, P), StoreNode,
         NEW S, S = R \cup {IntoReference(Head(todo))}
  PROVE  ChainInv(S, P)'
<1> DEFINE here == Len(stack) + 1
           T == R \cup Stored(todo)
<1>1. pc = "store" /\ Storable(todo, R) /\ todo # <<>>
  BY DEF Inv, CallInv, StoreNode
<1>2. /\ Head(todo) = todo[1]
      /\ Tail(todo) # <<>> => Tail(todo)[Len(Tail(todo))] = todo[Len(todo)]
      /\ Len(todo) \in Nat \ {0} /\ (Tail(todo) = <<>> <=> Len(todo) = 1)
  BY <1>1, StorableTail
<1>3. /\ todo' = Tail(todo) /\ ret' = IntoReference(todo[1])
      /\ pc' = IF Len(todo) = 1 THEN "return" ELSE "store"
      /\ db \subseteq db' /\ UNCHANGED <<rootRef, op, stack>>
  BY <1>2 DEF StoreNode
<1>4. Linked(P) /\ Updated(T, IntoReference(todo[Len(todo)]), Target(here), P[here], op.value)
  BY <1>1 DEF ChainInv, Innermost, Running
<1>5. Linked(P)'
  BY <1>3, <1>4 DEF Linked, Target
<1>6. Target(here)' = Target(here)
  BY <1>3 DEF Target
<1>7. CASE Len(todo) = 1
  <2>1. S = T
    <3>1. Stored(todo) = {IntoReference(todo[1])}
      BY <1>7 DEF Stored
    <3> QED
      BY <1>2, <3>1
  <2> HIDE DEF T
  <2>2. Updated(S, ret', Target(here)', P[here], op'.value)
    BY <1>3, <1>4, <1>6, <1>7, <2>1
  <2>3. Innermost(S, P, Len(stack) + 1)'
    BY <1>3, <1>7, <2>2 DEF Innermost
  <2> QED
    BY <1>5, <2>3 DEF ChainInv
<1>8. CASE Len(todo) # 1
  <2> DEFINE s == todo
             t == Tail(todo)
  <2>1. todo \in Seq(Nodes(R \cup Stored(todo)))
    BY <1>1 DEF Storable
  <2>2. /\ Len(t) = Len(s) - 1 /\ \A i \in 1..Len(t) : t[i] = s[i + 1]
    BY <1>1, <2>1, HeadTailProperties
  <2> HIDE DEF t
  <2>3. Stored(todo) = {IntoReference(s[1])} \cup Stored(t)
    <3>1. \A i \in 1..Len(s) : i = 1 \/ (i - 1 \in 1..Len(t) /\ t[i - 1] = s[i])
      BY <1>2, <2>2
    <3>2. \A i \in 1..Len(t) : i + 1 \in 1..Len(s)
      BY <1>2, <2>2
    <3>3. 1 \in 1..Len(s)
      BY <1>2
    <3> QED
      BY <2>2, <3>1, <3>2, <3>3 DEF Stored
  <2>4. S \cup Stored(t) = T
    BY <1>2, <2>3
  <2>5. t # <<>> /\ t[Len(t)] = todo[Len(todo)]
    BY <1>2, <1>8 DEF t
  <2> HIDE DEF T
  <2>6. Updated(S \cup Stored(todo'), IntoReference(todo'[Len(todo')]), Target(here)', P[here], op'.value)
    BY <1>3, <1>4, <1>6, <2>4, <2>5 DEF t
  <2>7. Innermost(S, P, Len(stack) + 1)'
    BY <1>3, <1>8, <2>6 DEF Innermost
  <2> QED
    BY <1>5, <2>7 DEF ChainInv
<1> QED
  BY <1>7, <1>8

\* The caller puts the new reference of its child in its node.
LEMMA ReturnToCallerChain ==
  ASSUME NEW R, Inv(R), NEW P, ChainInv(R, P), ReturnToCaller
  PROVE  ChainInv(R, P)'
<1> PICK n : n = Len(stack)
  OBVIOUS
<1> DEFINE frame == stack[n]
           node == WithNewChild(frame, ret)
           old == Target(n)
           S == R \cup Stored(<<node>>)
           new == IntoReference(node)
           w == op.value
<1>1. /\ pc = "return" /\ stack # <<>> /\ ret \in R
      /\ Linked(P) /\ Updated(R, ret, Target(n + 1), P[n + 1], w)
      /\ StoreInv(R) /\ w \in Values
  BY DEF ReturnToCaller, Inv, CallInv, ChainInv, Innermost, Running
<1>2. /\ n \in Nat /\ n # 0 /\ n \in 1..n /\ n + 1 # 1 /\ (n + 1) - 1 = n
      /\ Target(n + 1) \in R \cup NoNode
      /\ \A i \in 1..(n - 1) : i \in 1..n
  <2>1. n \in Nat /\ Target(n + 1) \in R \cup NoNode
    BY <1>1, InnermostTarget DEF Running
  <2>2. n # 0
    <3> DEFINE F == ExtensionFrames \cup BranchFrames
    <3>1. stack \in Seq(F)
      BY DEF Inv, StackInv
    <3> HIDE DEF F
    <3> QED
      BY <1>1, <3>1, EmptySeq
  <2> QED
    BY <2>1, <2>2
<1>3. /\ old \in db /\ frame.node = old.of
      /\ Follows(frame, P[n]) /\ P[n + 1] = Beyond(frame, P[n])
      /\ Target(n + 1) = Entered(frame) /\ P[n] \in Path
  BY <1>1, <1>2 DEF Linked, Target
<1>4. Inv(R)'
  BY ReturnToCallerInv
<1>5. todo' = <<node>> /\ pc' = "store"
  BY DEF ReturnToCaller
<1>6. Closed(R) /\ Closed(S) /\ R \subseteq S
  <2>1. Storable(<<node>>, R)
    BY <1>4, <1>5 DEF Inv, CallInv
  <2> HIDE DEF node
  <2> QED
    BY <1>1, <2>1, InvClosed, StoredClosed
<1>7. new \in S /\ new.of = node /\ old \in S /\ ret \in S
  <2>1. Len(<<node>>) = 1 /\ <<node>>[1] = node
    OBVIOUS
  <2>2. new \in Stored(<<node>>)
    BY <2>1 DEF Stored
  <2> QED
    BY <1>1, <1>3, <2>2 DEF IntoReference, StoreInv
<1> HIDE DEF S, new, old, node, w, frame
<1>8. Updated(S, ret, Entered(frame), P[n + 1], w)
  BY <1>1, <1>2, <1>3, <1>6, UpdatedWider
<1>9. Updated(S, new, old, P[n], w)
  <2>1. CASE frame.node.type = "extension"
    <3>1. /\ old.of.type = "extension" /\ StartsWith(P[n], old.of.path)
          /\ node = Extension(old.of.path, ret)
          /\ Updated(S, ret, old.of.next, Consume(P[n], Len(old.of.path)), w)
      BY <1>3, <1>8, <2>1 DEF Follows, Entered, Beyond, WithNewChild, node
    <3> QED
      BY <1>3, <1>6, <1>7, <3>1, UpdatedBelowExtension
  <2>2. CASE frame.node.type # "extension"
    <3>1. old.of.type = "branch"
      <4> DEFINE F == ExtensionFrames \cup BranchFrames
      <4>1. stack \in Seq(F)
        BY DEF Inv, StackInv
      <4> HIDE DEF F
      <4>2. stack[n] \in F
        BY <1>2, <4>1, ElementOfSeq
      <4> QED
        BY <1>3, <2>2, <4>2 DEF F, ExtensionFrames, BranchFrames, frame
    <3>2. /\ P[n] # <<>> /\ frame.slot = P[n][1]
          /\ node = Branch(SetBranch(old.of.branches, P[n][1], ret), old.of.data)
          /\ Updated(S, ret, old.of.branches[P[n][1]], Consume(P[n], 1), w)
      BY <1>3, <1>8, <2>2 DEF Follows, Entered, Beyond, WithNewChild, node
    <3> QED
      BY <1>3, <1>6, <1>7, <3>1, <3>2, UpdatedBelowBranch
  <2> QED
    BY <2>1, <2>2
<1>10. /\ Len(stack') = n - 1
       /\ \A i \in 1..(n - 1) : stack'[i] = stack[i]
       /\ UNCHANGED <<db, rootRef, op>>
  <2> DEFINE F == ExtensionFrames \cup BranchFrames
  <2>1. stack \in Seq(F)
    BY DEF Inv, StackInv
  <2> HIDE DEF F
  <2>2. \A i \in 1..(n - 1) : stack[i] \in F
    BY <1>2, <2>1, ElementOfSeq
  <2>3. /\ Len(SubSeq(stack, 1, n - 1)) = IF 1 <= n - 1 THEN (n - 1) - 1 + 1 ELSE 0
        /\ \A i \in 1..((n - 1) - 1 + 1) : SubSeq(stack, 1, n - 1)[i] = stack[1 + i - 1]
    BY <1>2, <2>1, <2>2, SubSeqProperties
  <2>4. Len(SubSeq(stack, 1, n - 1)) = n - 1 /\ (n - 1) - 1 + 1 = n - 1
    BY <1>2, <2>3
  <2>5. \A i \in 1..(n - 1) : 1 + i - 1 = i
    BY <1>2
  <2>6. stack' = SubSeq(stack, 1, n - 1) /\ UNCHANGED <<db, rootRef, op>>
    BY DEF ReturnToCaller, disk
  <2> QED
    BY <2>3, <2>4, <2>5, <2>6
<1>11. ASSUME NEW i \in 1..n PROVE Target(i)' = Target(i)
  <2>1. CASE i = 1
    BY <1>10, <2>1 DEF Target
  <2>2. CASE i # 1
    <3>1. i - 1 \in 1..(n - 1)
      BY <1>2, <2>2
    <3> QED
      BY <1>10, <2>2, <3>1 DEF Target
  <2> QED
    BY <2>1, <2>2
<1>12. Linked(P)'
  <2>1. ASSUME NEW i \in 1..Len(stack')
        PROVE  /\ Target(i)' \in db' /\ stack'[i].node = Target(i)'.of
               /\ Follows(stack'[i], P[i]) /\ P[i + 1] = Beyond(stack'[i], P[i])
    <3>1. i \in 1..(n - 1) /\ i \in 1..n
      BY <1>2, <1>10
    <3>2. /\ Target(i) \in db /\ stack[i].node = Target(i).of
          /\ Follows(stack[i], P[i]) /\ P[i + 1] = Beyond(stack[i], P[i])
      BY <1>1, <3>1 DEF Linked
    <3> QED
      BY <1>10, <1>11, <3>1, <3>2
  <2>2. P \in [Nat -> Path] /\ P[1] = op'.key
    BY <1>1, <1>10 DEF Linked
  <2> QED
    BY <2>1, <2>2 DEF Linked
<1>13. Innermost(R, P, Len(stack) + 1)'
  <2>1. Len(stack') + 1 = n
    BY <1>2, <1>10
  <2>2. R \cup Stored(todo') = S /\ IntoReference(todo'[Len(todo')]) = new
    BY <1>5 DEF S, new
  <2>3. Target(n)' = old /\ op'.value = w
    BY <1>2, <1>10, <1>11 DEF old, w
  <2>4. Updated(R \cup Stored(todo'), IntoReference(todo'[Len(todo')]), Target(n)', P[n], op'.value)
    BY <1>9, <2>2, <2>3
  <2> QED
    BY <1>5, <2>1, <2>4 DEF Innermost
<1> QED
  BY <1>12, <1>13 DEF ChainInv

LEMMA InitMapInv == Init => MapInv
<1> SUFFICES ASSUME Init PROVE MapInv
  OBVIOUS
<1>1. PICK R : Inv(R)
  BY InitInv DEF IInv
<1>2. \A P : ChainInv(R, P)
  BY DEF Init, ChainInv, Running
<1> QED
  BY <1>1, <1>2 DEF MapInv

\* A step keeps the invariant, with the reference of a stored node added.
LEMMA NextChain ==
  ASSUME NEW R, NEW P, Inv(R), ChainInv(R, P), [Next]_vars
  PROVE  \E S, Q : /\ Inv(S)' /\ ChainInv(S, Q)'
                   /\ IF StoreNode THEN S = R \cup {IntoReference(Head(todo))} ELSE S = R
<1>1. CASE StoreNode
  <2> PICK S : S = R \cup {IntoReference(Head(todo))}
    OBVIOUS
  <2>1. Inv(S)' /\ ChainInv(S, P)'
    BY <1>1, StoreNodeInv, StoreNodeChain
  <2> QED
    BY <1>1, <2>1
<1>2. CASE ~StoreNode
  <2>1. Inv(R)'
    <3>1. CASE \E k \in Keys, v \in Values : Insert(k, v)
      BY <3>1, InsertInv
    <3>2. CASE Update
      BY <3>2, UpdateMissingInv, UpdateStoresInv, UpdateFollowsInv DEF Update
    <3>3. CASE ReturnToCaller
      BY <3>3, ReturnToCallerInv
    <3>4. CASE SetRoot \/ OpenRootFile \/ WriteRootFile
      BY <3>4, SaveRootInv
    <3>5. CASE Crash \/ Restart
      BY <3>5, CrashInv
    <3>6. CASE UNCHANGED vars
      BY <3>6, StutterInv
    <3> QED
      BY <1>2, <3>1, <3>2, <3>3, <3>4, <3>5, <3>6 DEF Next, Step
  <2>2. \E Q : ChainInv(R, Q)'
    <3>1. CASE \E k \in Keys, v \in Values : Insert(k, v)
      BY <3>1, InsertChain
    <3>2. CASE Update
      <4>1. CASE UpdateMissing
        BY <4>1 DEF UpdateMissing, ChainInv, Running
      <4> QED
        BY <3>2, <4>1, UpdateStoresChain, UpdateFollowsChain DEF Update
    <3>3. CASE ReturnToCaller
      BY <3>3, ReturnToCallerChain
    <3>4. CASE SetRoot \/ OpenRootFile \/ WriteRootFile
      BY <3>4 DEF SetRoot, OpenRootFile, WriteRootFile, ChainInv, Running
    <3>5. CASE Crash \/ Restart
      BY <3>5 DEF Crash, Restart, ChainInv, Running
    <3>6. CASE UNCHANGED vars
      <4>1. ChainInv(R, P)'
        BY <3>6 DEF vars, disk, call, bounds, ChainInv, Running, Linked, Innermost, Target
      <4> QED
        BY <4>1
    <3> QED
      BY <1>2, <3>1, <3>2, <3>3, <3>4, <3>5, <3>6 DEF Next, Step
  <2> QED
    BY <1>2, <2>1, <2>2
<1> QED
  BY <1>1, <1>2

LEMMA NextMapInv == MapInv /\ [Next]_vars => MapInv'
<1> SUFFICES ASSUME MapInv, [Next]_vars PROVE MapInv'
  OBVIOUS
<1> PICK R, P : Inv(R) /\ ChainInv(R, P)
  BY DEF MapInv
<1>1. \E S, Q : Inv(S)' /\ ChainInv(S, Q)'
  BY NextChain
<1> QED
  BY <1>1 DEF MapInv

-----------------------------------------------------------------------------
(* The trie implements DurableMap *)

LEMMA ContentsInStore ==
  Contents(rootRef) = ContentsOf(db, rootRef) /\ Contents(rootFile) = ContentsOf(db, rootFile)
BY DEF Contents, ContentsOf

\* Tries that hold the same at the keys are one map.
LEMMA SameContents ==
  ASSUME NEW R, Closed(R), NEW A, \A r \in R : Readable(A, r), NEW r \in R \cup NoNode,
         NEW S, Closed(S), NEW B, \A s \in S : Readable(B, s), NEW s \in S \cup NoNode,
         \A k \in Keys : \A v : Holds(A, r, k, v) <=> Holds(B, s, k, v)
  PROVE  ContentsOf(A, r) = ContentsOf(B, s)
<1> DEFINE C == ContentsOf(A, r)
           D == ContentsOf(B, s)
<1>1. /\ C = [k \in Keys |-> C[k]]
      /\ \A k \in Keys : \A v : Holds(A, r, k, v) => C[k] = v
      /\ \A k \in Keys : (\A v : ~Holds(A, r, k, v)) => C[k] = EmptyBytes
  BY ContentsHold
<1>2. /\ D = [k \in Keys |-> D[k]]
      /\ \A k \in Keys : \A v : Holds(B, s, k, v) => D[k] = v
      /\ \A k \in Keys : (\A v : ~Holds(B, s, k, v)) => D[k] = EmptyBytes
  BY ContentsHold
<1> HIDE DEF C, D
<1>3. ASSUME NEW k \in Keys PROVE C[k] = D[k]
  BY <1>1, <1>2
<1>4. C = D
  BY <1>1, <1>2, <1>3
<1> QED
  BY <1>4 DEF C, D

\* Nothing is a map without keys.
LEMMA NothingHeld ==
  ASSUME NEW A, NEW r \in NoNode
  PROVE  ContentsOf(A, r) = [k \in Keys |-> EmptyBytes]
<1> DEFINE C == ContentsOf(A, r)
<1>1. Closed({}) /\ r \in {} \cup NoNode
  BY DEF Closed
<1>2. \A k, v : ~Holds(A, r, k, v)
  BY HoldsUnreadable DEF Readable
<1>3. /\ C = [k \in Keys |-> C[k]]
      /\ \A k \in Keys : (\A v : ~Holds(A, r, k, v)) => C[k] = EmptyBytes
  BY <1>1, ContentsHold
<1> HIDE DEF C
<1>4. C = [k \in Keys |-> EmptyBytes]
  BY <1>2, <1>3
<1> QED
  BY <1>4 DEF C

\* Storing more does not change what the roots hold.
LEMMA ContentsKept ==
  ASSUME NEW R, Inv(R), NEW S, StoreInv(S)', R \subseteq S, NEW r \in R \cup NoNode
  PROVE  ContentsOf(db', r) = ContentsOf(db, r)
<1>1. Closed(R) /\ (\A x \in R : Readable(db, x))
  BY InvClosed DEF Inv
<1>2. \A x \in R : Readable(db', x)
  BY DEF StoreInv, Resolves, Readable
<1>3. \A k \in Keys : \A v : Holds(db, r, k, v) <=> Holds(db', r, k, v)
  BY <1>1, <1>2, TrieAssumption, HoldsSame
<1> QED
  BY <1>1, <1>2, <1>3, SameContents

\* What the new root holds when _update returns to insert.
LEMMA RootUpdated ==
  ASSUME NEW R, Inv(R), NEW P, ChainInv(R, P), SetRoot
  PROVE  ContentsOf(db, ret) = [ContentsOf(db, rootRef) EXCEPT ![op.key] = op.value]
<1> DEFINE C == ContentsOf(db, rootRef)
           D == ContentsOf(db, ret)
<1>1. /\ pc = "return" /\ Len(stack) + 1 = 1 /\ ret \in R
      /\ rootRef \in R \cup NoNode /\ op.key \in Keys /\ op.key \in Path
  BY EmptySeq, TrieAssumption DEF SetRoot, Inv, RootInv, CallInv
<1>2. Updated(R, ret, rootRef, op.key, op.value)
  BY <1>1 DEF ChainInv, Running, Linked, Innermost, Target
<1>3. Closed(R) /\ \A x \in R : Readable(db, x) /\ Readable(R, x)
  BY InvClosed DEF Inv
<1>4. ASSUME NEW k \in Keys, NEW v
      PROVE  Holds(db, ret, k, v) <=> IF k = op.key THEN v = op.value ELSE Holds(db, rootRef, k, v)
  <2>1. k \in Path
    BY TrieAssumption
  <2>2. Holds(R, ret, k, v) <=> Holds(db, ret, k, v)
    BY <1>1, <1>3, <2>1, HoldsSame
  <2>3. Holds(R, rootRef, k, v) <=> Holds(db, rootRef, k, v)
    BY <1>1, <1>3, <2>1, HoldsSame
  <2> QED
    BY <1>2, <2>1, <2>2, <2>3 DEF Updated
<1>a. ASSUME NEW r \in R \cup NoNode
      PROVE  /\ ContentsOf(db, r) = [k \in Keys |-> ContentsOf(db, r)[k]]
             /\ \A k \in Keys : \A v : Holds(db, r, k, v) => ContentsOf(db, r)[k] = v
             /\ \A k \in Keys : (\A v : ~Holds(db, r, k, v)) => ContentsOf(db, r)[k] = EmptyBytes
  BY <1>3, ContentsHold
<1>5. /\ C = [k \in Keys |-> C[k]]
      /\ \A k \in Keys : \A v : Holds(db, rootRef, k, v) => C[k] = v
      /\ \A k \in Keys : (\A v : ~Holds(db, rootRef, k, v)) => C[k] = EmptyBytes
  BY <1>1, <1>a
<1>6. /\ D = [k \in Keys |-> D[k]]
      /\ \A k \in Keys : \A v : Holds(db, ret, k, v) => D[k] = v
      /\ \A k \in Keys : (\A v : ~Holds(db, ret, k, v)) => D[k] = EmptyBytes
  BY <1>1, <1>a
<1> HIDE DEF C, D
<1>7. ASSUME NEW k \in Keys PROVE D[k] = IF k = op.key THEN op.value ELSE C[k]
  <2>1. CASE k = op.key
    BY <1>4, <1>6, <2>1
  <2>2. CASE k # op.key
    BY <1>4, <1>5, <1>6, <2>2
  <2> QED
    BY <2>1, <2>2
<1>8. D = [C EXCEPT ![op.key] = op.value]
  BY <1>5, <1>6, <1>7
<1> QED
  BY <1>8 DEF C, D

Stage == CASE pc = "ready" -> "idle"
           [] pc \in {"update", "store", "return"} -> "called"
           [] pc = "open"  -> "assigned"
           [] pc = "write" -> "saving"
           [] pc = "down"  -> "down"

\* The steps of DurableMap, said of the trie.
LEMMA MapSteps ==
  LET seen == Contents(rootRef)  saved == Contents(rootFile)
      empty == [k \in Keys |-> EmptyBytes]
  IN
  /\ Map!MapInit <=> seen = empty /\ saved = empty /\ Stage = "idle" /\ op = NoOp
  /\ \A k, v : Map!Call(k, v) <=>
       /\ Stage = "idle" /\ Stage' = "called" /\ op' = [key |-> k, value |-> v]
       /\ seen' = seen /\ saved' = saved
  /\ Map!Assign <=>
       /\ Stage = "called" /\ Stage' = "assigned"
       /\ seen' = [seen EXCEPT ![op.key] = op.value]
       /\ saved' = saved /\ op' = op
  /\ Map!Raise <=>
       /\ Stage = "called" /\ Stage' = "idle" /\ op' = NoOp
       /\ seen' = seen /\ saved' = saved
  /\ Map!Truncate <=>
       /\ Stage = "assigned" /\ Stage' = "saving" /\ saved' = empty
       /\ seen' = seen /\ op' = op
  /\ Map!Save <=>
       /\ Stage = "saving" /\ Stage' = "idle" /\ saved' = seen /\ op' = NoOp
       /\ seen' = seen
  /\ Map!Crash <=>
       /\ Stage # "down" /\ Stage' = "down" /\ seen' = empty /\ op' = NoOp
       /\ saved' = saved
  /\ Map!Recover <=>
       /\ Stage = "down" /\ Stage' = "idle" /\ seen' = saved
       /\ saved' = saved /\ op' = op
  /\ (UNCHANGED Map!mvars) <=> seen' = seen /\ saved' = saved /\ Stage' = Stage /\ op' = op
BY DEF Map!MapInit, Map!EmptyMap, Map!Call, Map!Assign, Map!Raise, Map!Truncate, Map!Save,
       Map!Crash, Map!Recover, Map!mvars, Stage

MapStep == [Map!MapNext]_(Map!mvars)

\* What a step that leaves the database alone does to the two maps.
LEMMA ContentsFollow ==
  ASSUME db' = db
  PROVE  /\ rootRef' = rootRef => Contents(rootRef)' = Contents(rootRef)
         /\ rootFile' = rootFile => Contents(rootFile)' = Contents(rootFile)
         /\ rootFile' = rootRef => Contents(rootFile)' = Contents(rootRef)
         /\ rootRef' = rootFile => Contents(rootRef)' = Contents(rootFile)
         /\ rootRef' \in NoNode => Contents(rootRef)' = [k \in Keys |-> EmptyBytes]
         /\ rootFile' \in NoNode => Contents(rootFile)' = [k \in Keys |-> EmptyBytes]
<1>1. /\ Contents(rootRef) = ContentsOf(db, rootRef) /\ Contents(rootFile) = ContentsOf(db, rootFile)
      /\ Contents(rootRef)' = ContentsOf(db', rootRef')
      /\ Contents(rootFile)' = ContentsOf(db', rootFile')
  BY DEF Contents, ContentsOf
<1> QED
  BY <1>1, NothingHeld

\* The steps inside a call of insert: nothing to see.
LEMMA QuietStep ==
  ASSUME db' = db, rootRef' = rootRef, rootFile' = rootFile, op' = op,
         (Running /\ Running') \/ pc' = pc
  PROVE  MapStep
<1>1. Contents(rootRef)' = Contents(rootRef) /\ Contents(rootFile)' = Contents(rootFile)
  BY ContentsFollow
<1>2. Stage' = Stage
  <2>1. CASE Running /\ Running'
    BY <2>1 DEF Stage, Running
  <2>2. CASE pc' = pc
    BY <2>2, Zenon DEF Stage
  <2> QED
    BY <2>1, <2>2
<1>3. UNCHANGED Map!mvars
  BY <1>1, <1>2, MapSteps
<1> QED
  BY <1>3 DEF MapStep

LEMMA InsertRefines ==
  ASSUME NEW k \in Keys, NEW v \in Values, Insert(k, v)
  PROVE  MapStep
<1>1. Contents(rootRef)' = Contents(rootRef) /\ Contents(rootFile)' = Contents(rootFile)
  BY ContentsFollow DEF Insert, disk
<1>2. Stage = "idle" /\ Stage' = "called" /\ op' = [key |-> k, value |-> v]
  BY DEF Stage, Insert
<1>3. Map!Call(k, v)
  BY <1>1, <1>2, MapSteps
<1> QED
  BY <1>3 DEF MapStep, Map!MapNext

LEMMA UpdateRefines ==
  ASSUME Update
  PROVE  MapStep
<1>1. CASE UpdateMissing
  <2>1. Contents(rootRef)' = Contents(rootRef) /\ Contents(rootFile)' = Contents(rootFile)
    BY <1>1, ContentsFollow DEF UpdateMissing, disk
  <2>2. Stage = "called" /\ Stage' = "idle" /\ op' = NoOp
    BY <1>1 DEF Stage, UpdateMissing
  <2>3. Map!Raise
    BY <2>1, <2>2, MapSteps
  <2> QED
    BY <2>3 DEF MapStep, Map!MapNext
<1>2. CASE ~UpdateMissing
  <2>1. /\ Running /\ Running'
        /\ db' = db /\ rootRef' = rootRef /\ rootFile' = rootFile /\ op' = op
    BY <1>2 DEF Update, UpdateEmpty, UpdateLeafValue, UpdateLeafSplit, UpdateExtensionFollow,
                UpdateExtensionSplit, UpdateBranchValue, UpdateBranchFollow, AtNode,
                StoreNodes, Descend, disk, Running
  <2> QED
    BY <2>1, QuietStep
<1> QED
  BY <1>1, <1>2

\* A node more in the database, and no key changed.
LEMMA StoreNodeRefines ==
  ASSUME NEW R, Inv(R), StoreNode
  PROVE  MapStep
<1> PICK S : S = R \cup {IntoReference(Head(todo))}
  OBVIOUS
<1>1. StoreInv(S)' /\ R \subseteq S
  BY StoreNodeInv DEF Inv
<1>2. /\ rootRef \in R \cup NoNode /\ rootFile \in R \cup NoNode
      /\ rootRef' = rootRef /\ rootFile' = rootFile /\ op' = op
      /\ pc = "store" /\ pc' \in {"return", "store"}
  BY DEF Inv, RootInv, StoreNode
<1>3. /\ ContentsOf(db', rootRef) = ContentsOf(db, rootRef)
      /\ ContentsOf(db', rootFile) = ContentsOf(db, rootFile)
  BY <1>1, <1>2, ContentsKept
<1>4. /\ Contents(rootRef) = ContentsOf(db, rootRef) /\ Contents(rootFile) = ContentsOf(db, rootFile)
      /\ Contents(rootRef)' = ContentsOf(db', rootRef')
      /\ Contents(rootFile)' = ContentsOf(db', rootFile')
  BY DEF Contents, ContentsOf
<1>5. Contents(rootRef)' = Contents(rootRef) /\ Contents(rootFile)' = Contents(rootFile)
  BY <1>2, <1>3, <1>4
<1>6. Stage' = Stage
  BY <1>2 DEF Stage
<1>7. UNCHANGED Map!mvars
  BY <1>2, <1>5, <1>6, MapSteps
<1> QED
  BY <1>7 DEF MapStep

\* The assignment of _root_ref is where the insert takes effect.
LEMMA SetRootRefines ==
  ASSUME NEW R, Inv(R), NEW P, ChainInv(R, P), SetRoot
  PROVE  MapStep
<1>1. /\ db' = db /\ rootRef' = ret /\ rootFile' = rootFile /\ op' = op
      /\ pc = "return" /\ pc' = "open"
  BY DEF SetRoot, disk
<1>2. ContentsOf(db, ret) = [ContentsOf(db, rootRef) EXCEPT ![op.key] = op.value]
  BY RootUpdated
<1>3. /\ Contents(rootRef) = ContentsOf(db, rootRef)
      /\ Contents(rootRef)' = ContentsOf(db', rootRef')
  BY DEF Contents, ContentsOf
<1>4. Contents(rootFile)' = Contents(rootFile)
  BY <1>1, ContentsFollow
<1>5. Stage = "called" /\ Stage' = "assigned"
  BY <1>1 DEF Stage
<1>6. Map!Assign
  BY <1>1, <1>2, <1>3, <1>4, <1>5, MapSteps
<1> QED
  BY <1>6 DEF MapStep, Map!MapNext

LEMMA SaveRefines ==
  ASSUME OpenRootFile \/ WriteRootFile
  PROVE  MapStep
<1>1. CASE OpenRootFile
  <2>1. /\ Contents(rootRef)' = Contents(rootRef)
        /\ Contents(rootFile)' = [k \in Keys |-> EmptyBytes]
    BY <1>1, ContentsFollow DEF OpenRootFile, NoNode
  <2>2. Stage = "assigned" /\ Stage' = "saving" /\ op' = op
    BY <1>1 DEF Stage, OpenRootFile
  <2>3. Map!Truncate
    BY <2>1, <2>2, MapSteps
  <2> QED
    BY <2>3 DEF MapStep, Map!MapNext
<1>2. CASE WriteRootFile
  <2>1. /\ Contents(rootRef)' = Contents(rootRef)
        /\ Contents(rootFile)' = Contents(rootRef)
    BY <1>2, ContentsFollow DEF WriteRootFile
  <2>2. Stage = "saving" /\ Stage' = "idle" /\ op' = NoOp
    BY <1>2 DEF Stage, WriteRootFile
  <2>3. Map!Save
    BY <2>1, <2>2, MapSteps
  <2> QED
    BY <2>3 DEF MapStep, Map!MapNext
<1> QED
  BY <1>1, <1>2

LEMMA CrashRefines ==
  ASSUME NEW R, Inv(R), Crash \/ Restart
  PROVE  MapStep
<1>1. CASE Crash
  <2>1. /\ Contents(rootFile)' = Contents(rootFile)
        /\ Contents(rootRef)' = [k \in Keys |-> EmptyBytes]
    BY <1>1, ContentsFollow DEF Crash, disk, NoNode
  <2>2. Stage # "down" /\ Stage' = "down" /\ op' = NoOp
    BY <1>1 DEF Stage, Crash, Inv, CallInv
  <2>3. Map!Crash
    BY <2>1, <2>2, MapSteps
  <2> QED
    BY <2>3 DEF MapStep, Map!MapNext
<1>2. CASE Restart
  <2>1. /\ Contents(rootFile)' = Contents(rootFile)
        /\ Contents(rootRef)' = Contents(rootFile)
    BY <1>2, ContentsFollow DEF Restart, disk
  <2>2. Stage = "down" /\ Stage' = "idle" /\ op' = op
    BY <1>2 DEF Stage, Restart
  <2>3. Map!Recover
    BY <2>1, <2>2, MapSteps
  <2> QED
    BY <2>3 DEF MapStep, Map!MapNext
<1> QED
  BY <1>1, <1>2

LEMMA NextRefines == MapInv /\ [Next]_vars => MapStep
<1> SUFFICES ASSUME MapInv, [Next]_vars PROVE MapStep
  OBVIOUS
<1> PICK R, P : Inv(R) /\ ChainInv(R, P)
  BY DEF MapInv
<1>1. CASE ReturnToCaller \/ UNCHANGED vars
  BY <1>1, QuietStep DEF ReturnToCaller, vars, disk, call, bounds, Running
<1> QED
  BY <1>1, InsertRefines, UpdateRefines, StoreNodeRefines, SetRootRefines, SaveRefines,
     CrashRefines DEF Next, Step

LEMMA InitRefines == Init => Map!MapInit
<1> SUFFICES ASSUME Init PROVE Map!MapInit
  OBVIOUS
<1>1. /\ Contents(rootRef) = [k \in Keys |-> EmptyBytes]
      /\ Contents(rootFile) = [k \in Keys |-> EmptyBytes]
  BY NothingHeld, ContentsInStore DEF Init, NoNode
<1>2. Stage = "idle" /\ op = NoOp
  BY DEF Init, Stage
<1> QED
  BY <1>1, <1>2, MapSteps

\* The trie in its directory is a durable map: an insert changes the value of
\* its own key and no other, at the assignment of _root_ref and not before,
\* and a crash keeps one of the two maps around the running insert or, while
\* the root file is truncated, none.
THEOREM TrieImplementsDurableMap == Spec => ImplementsDurableMap
<1>1. Spec => []MapInv
  BY InitMapInv, NextMapInv, PTL DEF Spec
<1>2. MapInv /\ [Next]_vars => [Map!MapNext]_(Map!mvars)
  BY NextRefines DEF MapStep
<1> QED
  BY <1>1, <1>2, InitRefines, PTL DEF Spec, ImplementsDurableMap, Map!MapSpec

-----------------------------------------------------------------------------
(* What else the tries over R have in common *)

\* Every trie holds something.
Filled(R) == \A r \in R : \E k \in Path : \E v : Holds(R, r, k, v)

\* The roots hold the keys that were inserted.
KeysOnly(R) ==
  \A k \in Path : \A v : Holds(R, rootRef, k, v) \/ Holds(R, rootFile, k, v) => k \in Keys

\* No node is short enough to be kept in place: every node is hashed, or the
\* values alone take 32 bytes.
NothingInPlace == HashFn = "poseidon" \/ \A v \in Values : RlpLen[v] >= 32

AllHashed(R) == \A r \in R : r.len = 32

LEMMA FilledMore ==
  ASSUME NEW R, Closed(R), Filled(R), NEW r, NEW S, S = R \cup {r}, Closed(S), r.of \in Nodes(R)
  PROVE  Filled(S)
<1>1. ASSUME NEW x \in R PROVE \E k \in Path : \E v : Holds(S, x, k, v)
  <2>1. PICK k \in Path : \E v : Holds(R, x, k, v)
    BY DEF Filled
  <2>2. PICK v : Holds(R, x, k, v)
    BY <2>1
  <2>3. Holds(S, x, k, v)
    BY <2>2, HoldsWider
  <2> QED
    BY <2>3
<1>2. r \in S /\ Readable(S, r) /\ Compressed(r.of) /\ EmptyBytes \notin R
  BY AllReadable DEF Closed, NoNode
<1> SUFFICES \E k \in Path : \E v : Holds(S, r, k, v)
  BY <1>1 DEF Filled
<1>3. CASE r.of.type = "leaf"
  <2>1. r.of.path \in Path
    BY <1>2, <1>3, NodeForms
  <2>2. Holds(S, r, r.of.path, r.of.data)
    BY <1>2, <1>3, <2>1, HoldsLeaf
  <2> QED
    BY <2>1, <2>2
<1>4. CASE r.of.type = "extension"
  <2> DEFINE p == r.of.path
             next == r.of.next
  <2>1. p \in Path /\ next \in R
    BY <1>2, <1>4, NodeForms
  <2>2. PICK k \in Path : \E v : Holds(S, next, k, v)
    BY <1>1, <2>1
  <2>3. PICK v : Holds(S, next, k, v)
    BY <2>2
  <2> HIDE DEF p, next
  <2>4. p \o k \in Path
    BY <2>1, ConcatPath
  <2> PICK e : e = p \o k
    OBVIOUS
  <2>5. StartsWith(e, p) /\ Consume(e, Len(p)) = k
    BY <2>1, <2>4, PrefixAndRest
  <2>6. Holds(S, r, e, v) <=> StartsWith(e, p) /\ Holds(S, next, Consume(e, Len(p)), v)
    BY <1>2, <1>4, <2>4, HoldsExtension DEF p, next
  <2> QED
    BY <2>3, <2>4, <2>5, <2>6
<1>5. CASE r.of.type = "branch"
  <2>1. PICK i \in Nibbles : r.of.branches[i] # EmptyBytes
    BY <1>2, <1>5 DEF Compressed
  <2> DEFINE child == r.of.branches[i]
  <2>2. child \in R
    BY <1>2, <1>5, <2>1, NodeForms
  <2>3. PICK k \in Path : \E v : Holds(S, child, k, v)
    BY <1>1, <2>2
  <2>4. PICK v : Holds(S, child, k, v)
    BY <2>3
  <2> PICK e : e = <<i>> \o k
    OBVIOUS
  <2>5. e \in Path /\ e # <<>> /\ e[1] = i /\ Consume(e, 1) = k
    <3>1. e \in Path
      BY DigitPath, ConcatPath
    <3>2. \A q \in Path : <<i>> \o q = e <=> e # <<>> /\ e[1] = i /\ Consume(e, 1) = q
      BY <3>1, DigitAndRest
    <3> QED
      BY <3>1, <3>2
  <2>6. Holds(S, r, e, v) <=>
          IF e = <<>> THEN v = r.of.data /\ v # EmptyBytes
          ELSE Holds(S, r.of.branches[e[1]], Consume(e, 1), v)
    BY <1>2, <1>5, <2>5, HoldsBranch
  <2>7. Holds(S, r, e, v)
    BY <2>4, <2>5, <2>6
  <2> QED
    BY <2>5, <2>7
<1> QED
  BY <1>2, <1>3, <1>4, <1>5, NodeForms

LEMMA LengthOfPath == ASSUME NEW p \in Path PROVE PathLen(p) \in Nat
<1>1. \A a \in Nat : a \div 2 \in Nat
  OBVIOUS
<1>2. Len(p) \in Nat
  BY PathLength
<1>3. Len(p) \div 2 \in Nat
  BY <1>1, <1>2
<1> QED
  BY <1>3 DEF PathLen

LEMMA HashedMore ==
  ASSUME NothingInPlace, NEW R, AllHashed(R), EmptyBytes \notin R,
         NEW n \in Nodes(R), Compressed(n)
  PROVE  IntoReference(n).len = 32
<1> SUFFICES ASSUME InPlace(n) PROVE FALSE
  BY DEF IntoReference
<1>1. /\ \A v \in Values : RlpLen[v] >= 32
      /\ \A c \in Children(n) : c.len < 32
      /\ InPlaceLen(n) < 32
  BY DEF NothingInPlace, InPlace
<1>2. Children(n) = {}
  <2>1. Children(n) \subseteq R
    BY ChildrenOfNode
  <2> QED
    BY <1>1, <2>1 DEF AllHashed
<1>3. CASE n.type = "leaf"
  <2>1. InPlaceLen(n) = 1 + PathLen(n.path) + RlpLen[n.data]
    BY <1>3 DEF InPlaceLen
  <2>2. n.path \in Path /\ n.data \in Values
    BY <1>3, NodeForms
  <2>3. PathLen(n.path) \in Nat
    BY <2>2, LengthOfPath
  <2>4. RlpLen[n.data] \in Nat /\ RlpLen[n.data] >= 32
    BY <1>1, <2>2, NodeAssumption
  <2> QED
    BY <1>1, <2>1, <2>3, <2>4
<1>4. CASE n.type = "extension"
  BY <1>2, <1>4 DEF Children
<1>5. CASE n.type = "branch"
  <2>1. PICK i \in Nibbles : n.branches[i] # EmptyBytes
    BY <1>5 DEF Compressed
  <2> QED
    BY <1>2, <1>5, <2>1 DEF Children
<1> QED
  BY <1>3, <1>4, <1>5, NodeForms

LEMMA KeysOnlyKept ==
  ASSUME NEW R, Inv(R), NEW P, ChainInv(R, P), KeysOnly(R), [Next]_vars,
         NEW S, Inv(S)', R \subseteq S
  PROVE  KeysOnly(S)'
<1>1. /\ rootRef \in R \cup NoNode /\ rootFile \in R \cup NoNode
      /\ Closed(R) /\ Closed(S)
  <2>1. Closed(R)
    BY InvClosed DEF Inv
  <2>2. Closed(S)
    BY DEF Inv, StoreInv, Closed
  <2> QED
    BY <2>1, <2>2 DEF Inv, RootInv
<1>2. ASSUME NEW r \in {rootRef, rootFile} \cup NoNode, NEW k \in Path, NEW v, Holds(S, r, k, v)
      PROVE  k \in Keys
  <2>1. CASE r \in NoNode
    BY <1>2, <2>1, HoldsUnreadable DEF Readable
  <2>2. CASE r \notin NoNode
    <3>1. Holds(R, r, k, v)
      BY <1>1, <1>2, <2>2, HoldsWider
    <3> QED
      BY <1>2, <2>2, <3>1 DEF KeysOnly
  <2> QED
    BY <2>1, <2>2
<1>3. CASE SetRoot
  <2>1. /\ rootRef' = ret /\ rootFile' = rootFile /\ ret \in R /\ op.key \in Keys
        /\ pc = "return" /\ Len(stack) + 1 = 1
    BY <1>3, EmptySeq DEF SetRoot, disk, Inv, CallInv
  <2>2. Updated(R, ret, rootRef, op.key, op.value)
    BY <2>1 DEF ChainInv, Running, Linked, Innermost, Target
  <2>3. ASSUME NEW k \in Path, NEW v, Holds(S, ret, k, v) PROVE k \in Keys
    <3>1. Holds(R, ret, k, v)
      BY <1>1, <2>1, <2>3, HoldsWider
    <3>2. k = op.key \/ Holds(R, rootRef, k, v)
      BY <2>2, <3>1 DEF Updated
    <3> QED
      BY <2>1, <3>2 DEF KeysOnly
  <2> QED
    BY <1>2, <2>1, <2>3 DEF KeysOnly
<1>4. CASE ~SetRoot
  <2>1. rootRef' \in {rootRef, rootFile} \cup NoNode /\ rootFile' \in {rootRef, rootFile} \cup NoNode
    <3>1. CASE \E k \in Keys, v \in Values : Insert(k, v)
      BY <3>1 DEF Insert, disk
    <3>2. CASE Update
      BY <3>2 DEF Update, UpdateEmpty, UpdateMissing, UpdateLeafValue, UpdateLeafSplit,
                  UpdateExtensionFollow, UpdateExtensionSplit, UpdateBranchValue,
                  UpdateBranchFollow, StoreNodes, Descend, disk
    <3>3. CASE StoreNode \/ ReturnToCaller \/ OpenRootFile \/ WriteRootFile
      BY <3>3 DEF StoreNode, ReturnToCaller, OpenRootFile, WriteRootFile, disk, NoNode
    <3>4. CASE Crash \/ Restart
      BY <3>4 DEF Crash, Restart, disk, NoNode
    <3>5. CASE UNCHANGED vars
      BY <3>5 DEF vars, disk
    <3> QED
      BY <1>4, <3>1, <3>2, <3>3, <3>4, <3>5 DEF Next, Step
  <2> QED
    BY <1>2, <2>1 DEF KeysOnly
<1> QED
  BY <1>3, <1>4

\* The invariant of the reads.
ReadInv ==
  \E R, P : /\ Inv(R) /\ ChainInv(R, P)
            /\ Filled(R) /\ KeysOnly(R) /\ (NothingInPlace => AllHashed(R))

LEMMA InitReadInv == Init => ReadInv
<1> SUFFICES ASSUME Init PROVE ReadInv
  OBVIOUS
<1>1. Inv({})
  <2>1. StoreInv({})
    BY DEF Init, StoreInv
  <2>2. RootInv({}) /\ CallInv({})
    BY TrieAssumption DEF Init, RootInv, CallInv, NoNode, Path, NoOp
  <2>3. StackInv /\ BelowInv
    BY EmptySeq DEF Init, StackInv, BelowInv
  <2> QED
    BY <2>1, <2>2, <2>3 DEF Inv
<1>2. \A P : ChainInv({}, P)
  BY DEF Init, ChainInv, Running
<1>3. Filled({}) /\ AllHashed({})
  BY DEF Filled, AllHashed
<1>4. KeysOnly({})
  BY HoldsUnreadable DEF Init, KeysOnly, Readable, NoNode
<1> QED
  BY <1>1, <1>2, <1>3, <1>4 DEF ReadInv

LEMMA NextReadInv == ReadInv /\ [Next]_vars => ReadInv'
<1> SUFFICES ASSUME ReadInv, [Next]_vars PROVE ReadInv'
  OBVIOUS
<1> PICK R, P : /\ Inv(R) /\ ChainInv(R, P)
                /\ Filled(R) /\ KeysOnly(R) /\ (NothingInPlace => AllHashed(R))
  BY DEF ReadInv
<1> PICK S, Q : /\ Inv(S)' /\ ChainInv(S, Q)'
                /\ IF StoreNode THEN S = R \cup {IntoReference(Head(todo))} ELSE S = R
  BY NextChain
<1>1. R \subseteq S
  OBVIOUS
<1>2. KeysOnly(S)'
  BY <1>1, KeysOnlyKept
<1>3. Closed(R) /\ Closed(S)
  BY InvClosed DEF Inv, StoreInv, Closed
<1>4. Filled(S) /\ (NothingInPlace => AllHashed(S))
  <2>1. CASE StoreNode
    <3> DEFINE n == Head(todo)
               r == IntoReference(n)
    <3>1. Storable(todo, R) /\ todo # <<>>
      BY <2>1 DEF Inv, CallInv, StoreNode
    <3>2. n \in Nodes(R) /\ Compressed(n)
      BY <3>1, StorableTail
    <3>3. S = R \cup {r} /\ r.of = n
      BY <2>1 DEF IntoReference
    <3> HIDE DEF r, n
    <3>4. Filled(S)
      BY <1>3, <3>2, <3>3, FilledMore
    <3>5. NothingInPlace => r.len = 32
      BY <1>3, <3>2, HashedMore DEF r, Closed, NoNode
    <3> QED
      BY <3>3, <3>4, <3>5 DEF AllHashed
  <2>2. CASE ~StoreNode
    BY <2>2
  <2> QED
    BY <2>1, <2>2
<1> QED
  BY <1>2, <1>4 DEF ReadInv

LEMMA ReadInvariance == Spec => []ReadInv
BY InitReadInv, NextReadInv, PTL DEF Spec

-----------------------------------------------------------------------------
(* The calls of a lookup *)

\* One call further, some digits of the path are read and the trie below holds
\* the rests of what was held.
Onward(R, at, to) ==
  /\ to.ref \in R /\ to.path \in Path
  /\ \E q \in Path :
       /\ q # <<>> /\ at.path = q \o to.path
       /\ \A d \in Path : \A v : Holds(R, at.ref, q \o d, v) <=> Holds(R, to.ref, d, v)

LEMMA ForwardHolds ==
  ASSUME NEW R, Closed(R), NEW at, at.ref \in R \cup NoNode, at.path \in Path, GoesOn(at)
  PROVE  Onward(R, at, Forward(at))
<1> PICK r, p, to : r = at.ref /\ p = at.path /\ to = Forward(at)
  OBVIOUS
<1>1. r \in R /\ p \in Path /\ p # <<>> /\ Readable(R, r) /\ Compressed(r.of) /\ EmptyBytes \notin R
  BY AllReadable DEF GoesOn, Closed
<1>2. CASE r.of.type = "extension"
  <2> PICK q : q = r.of.path
    OBVIOUS
  <2>1. StartsWith(p, q) /\ to.ref = r.of.next /\ to.path = Consume(p, Len(q))
    BY <1>2 DEF GoesOn, Forward
  <2>2. q \in Path /\ q # <<>> /\ r.of.next \in R
    BY <1>1, <1>2, NodeForms DEF Closed, Compressed
  <2>3. to.path \in Path /\ p = q \o to.path /\ to.ref = r.of.next
    <3>1. /\ \A x \in Path : q \o x = p <=> StartsWith(p, q) /\ x = Consume(p, Len(q))
          /\ StartsWith(p, q) => Consume(p, Len(q)) \in Path
      BY <1>1, <2>2, PrefixAndRest
    <3> PICK x : x = Consume(p, Len(q))
      OBVIOUS
    <3>2. x \in Path /\ q \o x = p
      BY <2>1, <3>1
    <3> QED
      BY <2>1, <3>2
  <2>4. ASSUME NEW d \in Path, NEW v
        PROVE  Holds(R, r, q \o d, v) <=> Holds(R, to.ref, d, v)
    <3> PICK e : e = q \o d
      OBVIOUS
    <3>1. e \in Path
      BY <2>2, ConcatPath
    <3>2. StartsWith(e, q) /\ Consume(e, Len(q)) = d
      BY <2>2, <3>1, PrefixAndRest
    <3>3. Holds(R, r, e, v) <=>
            StartsWith(e, r.of.path) /\ Holds(R, r.of.next, Consume(e, Len(r.of.path)), v)
      BY <1>1, <1>2, <3>1, HoldsExtension
    <3> QED
      BY <2>3, <3>2, <3>3
  <2> QED
    BY <1>1, <2>2, <2>3, <2>4 DEF Onward
<1>3. CASE r.of.type # "extension"
  <2>1. r.of.type = "branch" /\ r.of.branches[p[1]] # EmptyBytes
    BY <1>3 DEF GoesOn
  <2>2. p[1] \in Nibbles
    BY <1>1, PathLength
  <2> PICK i \in Nibbles : i = p[1]
    BY <2>2
  <2> PICK q : q = <<i>>
    OBVIOUS
  <2>3. to.ref = r.of.branches[i] /\ to.path = Consume(p, 1)
    BY <1>3 DEF Forward
  <2>4. q \in Path /\ q # <<>> /\ to.ref \in R
    <3>1. r.of.branches[i] \in R \cup {EmptyBytes}
      BY <1>1, <2>1, NodeForms DEF Closed
    <3> QED
      BY <2>1, <2>3, <3>1, DigitPath
  <2>5. to.path \in Path /\ p = q \o to.path
    BY <1>1, <2>3, DigitAndRest
  <2>6. ASSUME NEW d \in Path, NEW v
        PROVE  Holds(R, r, q \o d, v) <=> Holds(R, to.ref, d, v)
    <3> PICK e : e = q \o d
      OBVIOUS
    <3>1. e \in Path
      BY <2>4, ConcatPath
    <3>2. e # <<>> /\ e[1] = i /\ Consume(e, 1) = d
      <4>1. \A x \in Path : <<i>> \o x = e <=> e # <<>> /\ e[1] = i /\ x = Consume(e, 1)
        BY <3>1, DigitAndRest
      <4> QED
        BY <4>1
    <3>3. Holds(R, r, e, v) <=>
            IF e = <<>> THEN v = r.of.data /\ v # EmptyBytes
            ELSE Holds(R, r.of.branches[e[1]], Consume(e, 1), v)
      <4>1. r \in R /\ Readable(R, r) /\ r.of.type = "branch"
        BY <1>1, <2>1
      <4>2. \A x \in Path : \A w :
              Holds(R, r, x, w) <=> IF x = <<>> THEN w = r.of.data /\ w # EmptyBytes
                                    ELSE Holds(R, r.of.branches[x[1]], Consume(x, 1), w)
        BY <4>1, HoldsBranch
      <4> QED
        BY <3>1, <4>2
    <3> QED
      BY <2>3, <3>2, <3>3
  <2> QED
    BY <1>1, <2>4, <2>5, <2>6 DEF Onward
<1> QED
  BY <1>2, <1>3

\* The digits q lead from the reference r to the call at.
Reaches(R, r, p, at) ==
  \E q \in Path : /\ p = q \o at.path
                  /\ \A d \in Path : \A v : Holds(R, r, q \o d, v) <=> Holds(R, at.ref, d, v)

LEMMA ReachesOn ==
  ASSUME NEW R, NEW r, NEW p, NEW at, at.path \in Path, NEW to, Reaches(R, r, p, at), Onward(R, at, to)
  PROVE  Reaches(R, r, p, to)
<1>1. PICK q \in Path : /\ p = q \o at.path
                        /\ \A d \in Path : \A v : Holds(R, r, q \o d, v) <=> Holds(R, at.ref, d, v)
  BY DEF Reaches
<1>2. to.path \in Path
  BY DEF Onward
<1>3. PICK s \in Path :
        /\ at.path = s \o to.path
        /\ \A d \in Path : \A v : Holds(R, at.ref, s \o d, v) <=> Holds(R, to.ref, d, v)
  BY DEF Onward
<1> PICK t : t = q \o s
  OBVIOUS
<1>4. t \in Path /\ \A d \in Path : t \o d = q \o (s \o d) /\ s \o d \in Path
  <2>1. \A a, b \in Path : a \o b \in Path
    BY ConcatPath
  <2>2. \A a, b, c \in Path : (a \o b) \o c = a \o (b \o c)
    BY ConcatPaths
  <2> QED
    BY <2>1, <2>2
<1>5. p = t \o to.path
  BY <1>1, <1>2, <1>3, <1>4
<1>6. \A d \in Path : \A v : Holds(R, r, t \o d, v) <=> Holds(R, to.ref, d, v)
  BY <1>1, <1>3, <1>4
<1> QED
  BY <1>4, <1>5, <1>6 DEF Reaches

LEMMA WalkTyped ==
  ASSUME NEW R, Closed(R), NEW r \in R \cup NoNode, NEW p \in Path
  PROVE  \A n \in Nat : (\A m \in 0..(n-1) : GoesOn(Walk(r, p)[m])) =>
           LET at == Walk(r, p)[n]
           IN  /\ at.ref \in R \cup NoNode /\ (r \in R => at.ref \in R)
               /\ at.path \in Path /\ Len(at.path) + n <= Len(p)
               /\ Reaches(R, r, p, at)
<1> DEFINE at(n) == Walk(r, p)[n]
           Typed(n) == /\ at(n).ref \in R \cup NoNode /\ (r \in R => at(n).ref \in R)
                       /\ at(n).path \in Path /\ Len(at(n).path) + n <= Len(p)
                       /\ Reaches(R, r, p, at(n))
           S == {n \in Nat : (\A m \in 0..(n-1) : GoesOn(at(m))) => Typed(n)}
<1>1. at(0) = [ref |-> r, path |-> p] /\ \A n \in Nat : at(n + 1) = Forward(at(n))
  BY WalkSteps
<1> HIDE DEF at
<1>2. 0 \in S
  <2>1. <<>> \in Path /\ \A d \in Path : <<>> \o d = d
    BY EmptyPath
  <2>2. Reaches(R, r, p, at(0))
    <3>1. at(0).ref = r /\ at(0).path = p /\ p = <<>> \o p
      BY <1>1, <2>1
    <3>2. \A d \in Path : \A v : Holds(R, r, <<>> \o d, v) <=> Holds(R, r, d, v)
      BY <2>1
    <3> QED
      BY <2>1, <3>1, <3>2 DEF Reaches
  <2>3. Len(p) \in Nat
    BY PathLength
  <2> QED
    BY <1>1, <2>2, <2>3
<1>3. ASSUME NEW n \in Nat, n \in S PROVE n + 1 \in S
  <2> SUFFICES ASSUME \A m \in 0..n : GoesOn(at(m)) PROVE Typed(n + 1)
    <3>1. 0..((n + 1) - 1) = 0..n /\ n + 1 \in Nat
      OBVIOUS
    <3> HIDE DEF Typed
    <3> QED
      BY <3>1
  <2>1. Typed(n) /\ GoesOn(at(n))
    BY <1>3
  <2>2. Onward(R, at(n), at(n + 1))
    BY <1>1, <2>1, ForwardHolds
  <2>3. at(n + 1).ref \in R /\ at(n + 1).path \in Path
    BY <2>2 DEF Onward
  <2>4. Len(at(n + 1).path) + 1 <= Len(at(n).path)
    <3>1. PICK q \in Path : q # <<>> /\ at(n).path = q \o at(n + 1).path
      BY <2>2 DEF Onward
    <3>2. Len(q) \in Nat /\ Len(q) # 0 /\ Len(at(n + 1).path) \in Nat
      BY <2>3, <3>1, PathLength
    <3>3. Len(at(n).path) = Len(q) + Len(at(n + 1).path)
      BY <2>3, <3>1, ConcatPath
    <3> PICK a, b, c : a = Len(q) /\ b = Len(at(n + 1).path) /\ c = Len(at(n).path)
      OBVIOUS
    <3> QED
      BY <3>2, <3>3
  <2>5. Len(at(n + 1).path) + (n + 1) <= Len(p)
    <3>1. Len(at(n + 1).path) \in Nat /\ Len(at(n).path) \in Nat /\ Len(p) \in Nat
      BY <2>1, <2>3, PathLength
    <3> PICK a, b, c : a = Len(p) /\ b = Len(at(n + 1).path) /\ c = Len(at(n).path)
      OBVIOUS
    <3>2. a \in Nat /\ b \in Nat /\ c \in Nat /\ b + 1 <= c /\ c + n <= a
      BY <2>1, <2>4, <3>1
    <3>3. \A x, y, z, m \in Nat : x + 1 <= y /\ y + m <= z => x + (m + 1) <= z
      OBVIOUS
    <3> QED
      BY <3>2, <3>3
  <2>6. Reaches(R, r, p, at(n + 1))
    BY <2>1, <2>2, ReachesOn
  <2> QED
    BY <2>3, <2>5, <2>6
<1> HIDE DEF S
<1>4. Nat \subseteq S
  BY <1>2, <1>3, SetInduction
<1> QED
  BY <1>4 DEF S, at

LEMMA CallsEnd ==
  ASSUME NEW R, Closed(R), NEW r \in R \cup NoNode, NEW p \in Path
  PROVE  /\ Calls(r, p) \in 0..Len(p)
         /\ ~GoesOn(Walk(r, p)[Calls(r, p)])
         /\ \A m \in 0..(Calls(r, p) - 1) : GoesOn(Walk(r, p)[m])
<1> DEFINE at(n) == Walk(r, p)[n]
           S == {n \in Nat : ~GoesOn(at(n))}
           Ends(n) == ~GoesOn(at(n)) /\ \A m \in 0..(n-1) : GoesOn(at(m))
<1>1. Len(p) \in Nat
  BY PathLength
<1>2. \A n \in Nat : (\A m \in 0..(n-1) : GoesOn(at(m))) => n <= Len(p)
  <2> SUFFICES ASSUME NEW n \in Nat, \A m \in 0..(n-1) : GoesOn(at(m)) PROVE n <= Len(p)
    OBVIOUS
  <2>1. at(n).path \in Path /\ Len(at(n).path) + n <= Len(p)
    BY WalkTyped
  <2> HIDE DEF at
  <2> PICK a : a = Len(at(n).path)
    OBVIOUS
  <2>2. a \in Nat
    BY <2>1, PathLength
  <2> QED
    BY <1>1, <2>1, <2>2
<1> HIDE DEF at
<1>3. S # {}
  <2>1. Len(p) + 1 \in Nat /\ ~(Len(p) + 1 <= Len(p))
    BY <1>1
  <2>2. \E m \in 0..((Len(p) + 1) - 1) : ~GoesOn(at(m))
    BY <1>2, <2>1
  <2> QED
    BY <2>2, <1>1
<1>4. PICK n \in S : \A m \in 0..(n-1) : m \notin S
  BY <1>3, LeastNumber
<1>5. Ends(n)
  <2>1. \A m \in 0..(n-1) : m \in Nat
    OBVIOUS
  <2> QED
    BY <1>4, <2>1
<1>6. n \in 0..Len(p)
  BY <1>1, <1>2, <1>5
<1>7. Calls(r, p) = CHOOSE m \in 0..Len(p) : Ends(m)
  BY DEF Calls, at
<1> HIDE DEF Ends
<1>8. Calls(r, p) \in 0..Len(p) /\ Ends(Calls(r, p))
  BY <1>5, <1>6, <1>7
<1> QED
  BY <1>8 DEF Ends, at

\* What the last call finds is what the trie holds at the path.
LEMMA LookupHolds ==
  ASSUME NEW R, Closed(R), NEW r \in R, NEW p \in Path,
         NEW last, last = Walk(r, p)[Calls(r, p)]
  PROVE  /\ last.ref \in R /\ last.path \in Path /\ Reaches(R, r, p, last) /\ ~GoesOn(last)
         /\ \A n \in 0..Calls(r, p) : Walk(r, p)[n].ref \in R
         /\ \A v : Holds(R, r, p, v) <=>
              /\ v = last.ref.of.data
              /\ \/ LeafMatches(last)
                 \/ last.ref.of.type = "branch" /\ last.path = <<>> /\ v # EmptyBytes
<1>1. /\ Calls(r, p) \in Nat /\ ~GoesOn(last)
      /\ \A m \in 0..(Calls(r, p) - 1) : GoesOn(Walk(r, p)[m])
  <2>1. Len(p) \in Nat
    BY PathLength
  <2> QED
    BY <2>1, CallsEnd
<1>2. \A n \in 0..Calls(r, p) :
        /\ Walk(r, p)[n].ref \in R /\ Walk(r, p)[n].path \in Path /\ Reaches(R, r, p, Walk(r, p)[n])
  <2> SUFFICES ASSUME NEW n \in 0..Calls(r, p)
               PROVE  /\ Walk(r, p)[n].ref \in R /\ Walk(r, p)[n].path \in Path
                      /\ Reaches(R, r, p, Walk(r, p)[n])
    OBVIOUS
  <2>1. n \in Nat /\ \A m \in 0..(n-1) : m \in 0..(Calls(r, p) - 1)
    BY <1>1
  <2>2. \A m \in 0..(n-1) : GoesOn(Walk(r, p)[m])
    BY <1>1, <2>1
  <2> QED
    BY <2>1, <2>2, WalkTyped
<1>3. last.ref \in R /\ last.path \in Path /\ Reaches(R, r, p, last)
  BY <1>1, <1>2
<1>4. \A v : Holds(R, r, p, v) <=> Holds(R, last.ref, last.path, v)
  BY <1>3 DEF Reaches
<1> PICK s, q : s = last.ref /\ q = last.path
  OBVIOUS
<1>5. /\ s \in R /\ q \in Path /\ Readable(R, s) /\ Compressed(s.of) /\ EmptyBytes \notin R
      /\ s.of \in Nodes(R) /\ s \notin NoNode
  BY <1>3, AllReadable DEF Closed
<1>6. s.of.type \in {"leaf", "extension", "branch"}
  BY <1>5, NodeForms
<1>7. CASE s.of.type = "leaf"
  <2>1. \A v : Holds(R, s, q, v) <=> q = s.of.path /\ v = s.of.data
    BY <1>5, <1>7, HoldsLeaf
  <2> QED
    BY <1>1, <1>2, <1>3, <1>4, <1>7, <2>1 DEF LeafMatches
<1>8. CASE s.of.type = "extension"
  <2>1. \A v : Holds(R, s, q, v) <=>
          StartsWith(q, s.of.path) /\ Holds(R, s.of.next, Consume(q, Len(s.of.path)), v)
    BY <1>5, <1>8, HoldsExtension
  <2>2. s.of.path \in Path /\ s.of.path # <<>>
    BY <1>5, <1>8, NodeForms DEF Compressed
  <2>3. ~StartsWith(q, s.of.path)
    <3>1. CASE q = <<>>
      <4>1. Len(q) = 0 /\ Len(s.of.path) \in Nat /\ Len(s.of.path) # 0
        BY <2>2, <3>1, <1>5, PathLength
      <4> QED
        BY <4>1 DEF StartsWith
    <3>2. CASE q # <<>>
      BY <1>1, <1>5, <1>8, <3>2 DEF GoesOn
    <3> QED
      BY <3>1, <3>2
  <2> QED
    BY <1>1, <1>2, <1>3, <1>4, <1>8, <2>1, <2>3 DEF LeafMatches
<1>9. CASE s.of.type = "branch"
  <2>1. \A v : Holds(R, s, q, v) <=>
          IF q = <<>> THEN v = s.of.data /\ v # EmptyBytes
          ELSE Holds(R, s.of.branches[q[1]], Consume(q, 1), v)
    BY <1>5, <1>9, HoldsBranch
  <2>2. CASE q = <<>>
    BY <1>1, <1>2, <1>3, <1>4, <1>9, <2>1, <2>2 DEF LeafMatches
  <2>3. CASE q # <<>>
    <3>1. s.of.branches[q[1]] = EmptyBytes
      BY <1>1, <1>5, <1>9, <2>3 DEF GoesOn
    <3>2. ~Readable(R, EmptyBytes)
      BY DEF Readable, NoNode
    <3>3. \A v : ~Holds(R, s, q, v)
      BY <2>1, <2>3, <3>1, <3>2, HoldsUnreadable
    <3> QED
      BY <1>1, <1>2, <1>3, <1>4, <1>9, <2>3, <3>3 DEF LeafMatches
  <2> QED
    BY <2>2, <2>3
<1> QED
  BY <1>6, <1>7, <1>8, <1>9

\* A key the trie holds is found; one it does not hold is a miss, or the
\* lookup stops above longer keys.
LEMMA LookupMisses ==
  ASSUME NEW R, Closed(R), Filled(R), NEW r \in R, NEW p \in Path,
         \A v : ~Holds(R, r, p, v),
         NEW last, last = Walk(r, p)[Calls(r, p)], last.path = <<>>
  PROVE  \E d \in Path : \E v : Holds(R, r, p \o d, v)
<1>1. last.ref \in R /\ Reaches(R, r, p, last)
  BY LookupHolds
<1>2. PICK q \in Path : /\ p = q \o last.path
                        /\ \A d \in Path : \A v : Holds(R, r, q \o d, v) <=> Holds(R, last.ref, d, v)
  BY <1>1 DEF Reaches
<1>3. p = q
  BY <1>2, EmptyPath
<1>4. PICK d \in Path : \E v : Holds(R, last.ref, d, v)
  BY <1>1 DEF Filled
<1> QED
  BY <1>2, <1>3, <1>4

-----------------------------------------------------------------------------
(* The lookups of get *)

\* A state between two steps, when every node is hashed: all tries are in the
\* database.
ReadState(R) ==
  /\ Closed(R) /\ Filled(R) /\ KeysOnly(R)
  /\ db = R /\ \A r \in R : r.len = 32 /\ r = IntoReference(r.of) /\ Readable(db, r)
  /\ rootRef \in R \cup NoNode /\ rootFile \in R \cup NoNode
  /\ pc = "ready" => rootValue = rootRef

LEMMA ReadStates ==
  ASSUME NothingInPlace, ReadInv
  PROVE  \E R : ReadState(R)
<1> PICK R, P : /\ Inv(R) /\ ChainInv(R, P)
                /\ Filled(R) /\ KeysOnly(R) /\ (NothingInPlace => AllHashed(R))
  BY DEF ReadInv
<1>1. Closed(R) /\ \A r \in R : Readable(db, r)
  BY InvClosed DEF Inv
<1>2. \A r \in R : r.len = 32 /\ r = IntoReference(r.of)
  BY DEF AllHashed, Inv, StoreInv
<1>3. db = R
  BY <1>2 DEF Inv, StoreInv, Resolves
<1>4. pc = "ready" => rootValue = rootRef
  BY DEF Inv, RootInv
<1>5. rootRef \in R \cup NoNode /\ rootFile \in R \cup NoNode
  BY DEF Inv, RootInv
<1>6. ReadState(R)
  BY <1>1, <1>2, <1>3, <1>4, <1>5 DEF ReadState
<1> QED
  BY <1>6

\* The map of the trie is what it holds.
LEMMA MapHolds ==
  ASSUME NEW R, ReadState(R), NEW k \in Keys
  PROVE  /\ k \in Path
         /\ \A v : Holds(R, rootRef, k, v) => Contents(rootRef)[k] = v
         /\ \A v : Holds(R, rootRef, k, v) => v \in Values /\ v # EmptyBytes
         /\ (\A v : ~Holds(R, rootRef, k, v)) => Contents(rootRef)[k] = EmptyBytes
<1>1. Closed(R) /\ (\A r \in R : Readable(R, r)) /\ rootRef \in R \cup NoNode /\ db = R
  BY AllReadable DEF ReadState
<1>2. Contents(rootRef) = ContentsOf(R, rootRef)
  BY <1>1, ContentsInStore
<1>3. \A v : Holds(R, rootRef, k, v) => v \in Values /\ v # EmptyBytes
  BY <1>1, HoldsTyped, NodeAssumption
<1> QED
  BY <1>1, <1>2, <1>3, ContentsHold, TrieAssumption

LEMMA NodesAreNoErrors ==
  ASSUME NEW R, EmptyBytes \notin R, NEW n \in Nodes(R)
  PROVE  n # KeyError
<1>1. DOMAIN KeyError = {}
  BY DEF KeyError
<1>2. "type" \in DOMAIN n
  BY DEF Nodes, LeafNodes, ExtensionNodes, BranchNodes
<1> QED
  BY <1>1, <1>2

LEMMA GetExact ==
  ASSUME NEW R, ReadState(R), NEW k \in Keys,
         NEW map, map = Contents(rootRef)
  PROVE  IF map[k] # EmptyBytes THEN Get(k) = map[k]
         ELSE \/ \E l \in Keys : map[l] # EmptyBytes /\ StartsWith(l, k)
              \/ Get(k) = KeyError
<1>1. /\ k \in Path
      /\ \A l \in Keys : \A v : Holds(R, rootRef, l, v) => map[l] = v /\ v # EmptyBytes
      /\ (\A v : ~Holds(R, rootRef, k, v)) => map[k] = EmptyBytes
  BY MapHolds
<1>2. CASE rootRef \in NoNode
  <2>1. rootRef \notin db
    BY <1>2 DEF ReadState, Closed
  <2>2. \A v : ~Holds(R, rootRef, k, v)
    BY <1>2, HoldsUnreadable DEF Readable
  <2>3. 0 \in 0..Calls(rootRef, k) /\ Walk(rootRef, k)[0].ref = rootRef
    <3>1. Calls(rootRef, k) \in 0..Len(k) /\ Len(k) \in Nat
      BY <1>1, CallsEnd, PathLength DEF ReadState
    <3>2. Walk(rootRef, k)[0] = [ref |-> rootRef, path |-> k]
      BY WalkSteps
    <3>3. \A a \in Nat : \A b \in 0..a : 0 \in 0..b
      OBVIOUS
    <3> QED
      BY <3>1, <3>2, <3>3
  <2>4. GetNode(rootRef, k) = KeyError
    BY <2>1, <2>3 DEF GetNode
  <2> QED
    BY <1>1, <2>2, <2>4 DEF Get
<1>3. CASE rootRef \in R
  <2> PICK last : last = Walk(rootRef, k)[Calls(rootRef, k)]
    OBVIOUS
  <2>1. /\ last.ref \in R
        /\ \A n \in 0..Calls(rootRef, k) : Walk(rootRef, k)[n].ref \in R
        /\ \A v : Holds(R, rootRef, k, v) <=>
              /\ v = last.ref.of.data
              /\ \/ LeafMatches(last)
                 \/ last.ref.of.type = "branch" /\ last.path = <<>> /\ v # EmptyBytes
    BY <1>1, <1>3, LookupHolds DEF ReadState
  <2>2. GetNode(rootRef, k) =
          IF last.path = <<>> \/ LeafMatches(last) THEN last.ref.of ELSE KeyError
    BY <2>1 DEF GetNode, ReadState
  <2>3. last.ref.of # KeyError
    BY <2>1, NodesAreNoErrors DEF ReadState, Closed, NoNode
  <2>4. CASE map[k] # EmptyBytes
    <3>1. PICK v : Holds(R, rootRef, k, v)
      BY <1>1, <2>4
    <3>2. v = map[k] /\ v = last.ref.of.data
      BY <1>1, <2>1, <3>1
    <3>3. LeafMatches(last) \/ (last.ref.of.type = "branch" /\ last.path = <<>>)
      BY <2>1, <3>1
    <3>4. GetNode(rootRef, k) = last.ref.of /\ last.ref.of.type # "extension"
      BY <2>2, <3>3 DEF LeafMatches
    <3> QED
      BY <2>3, <2>4, <3>2, <3>4 DEF Get
  <2>5. CASE map[k] = EmptyBytes
    <3>1. \A v : ~Holds(R, rootRef, k, v)
      BY <1>1, <2>5
    <3>2. ~LeafMatches(last)
      BY <2>1, <3>1
    <3>3. CASE last.path # <<>>
      BY <2>2, <2>5, <3>2, <3>3 DEF Get
    <3>4. CASE last.path = <<>>
      <4>1. PICK d \in Path : \E v : Holds(R, rootRef, k \o d, v)
        BY <1>1, <1>3, <3>1, <3>4, LookupMisses DEF ReadState
      <4> PICK l : l = k \o d
        OBVIOUS
      <4>2. l \in Path /\ StartsWith(l, k)
        BY <1>1, ConcatPath, PrefixAndRest
      <4>3. l \in Keys
        BY <4>1, <4>2 DEF ReadState, KeysOnly
      <4> QED
        BY <1>1, <2>5, <4>1, <4>2, <4>3
    <3> QED
      BY <3>3, <3>4
  <2> QED
    BY <2>4, <2>5
<1> QED
  BY <1>2, <1>3 DEF ReadState

\* get returns the value of every key the trie holds and misses every other,
\* except a prefix of present keys, when every node is hashed.
THEOREM GetsAreExact ==
  ASSUME NothingInPlace
  PROVE  Spec => []GetIsExact
<1>1. ReadInv => GetIsExact
  <2> SUFFICES ASSUME ReadInv, NEW map \in {Contents(rootRef)}, NEW k \in Keys
               PROVE  IF map[k] # EmptyBytes THEN Get(k) = map[k]
                      ELSE \/ \E l \in Keys : map[l] # EmptyBytes /\ StartsWith(l, k)
                           \/ Get(k) = KeyError
    BY DEF GetIsExact
  <2> QED
    BY ReadStates, GetExact
<1> QED
  BY <1>1, ReadInvariance, PTL

-----------------------------------------------------------------------------
(* Sets of paths and values *)

Entries == [digits : Path, value : Values]

\* The paths of D with the digits q before them.
Under(q, D) == {[digits |-> q \o e.digits, value |-> e.value] : e \in D}

\* Two paths that have no digit in common.
Apart(a, b) == a # b /\ (a # <<>> /\ b # <<>> => a[1] # b[1])

\* The paths of D have no prefix in common, whichever one looks at.
Branching(D) == D # {} /\ \A d \in D : \E e \in D : Apart(d.digits, e.digits)

LEMMA EntryForm ==
  ASSUME NEW e \in Entries
  PROVE  e.digits \in Path /\ e.value \in Values /\ e = [digits |-> e.digits, value |-> e.value]
BY DEF Entries

LEMMA CommonPrefix ==
  ASSUME NEW q \in Path, NEW a \in Path, NEW b \in Path
  PROVE  /\ CommonLen(q \o a, q \o b) \in Nat
         /\ Len(q) <= CommonLen(q \o a, q \o b)
         /\ Apart(a, b) => CommonLen(q \o a, q \o b) = Len(q)
<1> PICK x, y, c, n : x = q \o a /\ y = q \o b /\ c = CommonLen(x, y) /\ n = Len(q)
  OBVIOUS
<1>1. /\ x \in Path /\ y \in Path /\ Len(x) = n + Len(a) /\ Len(y) = n + Len(b)
      /\ n \in Nat /\ Len(a) \in Nat /\ Len(b) \in Nat
  BY ConcatPath, PathLength
<1>2. /\ \A i \in 1..n : x[i] = q[i] /\ y[i] = q[i]
      /\ \A i \in 1..Len(a) : x[n + i] = a[i]
      /\ \A i \in 1..Len(b) : y[n + i] = b[i]
  <2>1. \A s, t \in Path : /\ \A i \in 1..Len(s) : (s \o t)[i] = s[i]
                           /\ \A i \in 1..Len(t) : (s \o t)[Len(s) + i] = t[i]
    <3> SUFFICES ASSUME NEW s \in Path, NEW t \in Path
                 PROVE  /\ \A i \in 1..Len(s) : (s \o t)[i] = s[i]
                        /\ \A i \in 1..Len(t) : (s \o t)[Len(s) + i] = t[i]
      OBVIOUS
    <3>1. /\ \A i \in 1..(Len(s) + Len(t)) : (s \o t)[i] = IF i <= Len(s) THEN s[i] ELSE t[i - Len(s)]
          /\ Len(s) \in Nat /\ Len(t) \in Nat
      <4>1. Len(s \o t) = Len(s) + Len(t)
        BY ConcatPath
      <4> QED
        BY <4>1, ConcatProperties, PathLength DEF Path
    <3>2. \A i \in 1..Len(t) : /\ Len(s) + i \in 1..(Len(s) + Len(t)) /\ ~(Len(s) + i <= Len(s))
                               /\ (Len(s) + i) - Len(s) = i
      BY <3>1
    <3>3. \A i \in 1..Len(s) : i \in 1..(Len(s) + Len(t)) /\ i <= Len(s)
      BY <3>1
    <3> QED
      BY <3>1, <3>2, <3>3
  <2> QED
    BY <2>1
<1>3. /\ c \in 0..Len(x) /\ c <= Len(y) /\ \A i \in 1..c : x[i] = y[i]
      /\ c < Len(x) /\ c < Len(y) => x[c + 1] # y[c + 1]
  BY <1>1, CommonLenIsMaximal
<1>4. c \in Nat /\ n <= c
  <2>1. c \in Nat /\ Len(x) \in Nat /\ Len(y) \in Nat
    BY <1>1, <1>3
  <2> SUFFICES ASSUME c < n PROVE FALSE
    BY <1>1, <2>1
  <2>2. c + 1 \in 1..n /\ c < Len(x) /\ c < Len(y)
    BY <1>1, <2>1
  <2> QED
    BY <1>2, <1>3, <2>2
<1>5. ASSUME Apart(a, b) PROVE c = n
  <2> SUFFICES ASSUME n < c PROVE FALSE
    BY <1>1, <1>4
  <2>1. Len(a) # 0 /\ Len(b) # 0 /\ n + 1 \in 1..c /\ 1 \in 1..Len(a) /\ 1 \in 1..Len(b)
    <3>1. Len(x) \in Nat /\ Len(y) \in Nat /\ c <= Len(x) /\ c <= Len(y)
      BY <1>1, <1>3
    <3> QED
      BY <1>1, <1>4, <3>1
  <2>2. x[n + 1] = a[1] /\ y[n + 1] = b[1] /\ x[n + 1] = y[n + 1]
    BY <1>2, <1>3, <2>1
  <2>3. a # <<>> /\ b # <<>>
    BY <2>1, PathLength
  <2> QED
    BY <1>5, <2>2, <2>3 DEF Apart
<1> QED
  BY <1>4, <1>5

LEMMA ConcatPrefix ==
  ASSUME NEW q \in Path, NEW d \in Path
  PROVE  SubSeq(q \o d, 1, Len(q)) = q
<1>1. Len(q) \in Nat /\ (q = <<>> <=> Len(q) = 0)
  BY PathLength
<1>2. CASE Len(q) = 0
  <2>1. SubSeq(q \o d, 1, 0) = <<>>
    BY SubSeqEmpty
  <2> QED
    BY <1>1, <1>2, <2>1
<1>3. CASE Len(q) # 0
  <2>1. 1 \in 1..Len(q) /\ Len(q) \in 1..Len(q)
    BY <1>1, <1>3
  <2>2. SubSeq(q \o d, 1, Len(q)) = SubSeq(q, 1, Len(q))
    BY <2>1, SubSeqOfConcat1 DEF Path
  <2> QED
    BY <2>2, SubSeqFull DEF Path
<1> QED
  BY <1>2, <1>3

LEMMA PrefixUndone ==
  ASSUME NEW q \in Path, NEW d \in Path
  PROVE  q \o d \in Path /\ Consume(q \o d, Len(q)) = d
<1> PICK k : k = q \o d
  OBVIOUS
<1>1. k \in Path
  BY ConcatPath
<1>2. \A x \in Path : q \o x = k <=> StartsWith(k, q) /\ x = Consume(k, Len(q))
  BY <1>1, PrefixAndRest
<1> QED
  BY <1>1, <1>2

\* The shared prefix of paths that branch after it, and what is left of them.
LEMMA SharedIs ==
  ASSUME NEW q \in Path, NEW D \in SUBSET Entries, Branching(D), NEW T, T = Under(q, D)
  PROVE  T # {Some(T)} /\ Shared(T) = q /\ Past(T, Len(q)) = D
<1>1. \A d \in D : d.digits \in Path /\ q \o d.digits \in Path
  BY EntryForm, ConcatPath
<1>2. PICK d \in D : Some(T) = [digits |-> q \o d.digits, value |-> d.value]
  <2>1. T # {}
    BY DEF Branching, Under
  <2>2. Some(T) \in T
    BY <2>1 DEF Some
  <2> QED
    BY <2>2 DEF Under
<1> PICK p : p = Some(T).digits
  OBVIOUS
<1>3. p = q \o d.digits
  BY <1>2
<1>4. PICK e \in D : Apart(d.digits, e.digits)
  BY DEF Branching
<1>5. T # {Some(T)}
  <2> PICK x : x = [digits |-> q \o e.digits, value |-> e.value]
    OBVIOUS
  <2>1. x \in T /\ x.digits = q \o e.digits
    BY DEF Under
  <2>2. q \o e.digits # q \o d.digits
    <3>1. d.digits = Consume(q \o d.digits, Len(q)) /\ e.digits = Consume(q \o e.digits, Len(q))
      BY <1>1, PrefixUndone
    <3> QED
      BY <1>4, <3>1 DEF Apart
  <2>3. Some(T).digits = q \o d.digits
    BY <1>2
  <2> QED
    BY <2>1, <2>2, <2>3
<1> PICK L : L = {CommonLen(p, x.digits) : x \in T}
  OBVIOUS
<1>6. \A y \in L : y \in Nat /\ Len(q) <= y
  <2> SUFFICES ASSUME NEW x \in T PROVE CommonLen(p, x.digits) \in Nat /\ Len(q) <= CommonLen(p, x.digits)
    OBVIOUS
  <2>1. PICK f \in D : x = [digits |-> q \o f.digits, value |-> f.value]
    BY DEF Under
  <2>2. x.digits = q \o f.digits
    BY <2>1
  <2> QED
    BY <1>1, <1>3, <2>2, CommonPrefix
<1>7. Len(q) \in L
  <2> PICK x : x = [digits |-> q \o e.digits, value |-> e.value]
    OBVIOUS
  <2>1. x \in T /\ x.digits = q \o e.digits
    BY DEF Under
  <2>2. CommonLen(p, x.digits) = Len(q)
    <3> PICK a, b : a = d.digits /\ b = e.digits
      OBVIOUS
    <3>1. a \in Path /\ b \in Path /\ Apart(a, b)
      BY <1>1, <1>4
    <3>2. CommonLen(q \o a, q \o b) = Len(q)
      BY <3>1, CommonPrefix
    <3> QED
      BY <1>3, <2>1, <3>2
  <2> QED
    BY <2>1, <2>2
<1>8. Min(L) = Len(q)
  <2>1. \A x, y \in L : (\A z \in L : x <= z) /\ (\A z \in L : y <= z) => x = y
    <3> SUFFICES ASSUME NEW x \in L, NEW y \in L, \A z \in L : x <= z, \A z \in L : y <= z
                 PROVE  x = y
      OBVIOUS
    <3>1. x \in Nat /\ y \in Nat /\ x <= y /\ y <= x
      BY <1>6
    <3> QED
      BY <3>1
  <2>2. \A y \in L : Len(q) <= y
    BY <1>6
  <2>3. Min(L) = CHOOSE x \in L : \A y \in L : x <= y
    BY DEF Min
  <2>4. Min(L) \in L /\ \A y \in L : Min(L) <= y
    BY <1>7, <2>2, <2>3
  <2> QED
    BY <1>7, <2>1, <2>2, <2>4
<1>9. SubSeq(p, 1, Len(q)) = q
  <2>1. SubSeq(q \o d.digits, 1, Len(q)) = q
    BY <1>1, ConcatPrefix
  <2> QED
    BY <1>3, <2>1
<1>10. Shared(T) = q
  BY <1>8, <1>9 DEF Shared
<1>11. Past(T, Len(q)) = D
  <2>1. ASSUME NEW f \in D
        PROVE  f = [digits |-> Consume(q \o f.digits, Len(q)), value |-> f.value]
    <3>1. f.digits = Consume(q \o f.digits, Len(q))
      BY <1>1, PrefixUndone
    <3>2. f = [digits |-> f.digits, value |-> f.value]
      BY EntryForm
    <3> QED
      BY <3>1, <3>2
  <2>2. ASSUME NEW f \in D PROVE f \in Past(T, Len(q))
    <3> PICK x : x = [digits |-> q \o f.digits, value |-> f.value]
      OBVIOUS
    <3>1. x \in T /\ x.digits = q \o f.digits /\ x.value = f.value
      BY DEF Under
    <3>2. f = [digits |-> Consume(x.digits, Len(q)), value |-> x.value]
      BY <2>1, <3>1
    <3> QED
      BY <3>1, <3>2 DEF Past
  <2>3. ASSUME NEW y \in Past(T, Len(q)) PROVE y \in D
    <3>1. PICK x \in T : y = [digits |-> Consume(x.digits, Len(q)), value |-> x.value]
      BY <2>3 DEF Past
    <3>2. PICK f \in D : x = [digits |-> q \o f.digits, value |-> f.value]
      BY DEF Under
    <3>3. x.digits = q \o f.digits /\ x.value = f.value
      BY <3>2
    <3>4. y = f
      BY <2>1, <3>1, <3>3
    <3> QED
      BY <3>4
  <2> QED
    BY <2>2, <2>3
<1> QED
  BY <1>5, <1>10, <1>11

-----------------------------------------------------------------------------
(* What a node holds, as a set *)

HeldSet(R, r) == {e \in Entries : Holds(R, r, e.digits, e.value)}

\* What is held is a path and a value, in the set.
LEMMA HeldMember ==
  ASSUME NEW R, Closed(R), NEW r \in R \cup NoNode
  PROVE  \A k, v : [digits |-> k, value |-> v] \in HeldSet(R, r) <=> Holds(R, r, k, v)
<1> SUFFICES ASSUME NEW k, NEW v
             PROVE  [digits |-> k, value |-> v] \in HeldSet(R, r) <=> Holds(R, r, k, v)
  OBVIOUS
<1> PICK e : e = [digits |-> k, value |-> v]
  OBVIOUS
<1>1. e.digits = k /\ e.value = v
  OBVIOUS
<1>2. e \in HeldSet(R, r) <=> e \in Entries /\ Holds(R, r, k, v)
  BY <1>1 DEF HeldSet
<1>3. Holds(R, r, k, v) => k \in Path /\ v \in Values
  BY HoldsTyped
<1>4. k \in Path /\ v \in Values => e \in Entries
  BY DEF Entries
<1> QED
  BY <1>2, <1>3, <1>4

LEMMA HeldByLeaf ==
  ASSUME NEW R, Closed(R), NEW r \in R, r.of.type = "leaf"
  PROVE  HeldSet(R, r) = {[digits |-> r.of.path, value |-> r.of.data]}
<1> PICK x : x = [digits |-> r.of.path, value |-> r.of.data]
  OBVIOUS
<1>1. r.of.path \in Path /\ r.of.data \in Values /\ Readable(R, r)
  BY AllReadable, NodeForms DEF Closed
<1>2. \A k \in Path : \A v : Holds(R, r, k, v) <=> k = r.of.path /\ v = r.of.data
  BY <1>1, HoldsLeaf
<1>3. x \in Entries /\ x.digits = r.of.path /\ x.value = r.of.data
  BY <1>1 DEF Entries
<1>4. x \in HeldSet(R, r)
  BY <1>1, <1>2, <1>3 DEF HeldSet
<1>5. ASSUME NEW e \in HeldSet(R, r) PROVE e = x
  <2>1. e \in Entries /\ Holds(R, r, e.digits, e.value)
    BY <1>5 DEF HeldSet
  <2>2. e.digits \in Path /\ e = [digits |-> e.digits, value |-> e.value]
    BY <2>1, EntryForm
  <2>3. e.digits = r.of.path /\ e.value = r.of.data
    BY <1>2, <2>1, <2>2
  <2> QED
    BY <2>2, <2>3
<1> QED
  BY <1>4, <1>5

LEMMA HeldByExtension ==
  ASSUME NEW R, Closed(R), NEW r \in R, r.of.type = "extension"
  PROVE  HeldSet(R, r) = Under(r.of.path, HeldSet(R, r.of.next))
<1> PICK q, next : q = r.of.path /\ next = r.of.next
  OBVIOUS
<1>1. q \in Path /\ next \in R /\ Readable(R, r)
  BY AllReadable, NodeForms DEF Closed
<1>2. \A k \in Path : \A v :
        Holds(R, r, k, v) <=> StartsWith(k, q) /\ Holds(R, next, Consume(k, Len(q)), v)
  BY <1>1, HoldsExtension
<1>3. ASSUME NEW e \in HeldSet(R, r) PROVE e \in Under(q, HeldSet(R, next))
  <2>1. /\ Holds(R, r, e.digits, e.value)
        /\ e.digits \in Path /\ e.value \in Values /\ e = [digits |-> e.digits, value |-> e.value]
    BY <1>3, EntryForm DEF HeldSet
  <2> PICK k, v, d : k = e.digits /\ v = e.value /\ d = Consume(k, Len(q))
    OBVIOUS
  <2>2. k \in Path /\ StartsWith(k, q) /\ Holds(R, next, d, v)
    BY <1>2, <2>1
  <2>3. q \o d = k
    <3>1. /\ \A x \in Path : q \o x = k <=> StartsWith(k, q) /\ x = Consume(k, Len(q))
          /\ StartsWith(k, q) => Consume(k, Len(q)) \in Path
      <4>1. \A k_ \in Path : StartsWith(k_, q) => Consume(k_, Len(q)) \in Path
        BY <1>1, PrefixAndRest
      <4>2. \A k_ \in Path : \A x \in Path : q \o x = k_ <=> StartsWith(k_, q) /\ x = Consume(k_, Len(q))
        BY <1>1, PrefixAndRest
      <4> QED
        BY <2>2, <4>1, <4>2
    <3>2. d \in Path /\ d = Consume(k, Len(q))
      BY <2>2, <3>1
    <3> QED
      BY <2>2, <3>1, <3>2
  <2> PICK f : f = [digits |-> d, value |-> v]
    OBVIOUS
  <2>4. f \in HeldSet(R, next) /\ f.digits = d /\ f.value = v
    BY <1>1, <2>2, HeldMember
  <2>5. e = [digits |-> q \o f.digits, value |-> f.value]
    BY <2>1, <2>3, <2>4
  <2> QED
    BY <2>4, <2>5 DEF Under
<1>4. ASSUME NEW e \in Under(q, HeldSet(R, next)) PROVE e \in HeldSet(R, r)
  <2>1. PICK f \in HeldSet(R, next) : e = [digits |-> q \o f.digits, value |-> f.value]
    BY <1>4 DEF Under
  <2>2. Holds(R, next, f.digits, f.value) /\ f.digits \in Path
    BY <2>1, EntryForm DEF HeldSet
  <2> PICK k : k = q \o f.digits
    OBVIOUS
  <2>3. k \in Path /\ Consume(k, Len(q)) = f.digits
    BY <1>1, <2>2, PrefixUndone
  <2>4. StartsWith(k, q)
    BY <1>1, <2>2, <2>3, PrefixAndRest
  <2>5. Holds(R, r, k, f.value)
    BY <1>2, <2>2, <2>3, <2>4
  <2> QED
    BY <2>1, <2>5, HeldMember
<1> QED
  BY <1>3, <1>4

\* The paths T are those of the children b and of the value data of a branch.
HeldApart(R, b, data, T) ==
  /\ \A i \in Nibbles : Below(T, i) = HeldSet(R, b[i])
  /\ \A e \in T : e.digits = <<>> => e.value = data /\ data # EmptyBytes
  /\ data # EmptyBytes => [digits |-> <<>>, value |-> data] \in T
  /\ \A i \in Nibbles : b[i] = EmptyBytes => HeldSet(R, b[i]) = {}

LEMMA HeldByBranch ==
  ASSUME NEW R, Closed(R), NEW r \in R, r.of.type = "branch"
  PROVE  HeldApart(R, r.of.branches, r.of.data, HeldSet(R, r))
<1> PICK b, data, T : b = r.of.branches /\ data = r.of.data /\ T = HeldSet(R, r)
  OBVIOUS
<1>1. Readable(R, r) /\ \A i \in Nibbles : b[i] \in R \cup NoNode
  BY AllReadable, NodeForms DEF Closed, NoNode
<1>2. \A k \in Path : \A v :
        Holds(R, r, k, v) <=> IF k = <<>> THEN v = data /\ v # EmptyBytes
                              ELSE Holds(R, b[k[1]], Consume(k, 1), v)
  BY <1>1, HoldsBranch
<1>3. <<>> \in Path
  BY EmptySeq DEF Path
<1>4. ASSUME NEW i \in Nibbles PROVE Below(T, i) = HeldSet(R, b[i])
  <2>1. ASSUME NEW f \in Below(T, i) PROVE f \in HeldSet(R, b[i])
    <3>1. PICK e \in T : /\ e.digits # <<>> /\ e.digits[1] = i
                         /\ f = [digits |-> Consume(e.digits, 1), value |-> e.value]
      BY <2>1 DEF Below, Past
    <3>2. Holds(R, r, e.digits, e.value) /\ e.digits \in Path
      BY EntryForm DEF HeldSet
    <3>3. Holds(R, b[i], Consume(e.digits, 1), e.value)
      BY <1>2, <3>1, <3>2
    <3> QED
      BY <1>1, <3>1, <3>3, HeldMember
  <2>2. ASSUME NEW f \in HeldSet(R, b[i]) PROVE f \in Below(T, i)
    <3>1. /\ Holds(R, b[i], f.digits, f.value) /\ f.digits \in Path
          /\ f = [digits |-> f.digits, value |-> f.value]
      BY <2>2, EntryForm DEF HeldSet
    <3> PICK k : k = <<i>> \o f.digits
      OBVIOUS
    <3>2. k \in Path
      BY <3>1, DigitPath, ConcatPath
    <3>3. k # <<>> /\ k[1] = i /\ Consume(k, 1) = f.digits
      <4>1. \A x \in Path : <<i>> \o x = k <=> k # <<>> /\ k[1] = i /\ x = Consume(k, 1)
        BY <3>2, DigitAndRest
      <4> QED
        BY <3>1, <4>1
    <3>4. Holds(R, r, k, f.value)
      BY <1>2, <3>1, <3>2, <3>3
    <3> PICK e : e = [digits |-> k, value |-> f.value]
      OBVIOUS
    <3>5. e \in T /\ e.digits = k /\ e.value = f.value
      BY <3>4, HeldMember
    <3>6. f = [digits |-> Consume(e.digits, 1), value |-> e.value]
      BY <3>1, <3>3, <3>5
    <3> QED
      BY <3>3, <3>5, <3>6 DEF Below, Past
  <2> QED
    BY <2>1, <2>2
<1>5. ASSUME NEW e \in T, e.digits = <<>> PROVE e.value = data /\ data # EmptyBytes
  <2>1. Holds(R, r, e.digits, e.value)
    BY DEF HeldSet
  <2> QED
    BY <1>2, <1>3, <1>5, <2>1
<1>6. data # EmptyBytes => [digits |-> <<>>, value |-> data] \in T
  <2>1. data # EmptyBytes => Holds(R, r, <<>>, data)
    BY <1>2, <1>3
  <2> QED
    BY <2>1, HeldMember
<1>7. ASSUME NEW i \in Nibbles, b[i] = EmptyBytes PROVE HeldSet(R, b[i]) = {}
  <2>1. \A k, v : ~Holds(R, b[i], k, v)
    BY <1>7, HoldsUnreadable DEF Readable, NoNode
  <2> QED
    BY <2>1 DEF HeldSet
<1>8. HeldApart(R, b, data, T)
  BY <1>4, <1>5, <1>6, <1>7 DEF HeldApart
<1> QED
  BY <1>8

\* A branch parts the paths it holds.
LEMMA HeldFilled ==
  ASSUME NEW R, Closed(R), Filled(R), NEW r \in R
  PROVE  HeldSet(R, r) # {}
<1>1. PICK k \in Path : \E v : Holds(R, r, k, v)
  BY DEF Filled
<1>2. PICK v : Holds(R, r, k, v)
  BY <1>1
<1> QED
  BY <1>2, HeldMember

LEMMA BranchParts ==
  ASSUME NEW R, Closed(R), Filled(R), NEW r \in R, r.of.type = "branch"
  PROVE  Branching(HeldSet(R, r))
<1> PICK b, data, T : b = r.of.branches /\ data = r.of.data /\ T = HeldSet(R, r)
  OBVIOUS
<1>1. /\ \A i \in Nibbles : Below(T, i) = HeldSet(R, b[i])
      /\ data # EmptyBytes => [digits |-> <<>>, value |-> data] \in T
  <2>1. HeldApart(R, b, data, T)
    BY HeldByBranch
  <2> QED
    BY <2>1 DEF HeldApart
<1>2. \A i \in Nibbles : b[i] # EmptyBytes => b[i] \in R
  BY AllReadable, NodeForms DEF Closed
<1>3. ASSUME NEW i \in Nibbles, b[i] # EmptyBytes
      PROVE  \E e \in T : e.digits # <<>> /\ e.digits[1] = i
  <2>1. Below(T, i) # {}
    BY <1>1, <1>2, <1>3, HeldFilled
  <2> QED
    BY <2>1 DEF Below, Past
<1>4. data # EmptyBytes => \E e \in T : e.digits = <<>>
  BY <1>1
<1>5. \/ \E i, j \in Nibbles : i # j /\ b[i] # EmptyBytes /\ b[j] # EmptyBytes
      \/ data # EmptyBytes /\ \E i \in Nibbles : b[i] # EmptyBytes
  BY DEF Closed, Compressed
<1>6. T # {}
  BY HeldFilled
<1>7. ASSUME NEW d \in T PROVE \E e \in T : Apart(d.digits, e.digits)
  <2>1. CASE d.digits = <<>>
    <3>1. PICK i \in Nibbles : b[i] # EmptyBytes
      BY <1>5
    <3>2. PICK e \in T : e.digits # <<>> /\ e.digits[1] = i
      BY <1>3, <3>1
    <3> QED
      BY <2>1, <3>2 DEF Apart
  <2>2. CASE d.digits # <<>>
    <3> SUFFICES \E e \in T : e.digits = <<>> \/ (e.digits # <<>> /\ e.digits[1] # d.digits[1])
      BY <2>2 DEF Apart
    <3>1. CASE data # EmptyBytes
      BY <1>4, <3>1
    <3>2. CASE data = EmptyBytes
      <4>1. PICK i \in Nibbles : b[i] # EmptyBytes /\ i # d.digits[1]
        BY <1>5, <3>2
      <4> QED
        BY <1>3, <4>1
    <3> QED
      BY <3>1, <3>2
  <2> QED
    BY <2>1, <2>2
<1> QED
  BY <1>6, <1>7 DEF Branching

-----------------------------------------------------------------------------
(* The canonical trie *)

\* The node for the paths T, when prev gives the nodes for shorter paths.
TrieOf(n, T, prev) ==
  IF n = 0 \/ T = {Some(T)} THEN Leaf(Some(T).digits, Some(T).value)
  ELSE IF Shared(T) # <<>>
  THEN Extension(Shared(T), IntoReference(prev[Past(T, Len(Shared(T)))]))
  ELSE Branch([i \in Nibbles |-> IF Below(T, i) = {} THEN EmptyBytes
                                 ELSE IntoReference(prev[Below(T, i)])],
              IF \E e \in T : e.digits = <<>>
              THEN (CHOOSE e \in T : e.digits = <<>>).value ELSE EmptyBytes)

Shortest == [T \in SUBSET Entries |-> Leaf(Some(T).digits, Some(T).value)]

Longer(n, prev) == [T \in SUBSET Entries |-> TrieOf(n, T, prev)]

LEMMA CanonicalSteps ==
  \E w : /\ \A T : Canonical(T) = w[MaxDigits][T]
         /\ \A n \in Nat : \A T \in SUBSET Entries : w[n][T] = TrieOf(n, T, w[n - 1])
<1> DEFINE first == Shortest
           Turn(f, n) == IF n = 0 THEN first ELSE Longer(n, f[n - 1])
           Upto(f, n) == f = [m \in 0..n |-> Turn(f, m)]
           S == {n \in Nat : \E f : Upto(f, n)}
           Alike == {n \in Nat : \A f, g, k, l : Upto(f, k) /\ Upto(g, l) /\ n \in 0..k /\ n \in 0..l
                                                       /\ k \in Nat /\ l \in Nat => f[n] = g[n]}
<1>1. Nat \subseteq S
  <2>1. 0 \in S
    <3>1. Upto([m \in 0..0 |-> first], 0)
      OBVIOUS
    <3> QED
      BY <3>1
  <2>2. ASSUME NEW n \in Nat, n \in S PROVE n + 1 \in S
    <3>1. PICK f : Upto(f, n)
      BY <2>2
    <3> DEFINE g == [m \in 0..(n+1) |-> IF m = n + 1 THEN Longer(n + 1, f[n]) ELSE f[m]]
    <3>2. \A m \in 0..(n+1) : g[m] = Turn(g, m)
      <4> TAKE m \in 0..(n+1)
      <4> HIDE DEF first
      <4>1. CASE m = n + 1
        BY <4>1
      <4>2. CASE m # n + 1
        <5>1. m \in 0..n /\ (m # 0 => m - 1 \in 0..n /\ m - 1 # n + 1 /\ m - 1 \in 0..(n+1))
          BY <4>2
        <5>2. g[m] = f[m] /\ (m # 0 => g[m-1] = f[m-1])
          BY <5>1, <4>2
        <5>3. f[m] = Turn(f, m)
          BY <3>1, <5>1
        <5> QED
          BY <5>2, <5>3
      <4> QED
        BY <4>1, <4>2
    <3>3. Upto(g, n + 1)
      BY <3>2
    <3> HIDE DEF Upto, g
    <3> QED
      BY <3>3
  <2> HIDE DEF S
  <2> QED
    BY <2>1, <2>2, SetInduction
<1>2. Nat \subseteq Alike
  <2>1. 0 \in Alike
    OBVIOUS
  <2>2. ASSUME NEW n \in Nat, n \in Alike PROVE n + 1 \in Alike
    <3> SUFFICES ASSUME NEW f, NEW g, NEW k \in Nat, NEW l \in Nat, Upto(f, k), Upto(g, l),
                        n + 1 \in 0..k, n + 1 \in 0..l
                 PROVE  f[n + 1] = g[n + 1]
      <4> HIDE DEF Upto
      <4> QED
        OBVIOUS
    <3>1. f[n] = g[n]
      <4>1. n \in 0..k /\ n \in 0..l
        OBVIOUS
      <4> HIDE DEF Upto
      <4> QED
        BY <2>2, <4>1
    <3> HIDE DEF first
    <3>2. f[n+1] = Turn(f, n + 1) /\ g[n+1] = Turn(g, n + 1)
      OBVIOUS
    <3> QED
      BY <3>1, <3>2
  <2> HIDE DEF Alike
  <2> QED
    BY <2>1, <2>2, SetInduction
<1> DEFINE Some_(n) == CHOOSE f : Upto(f, n)
           h == [n \in Nat |-> Some_(n)[n]]
<1>3. ASSUME NEW n \in Nat PROVE Upto(Some_(n), n)
  <2>1. \E f : Upto(f, n)
    BY <1>1
  <2> HIDE DEF Upto
  <2> QED
    BY <2>1
<1>4. \A n \in Nat : h[n] = Turn(h, n)
  <2> TAKE n \in Nat
  <2>1. Some_(n)[n] = Turn(Some_(n), n)
    <3>1. Upto(Some_(n), n)
      BY <1>3
    <3> HIDE DEF Some_, first
    <3> QED
      BY <3>1
  <2>2. CASE n = 0
    BY <2>1, <2>2
  <2>3. CASE n # 0
    <3>1. n - 1 \in Nat /\ n - 1 \in 0..n /\ n - 1 \in 0..(n-1)
      BY <2>3
    <3>2. Upto(Some_(n), n) /\ Upto(Some_(n - 1), n - 1)
      BY <3>1, <1>3
    <3> HIDE DEF Some_
    <3>3. Some_(n)[n-1] = Some_(n-1)[n-1]
      <4>1. n - 1 \in Alike
        BY <3>1, <1>2
      <4> HIDE DEF Upto
      <4> QED
        BY <4>1, <3>1, <3>2
    <3>4. h[n-1] = Some_(n-1)[n-1] /\ h[n] = Some_(n)[n]
      BY <3>1
    <3> QED
      BY <2>1, <2>3, <3>3, <3>4
  <2> QED
    BY <2>2, <2>3
<1>5. h = [n \in Nat |-> Turn(h, n)]
  <2>1. h = [n \in Nat |-> h[n]]
    OBVIOUS
  <2> HIDE DEF h, first
  <2> QED
    BY <1>4, <2>1
<1> HIDE DEF h, first
<1>6. \A n \in Nat : h[n] = [T \in SUBSET Entries |-> TrieOf(n, T, h[n - 1])]
  <2>1. ASSUME NEW x PROVE Shortest = [T \in SUBSET Entries |-> TrieOf(0, T, x)]
    BY DEF Shortest, TrieOf
  <2>2. h[0] = [T \in SUBSET Entries |-> TrieOf(0, T, h[0 - 1])]
    BY <1>4, <2>1 DEF first
  <2>3. \A n \in Nat : n # 0 => h[n] = [T \in SUBSET Entries |-> TrieOf(n, T, h[n - 1])]
    BY <1>4 DEF Longer
  <2> QED
    BY <2>2, <2>3
<1> DEFINE Node(f) == f = [n \in Nat |-> [T \in SUBSET Entries |-> TrieOf(n, T, f[n - 1])]]
           w == CHOOSE f : Node(f)
<1>7. Node(h)
  <2>1. h = [n \in Nat |-> h[n]]
    BY <1>5
  <2> QED
    BY <1>6, <2>1
<1>8. Node(w)
  <2> HIDE DEF Node
  <2> QED
    BY <1>7
<1>9. \A T : Canonical(T) = w[MaxDigits][T]
  BY DEF Canonical, TrieOf, Entries
<1> HIDE DEF w
<1>10. \A n \in Nat : \A T \in SUBSET Entries : w[n][T] = TrieOf(n, T, w[n - 1])
  BY <1>8
<1> QED
  BY <1>9, <1>10

\* Every reference is the one its node is given.
Named(R) == \A r \in R : IntoReference(r.of) = r

\* A trie is the canonical trie of what it holds, as soon as enough digits are
\* counted.
LEMMA TrieIsCanonical ==
  ASSUME NEW R, Closed(R), Filled(R), Named(R),
         NEW w, \A n \in Nat : \A T \in SUBSET Entries : w[n][T] = TrieOf(n, T, w[n - 1])
  PROVE  \A n \in Nat : \A r \in R :
           (\A e \in HeldSet(R, r) : Len(e.digits) <= n) => r.of = w[n][HeldSet(R, r)]
<1> DEFINE Short(r, n) == \A e \in HeldSet(R, r) : Len(e.digits) <= n
           S == {n \in Nat : \A r \in R : Short(r, n) => r.of = w[n][HeldSet(R, r)]}
<1>0. \A r : HeldSet(R, r) \in SUBSET Entries
  BY DEF HeldSet
<1>1. ASSUME NEW n \in Nat, NEW r \in R, Short(r, n), n = 0 \/ n - 1 \in S
      PROVE  r.of = TrieOf(n, HeldSet(R, r), w[n - 1])
  <2> PICK T, node, prev : T = HeldSet(R, r) /\ node = r.of /\ prev = w[n - 1]
    OBVIOUS
  <2>1. /\ node.type \in {"leaf", "extension", "branch"}
        /\ node.type = "leaf" => node = Leaf(node.path, node.data) /\ node.path \in Path
        /\ node.type = "extension" =>
             /\ node = Extension(node.path, node.next) /\ node.path \in Path /\ node.next \in R
             /\ node.path # <<>> /\ node.next.of.type = "branch"
        /\ node.type = "branch" =>
             /\ node = Branch(node.branches, node.data) /\ node.branches \in Branches(R)
             /\ \A i \in Nibbles : node.branches[i] \in R \cup {EmptyBytes}
    BY AllReadable, NodeForms DEF Closed, Compressed
  <2>2. \A x \in R : Short(x, n - 1) /\ n # 0 => IntoReference(prev[HeldSet(R, x)]) = x
    BY <1>1 DEF Named
  <2>3. \A e \in T : e.digits \in Path /\ Len(e.digits) <= n /\ Len(e.digits) \in Nat
    BY <1>0, <1>1, EntryForm, PathLength
  <2> HIDE DEF S
  <2>4. CASE node.type = "leaf"
    <3> PICK x : x = [digits |-> node.path, value |-> node.data]
      OBVIOUS
    <3>1. T = {x} /\ x.digits = node.path /\ x.value = node.data
      BY <2>4, HeldByLeaf
    <3>2. Some(T) = x
      BY <3>1 DEF Some
    <3>3. TrieOf(n, T, prev) = Leaf(x.digits, x.value)
      BY <3>1, <3>2 DEF TrieOf
    <3> QED
      BY <2>1, <2>4, <3>1, <3>3
  <2>5. CASE node.type = "extension"
    <3> PICK q, next, D : q = node.path /\ next = node.next /\ D = HeldSet(R, next)
      OBVIOUS
    <3>1. q \in Path /\ q # <<>> /\ next \in R /\ T = Under(q, D) /\ Branching(D) /\ D \in SUBSET Entries
      BY <1>0, <2>1, <2>5, HeldByExtension, BranchParts
    <3>2. T # {Some(T)} /\ Shared(T) = q /\ Past(T, Len(q)) = D
      BY <3>1, SharedIs
    <3>3. ASSUME NEW d \in D PROVE Len(d.digits) <= n - 1 /\ n # 0
      <4> PICK e : e = [digits |-> q \o d.digits, value |-> d.value]
        OBVIOUS
      <4>1. e \in T /\ e.digits = q \o d.digits
        BY <3>1 DEF Under
      <4>2. d.digits \in Path /\ Len(e.digits) = Len(q) + Len(d.digits)
        BY <3>1, <4>1, EntryForm, ConcatPath
      <4>3. Len(q) \in Nat /\ Len(q) # 0 /\ Len(d.digits) \in Nat /\ Len(e.digits) <= n
        BY <2>3, <3>1, <4>1, <4>2, PathLength
      <4>4. \A a, b, m \in Nat : a # 0 /\ a + b <= m => b <= m - 1 /\ m # 0
        OBVIOUS
      <4>5. Len(q) + Len(d.digits) <= n
        BY <4>2, <4>3
      <4> PICK a \in Nat, b \in Nat : a = Len(q) /\ b = Len(d.digits)
        BY <4>3
      <4>6. a # 0 /\ a + b <= n
        BY <4>3, <4>5
      <4>7. b <= n - 1 /\ n # 0
        BY <4>4, <4>6
      <4> QED
        BY <4>7
    <3>4. n # 0 /\ Short(next, n - 1)
      BY <3>1, <3>3 DEF Branching
    <3>5. IntoReference(prev[D]) = next
      BY <2>2, <3>1, <3>4
    <3>6. TrieOf(n, T, prev) = Extension(q, next)
      BY <3>1, <3>2, <3>4, <3>5 DEF TrieOf
    <3> QED
      BY <2>1, <2>5, <3>6
  <2>6. CASE node.type = "branch"
    <3> PICK b, data : b = node.branches /\ data = node.data
      OBVIOUS
    <3>1. /\ \A i \in Nibbles : Below(T, i) = HeldSet(R, b[i])
          /\ \A e \in T : e.digits = <<>> => e.value = data /\ data # EmptyBytes
          /\ data # EmptyBytes => [digits |-> <<>>, value |-> data] \in T
          /\ \A i \in Nibbles : b[i] = EmptyBytes => HeldSet(R, b[i]) = {}
      <4>1. HeldApart(R, b, data, T)
        BY <2>6, HeldByBranch
      <4> QED
        BY <4>1 DEF HeldApart
    <3>2. Branching(T) /\ T \in SUBSET Entries
      BY <1>0, <2>6, BranchParts
    <3>3. T = Under(<<>>, T) /\ <<>> \in Path
      <4>1. \A e \in T : e = [digits |-> <<>> \o e.digits, value |-> e.value]
        BY <3>2, EntryForm, EmptyPath
      <4>2. T = Under(<<>>, T)
        BY <4>1 DEF Under
      <4> QED
        BY <4>2, EmptySeq DEF Path
    <3>4. T # {Some(T)} /\ Shared(T) = <<>>
      BY <3>2, <3>3, SharedIs
    <3>5. n # 0
      <4>1. PICK d \in T, e \in T : Apart(d.digits, e.digits)
        BY <3>2 DEF Branching
      <4>2. Len(d.digits) # 0 \/ Len(e.digits) # 0
        BY <2>3, <4>1, PathLength DEF Apart
      <4> QED
        BY <2>3, <4>2
    <3>6. ASSUME NEW i \in Nibbles
          PROVE  b[i] = IF Below(T, i) = {} THEN EmptyBytes ELSE IntoReference(prev[Below(T, i)])
      <4>1. CASE b[i] = EmptyBytes
        BY <3>1, <4>1
      <4>2. CASE b[i] # EmptyBytes
        <5>1. b[i] \in R /\ Below(T, i) = HeldSet(R, b[i]) /\ Below(T, i) # {}
          BY <2>1, <2>6, <3>1, <4>2, HeldFilled
        <5>2. Short(b[i], n - 1)
          <6> SUFFICES ASSUME NEW f \in Below(T, i) PROVE Len(f.digits) <= n - 1
            BY <5>1
          <6>1. PICK e \in T : /\ e.digits # <<>> /\ e.digits[1] = i
                               /\ f = [digits |-> Consume(e.digits, 1), value |-> e.value]
            BY DEF Below, Past
          <6>2. f.digits = Consume(e.digits, 1)
            BY <6>1
          <6>3. Len(Consume(e.digits, 1)) = Len(e.digits) - 1
            BY <2>3, <6>1, DigitAndRest
          <6> QED
            BY <2>3, <6>2, <6>3
        <5> QED
          BY <2>2, <3>5, <5>1, <5>2
      <4> QED
        BY <4>1, <4>2
    <3>7. data = IF \E e \in T : e.digits = <<>>
                 THEN (CHOOSE e \in T : e.digits = <<>>).value ELSE EmptyBytes
      <4>1. CASE \E e \in T : e.digits = <<>>
        <5> PICK e : e = CHOOSE x \in T : x.digits = <<>>
          OBVIOUS
        <5>1. e \in T /\ e.digits = <<>>
          BY <4>1
        <5> QED
          BY <3>1, <4>1, <5>1
      <4>2. CASE ~ \E e \in T : e.digits = <<>>
        <5>1. data = EmptyBytes
          <6> PICK e : e = [digits |-> <<>>, value |-> data]
            OBVIOUS
          <6>1. e.digits = <<>>
            OBVIOUS
          <6> QED
            BY <3>1, <4>2, <6>1
        <5> QED
          BY <4>2, <5>1
      <4> QED
        BY <4>1, <4>2
    <3> PICK g : g = [i \in Nibbles |-> IF Below(T, i) = {} THEN EmptyBytes
                                        ELSE IntoReference(prev[Below(T, i)])]
      OBVIOUS
    <3>8. b = g
      <4>1. b = [i \in Nibbles |-> b[i]]
        BY <2>1, <2>6 DEF Branches
      <4>2. \A i \in Nibbles : b[i] = g[i]
        BY <3>6
      <4> QED
        BY <4>1, <4>2
    <3>9. TrieOf(n, T, prev) = Branch(g, data)
      BY <3>4, <3>5, <3>7 DEF TrieOf
    <3> QED
      BY <2>1, <2>6, <3>8, <3>9
  <2> QED
    BY <2>1, <2>4, <2>5, <2>6
<1>2. 0 \in S
  BY <1>0, <1>1
<1>3. ASSUME NEW n \in Nat, n \in S PROVE n + 1 \in S
  <2>1. (n + 1) - 1 = n /\ n + 1 \in Nat
    OBVIOUS
  <2>2. (n + 1) - 1 \in S
    BY <1>3, <2>1
  <2> SUFFICES ASSUME NEW r \in R, Short(r, n + 1) PROVE r.of = w[n + 1][HeldSet(R, r)]
    BY <2>1
  <2> HIDE DEF S
  <2>3. r.of = TrieOf(n + 1, HeldSet(R, r), w[(n + 1) - 1])
    BY <1>1, <2>1, <2>2
  <2> QED
    BY <1>0, <2>1, <2>3
<1> HIDE DEF S
<1>4. Nat \subseteq S
  BY <1>2, <1>3, SetInduction
<1> QED
  BY <1>4 DEF S

LEMMA RootCanonical ==
  ASSUME NEW R, Closed(R), Filled(R), Named(R), \A r \in R : Readable(db, r),
         NEW ref \in R, \A k \in Path : \A v : Holds(R, ref, k, v) => k \in Keys
  PROVE  ref = IntoReference(Canonical(Pairs(db, ref, MaxDigits)))
<1> PICK P, T : P = Pairs(db, ref, MaxDigits) /\ T = HeldSet(R, ref)
  OBVIOUS
<1>1. \A k \in Path : \A v : Holds(db, ref, k, v) <=> Holds(R, ref, k, v)
  <2>1. \A r \in R : Readable(db, r) /\ Readable(R, r)
    BY AllReadable
  <2> QED
    BY <2>1, HoldsSame
<1>2. \A e \in T : e.digits \in Path /\ Len(e.digits) <= MaxDigits /\ Holds(R, ref, e.digits, e.value)
                   /\ e = [digits |-> e.digits, value |-> e.value]
  BY EntryForm, ReadAssumption DEF HeldSet
<1>3. P = T
  <2>1. /\ \A e \in P : e = [digits |-> e.digits, value |-> e.value] /\ Holds(db, ref, e.digits, e.value)
        /\ \A k \in Path : \A v : Len(k) <= MaxDigits /\ Holds(db, ref, k, v)
                                    => [digits |-> k, value |-> v] \in P
    BY PairsHold, ReadAssumption
  <2>2. ASSUME NEW e \in P PROVE e \in T
    <3>1. e.digits \in Path
      BY <2>1, HoldsTyped
    <3>2. [digits |-> e.digits, value |-> e.value] \in T
      BY <1>1, <2>1, <3>1, HeldMember
    <3> QED
      BY <2>1, <3>2
  <2>3. ASSUME NEW e \in T PROVE e \in P
    <3>1. [digits |-> e.digits, value |-> e.value] \in P
      BY <1>1, <1>2, <2>1
    <3> QED
      BY <1>2, <3>1
  <2> QED
    BY <2>2, <2>3
<1>4. PICK w : /\ \A U : Canonical(U) = w[MaxDigits][U]
               /\ \A n \in Nat : \A U \in SUBSET Entries : w[n][U] = TrieOf(n, U, w[n - 1])
  BY CanonicalSteps
<1>5. ref.of = w[MaxDigits][T]
  BY <1>2, <1>4, ReadAssumption, TrieIsCanonical
<1>6. Canonical(P) = ref.of
  BY <1>3, <1>4, <1>5
<1> QED
  BY <1>6 DEF Named

\* Whatever the history of inserts and crashes, the trie under either root is
\* the one trie for its paths and values.
THEOREM RootsAreCanonical == Spec => []RootIsCanonical
<1>1. ReadInv => RootIsCanonical
  <2> SUFFICES ASSUME ReadInv, NEW ref \in {rootRef, rootFile} \ NoNode
               PROVE  ref = IntoReference(Canonical(Pairs(db, ref, MaxDigits)))
    BY DEF RootIsCanonical
  <2> PICK R, P : Inv(R) /\ ChainInv(R, P) /\ Filled(R) /\ KeysOnly(R)
    BY DEF ReadInv
  <2>1. Closed(R) /\ \A r \in R : Readable(db, r)
    BY InvClosed DEF Inv
  <2>2. Named(R)
    BY DEF Named, Inv, StoreInv
  <2>3. ref \in R
    BY DEF Inv, RootInv
  <2>4. \A k \in Path : \A v : Holds(R, ref, k, v) => k \in Keys
    BY DEF KeysOnly
  <2> QED
    BY <2>1, <2>2, <2>3, <2>4, RootCanonical
<1> QED
  BY <1>1, ReadInvariance, PTL


-----------------------------------------------------------------------------
(* The loop of the verifier *)

\* The digits left after one node more.
Left(node, q) == IF node.type = "extension" THEN Consume(q, Len(node.path)) ELSE Consume(q, 1)

LEMMA RestSteps ==
  ASSUME NEW nodes, NEW p
  PROVE  /\ Rest(nodes, p)[0] = p
         /\ \A n \in Nat : Rest(nodes, p)[n + 1] = Left(nodes[n + 1], Rest(nodes, p)[n])
<1> DEFINE first == p
           Turn(f, n) == IF n = 0 THEN first ELSE Left(nodes[n], f[n - 1])
           Upto(f, n) == f = [m \in 0..n |-> Turn(f, m)]
           S == {n \in Nat : \E f : Upto(f, n)}
           T == {n \in Nat : \A f, g, k, l : Upto(f, k) /\ Upto(g, l) /\ n \in 0..k /\ n \in 0..l
                                               /\ k \in Nat /\ l \in Nat => f[n] = g[n]}
<1>1. Nat \subseteq S
  <2>1. 0 \in S
    <3>1. Upto([m \in 0..0 |-> first], 0)
      OBVIOUS
    <3> QED
      BY <3>1
  <2>2. ASSUME NEW n \in Nat, n \in S PROVE n + 1 \in S
    <3>1. PICK f : Upto(f, n)
      BY <2>2
    <3> DEFINE g == [m \in 0..(n+1) |-> IF m = n + 1 THEN Left(nodes[n + 1], f[n]) ELSE f[m]]
    <3>2. \A m \in 0..(n+1) : g[m] = Turn(g, m)
      <4> TAKE m \in 0..(n+1)
      <4> HIDE DEF first
      <4>1. CASE m = n + 1
        BY <4>1
      <4>2. CASE m # n + 1
        <5>1. m \in 0..n /\ (m # 0 => m - 1 \in 0..n /\ m - 1 # n + 1 /\ m - 1 \in 0..(n+1))
          BY <4>2
        <5>2. g[m] = f[m] /\ (m # 0 => g[m-1] = f[m-1])
          BY <5>1, <4>2
        <5>3. f[m] = Turn(f, m)
          BY <3>1, <5>1
        <5> QED
          BY <5>2, <5>3
      <4> QED
        BY <4>1, <4>2
    <3>3. Upto(g, n + 1)
      BY <3>2
    <3> HIDE DEF Upto, g
    <3> QED
      BY <3>3
  <2> HIDE DEF S
  <2> QED
    BY <2>1, <2>2, SetInduction
<1>2. Nat \subseteq T
  <2>1. 0 \in T
    OBVIOUS
  <2>2. ASSUME NEW n \in Nat, n \in T PROVE n + 1 \in T
    <3> SUFFICES ASSUME NEW f, NEW g, NEW k \in Nat, NEW l \in Nat, Upto(f, k), Upto(g, l),
                        n + 1 \in 0..k, n + 1 \in 0..l
                 PROVE  f[n + 1] = g[n + 1]
      OBVIOUS
    <3>1. f[n] = g[n]
      <4>1. n \in 0..k /\ n \in 0..l
        OBVIOUS
      <4> HIDE DEF Upto
      <4> QED
        BY <2>2, <4>1
    <3> HIDE DEF first
    <3>2. f[n+1] = Turn(f, n + 1) /\ g[n+1] = Turn(g, n + 1)
      OBVIOUS
    <3> QED
      BY <3>1, <3>2
  <2> HIDE DEF T
  <2> QED
    BY <2>1, <2>2, SetInduction
<1> DEFINE Some_(n) == CHOOSE f : Upto(f, n)
           h == [n \in Nat |-> Some_(n)[n]]
<1>3. ASSUME NEW n \in Nat PROVE Upto(Some_(n), n)
  <2>1. \E f : Upto(f, n)
    BY <1>1
  <2> HIDE DEF Upto
  <2> QED
    BY <2>1
<1>4. \A n \in Nat : h[n] = Turn(h, n)
  <2> TAKE n \in Nat
  <2>1. Some_(n)[n] = Turn(Some_(n), n)
    <3>1. Upto(Some_(n), n)
      BY <1>3
    <3> HIDE DEF Some_, first
    <3> QED
      BY <3>1
  <2>2. CASE n = 0
    BY <2>1, <2>2
  <2>3. CASE n # 0
    <3>1. n - 1 \in Nat /\ n - 1 \in 0..n /\ n - 1 \in 0..(n-1)
      BY <2>3
    <3>2. Upto(Some_(n), n) /\ Upto(Some_(n - 1), n - 1)
      BY <3>1, <1>3
    <3> HIDE DEF Some_
    <3>3. Some_(n)[n-1] = Some_(n-1)[n-1]
      <4>1. n - 1 \in T
        BY <3>1, <1>2
      <4> HIDE DEF Upto
      <4> QED
        BY <4>1, <3>1, <3>2
    <3>4. h[n-1] = Some_(n-1)[n-1] /\ h[n] = Some_(n)[n]
      BY <3>1
    <3> QED
      BY <2>1, <2>3, <3>3, <3>4
  <2> QED
    BY <2>2, <2>3
<1>5. h = [n \in Nat |-> Turn(h, n)]
  <2>1. h = [n \in Nat |-> h[n]]
    OBVIOUS
  <2> HIDE DEF h, first
  <2> QED
    BY <1>4, <2>1
<1> HIDE DEF h, first
<1> DEFINE w == CHOOSE f : f = [n \in Nat |-> IF n = 0 THEN first ELSE Left(nodes[n], f[n - 1])]
<1>6. w = [n \in Nat |-> IF n = 0 THEN first ELSE Left(nodes[n], w[n - 1])]
  BY <1>5
<1>7. Rest(nodes, p) = w
  BY DEF Rest, Left, first
<1> HIDE DEF w
<1>8. \A n \in Nat : w[n + 1] = Left(nodes[n + 1], w[n])
  BY <1>6
<1> QED
  BY <1>6, <1>7, <1>8 DEF first

-----------------------------------------------------------------------------
(* What the verifier accepts *)

\* A function on 1..m is a sequence of m elements.
LEMMA FunctionIsSeq ==
  ASSUME NEW X, NEW m \in Nat, NEW f, f = [n \in 1..m |-> f[n]], \A n \in 1..m : f[n] \in X
  PROVE  f \in Seq(X) /\ Len(f) = m /\ DOMAIN f = 1..m
<1>1. f \in [1..m -> X]
  OBVIOUS
<1>2. f \in Seq(X)
  BY <1>1
<1>3. DOMAIN f = 1..Len(f) /\ Len(f) \in Nat /\ DOMAIN f = 1..m
  BY <1>1, <1>2, LenProperties
<1>4. \A a, b \in Nat : 1..a = 1..b => a = b
  <2> SUFFICES ASSUME NEW a \in Nat, NEW b \in Nat, 1..a = 1..b, a < b PROVE FALSE
    OBVIOUS
  <2>1. b \in 1..b /\ b \notin 1..a
    OBVIOUS
  <2> QED
    BY <2>1
<1> QED
  BY <1>2, <1>3, <1>4

\* The reference that stands for a node carries it.
LEMMA NodeOfReference == \A n : IntoReference(n).of = n
BY DEF IntoReference

\* A turn that goes on, and the call of a lookup at the same place.
LEMMA TurnIsCall ==
  ASSUME NEW R, Closed(R), NEW nodes, NEW i \in Nat, i < Len(nodes), NEW q \in Path,
         IntoReference(nodes[i]) \in R, TurnGoesOn(nodes, i, q),
         NEW at, at.ref = IntoReference(nodes[i]), at.path = q
  PROVE  /\ GoesOn(at)
         /\ Forward(at).ref = IntoReference(nodes[i + 1])
         /\ Forward(at).path = Left(nodes[i], q)
<1> PICK node : node = nodes[i]
  OBVIOUS
<1>1. at.ref \notin NoNode /\ at.ref.of = node /\ Compressed(node) /\ node \in Nodes(R) /\ EmptyBytes \notin R
  BY NodeOfReference, AllReadable DEF Closed
<1>2. CASE node.type = "extension"
  <2>1. StartsWith(q, node.path) /\ node.next = IntoReference(nodes[i + 1])
    BY <1>2 DEF TurnGoesOn, NextMatches
  <2>2. q # <<>>
    <3>1. node.path \in Path /\ node.path # <<>>
      BY <1>1, <1>2, NodeForms DEF Compressed
    <3>2. Len(node.path) \in Nat /\ Len(node.path) # 0 /\ Len(node.path) <= Len(q)
      BY <2>1, <3>1, PathLength DEF StartsWith
    <3>3. Len(q) # 0
      BY <3>2
    <3> QED
      BY <3>3, PathLength
  <2> QED
    BY <1>1, <1>2, <2>1, <2>2 DEF GoesOn, Forward, Left
<1>3. CASE node.type # "extension"
  <2>1. /\ node.type = "branch" /\ q # <<>> /\ node.branches[q[1]] # EmptyBytes
        /\ node.branches[q[1]] = IntoReference(nodes[i + 1])
    BY <1>3 DEF TurnGoesOn, NextMatches
  <2> QED
    BY <1>1, <2>1 DEF GoesOn, Forward, Left
<1> QED
  BY <1>2, <1>3

\* Whatever nodes it is given, from a node of the trie on the verifier accepts
\* a value only when the trie holds it.
LEMMA AcceptedIsHeld ==
  ASSUME NEW R, Closed(R), NEW nodes, Len(nodes) \in Nat, DOMAIN nodes = 1..Len(nodes),
         NEW root \in R, IntoReference(nodes[1]) = root,
         NEW l \in Path, NEW v, v # EmptyBytes, LoopAccepts(nodes, l, v)
  PROVE  Holds(R, root, l, v)
<1> DEFINE at(n) == [ref |-> IntoReference(nodes[n + 1]), path |-> Rest(nodes, l)[n]]
<1>1. PICK i \in 1..Len(nodes) :
        /\ TurnAccepts(nodes[i], Rest(nodes, l)[i - 1], v)
        /\ \A j \in 1..(i - 1) : TurnGoesOn(nodes, j, Rest(nodes, l)[j - 1])
  BY DEF LoopAccepts
<1> DEFINE Fits(n) == at(n).ref \in R /\ at(n).path \in Path /\ Reaches(R, root, l, at(n))
           S == {n \in Nat : n < i => Fits(n)}
<1>2. /\ Rest(nodes, l)[0] = l
      /\ \A n \in Nat : Rest(nodes, l)[n + 1] = Left(nodes[n + 1], Rest(nodes, l)[n])
  <2>1. \A p : /\ Rest(nodes, p)[0] = p
               /\ \A n \in Nat : Rest(nodes, p)[n + 1] = Left(nodes[n + 1], Rest(nodes, p)[n])
    BY RestSteps
  <2> QED
    BY <2>1
<1>3. \A n \in Nat : at(n).ref = IntoReference(nodes[n + 1]) /\ at(n).path = Rest(nodes, l)[n]
  OBVIOUS
<1>4. at(0).ref = root /\ at(0).path = l
  BY <1>2, <1>3
<1> HIDE DEF at
<1>5. 0 \in S
  <2>1. <<>> \in Path /\ (\A d \in Path : <<>> \o d = d) /\ l = <<>> \o l
    BY EmptyPath
  <2>2. \A d \in Path : \A w : Holds(R, root, <<>> \o d, w) <=> Holds(R, root, d, w)
    BY <2>1
  <2>3. Reaches(R, root, l, at(0))
    BY <1>4, <2>1, <2>2 DEF Reaches
  <2> QED
    BY <1>4, <2>3
<1>6. ASSUME NEW n \in Nat, n \in S PROVE n + 1 \in S
  <2> SUFFICES ASSUME n + 1 < i PROVE Fits(n + 1)
    <3> HIDE DEF Fits
    <3> QED
      OBVIOUS
  <2>1. Fits(n) /\ n + 1 \in Nat /\ n + 1 < Len(nodes) /\ n + 1 \in 1..(i - 1) /\ (n + 1) - 1 = n
    BY <1>6
  <2>2. TurnGoesOn(nodes, n + 1, at(n).path)
    BY <1>1, <1>3, <2>1
  <2>3. /\ GoesOn(at(n))
        /\ Forward(at(n)).ref = IntoReference(nodes[(n + 1) + 1])
        /\ Forward(at(n)).path = Left(nodes[n + 1], at(n).path)
    <3> PICK i_, q, a : i_ = n + 1 /\ q = at(n).path /\ a = at(n)
      OBVIOUS
    <3>1. /\ i_ \in Nat /\ i_ < Len(nodes) /\ q \in Path /\ TurnGoesOn(nodes, i_, q)
          /\ IntoReference(nodes[i_]) \in R
          /\ a.ref = IntoReference(nodes[i_]) /\ a.path = q
      BY <1>3, <2>1, <2>2
    <3>2. /\ GoesOn(a) /\ Forward(a).ref = IntoReference(nodes[i_ + 1])
          /\ Forward(a).path = Left(nodes[i_], q)
      BY <3>1, TurnIsCall
    <3> QED
      BY <3>2
  <2>4. Onward(R, at(n), Forward(at(n)))
    BY <2>1, <2>3, ForwardHolds
  <2>5. at(n + 1).ref = Forward(at(n)).ref /\ at(n + 1).path = Forward(at(n)).path
    BY <1>2, <1>3, <2>1, <2>3
  <2>6. Onward(R, at(n), at(n + 1))
    BY <2>4, <2>5 DEF Onward
  <2>7. Reaches(R, root, l, at(n + 1))
    BY <2>1, <2>6, ReachesOn
  <2> QED
    BY <2>6, <2>7 DEF Onward
<1> HIDE DEF S
<1>7. Nat \subseteq S
  BY <1>5, <1>6, SetInduction
<1>8. i - 1 \in Nat /\ i - 1 < i /\ (i - 1) + 1 = i
  OBVIOUS
<1>9. Fits(i - 1)
  BY <1>7, <1>8 DEF S
<1> PICK s, q : s = at(i - 1).ref /\ q = at(i - 1).path
  OBVIOUS
<1>10. s \in R /\ q \in Path /\ s.of = nodes[i] /\ Readable(R, s) /\ TurnAccepts(s.of, q, v)
  BY <1>1, <1>3, <1>8, <1>9, NodeOfReference, AllReadable
<1>11. Holds(R, s, q, v)
  <2>1. CASE s.of.type = "leaf"
    <3>1. q = s.of.path /\ v = s.of.data
      BY <1>10, <2>1 DEF TurnAccepts
    <3> QED
      BY <1>10, <2>1, <3>1, HoldsLeaf
  <2>2. CASE s.of.type # "leaf"
    <3>1. s.of.type = "branch" /\ q = <<>> /\ v = s.of.data
      BY <1>10, <2>2 DEF TurnAccepts
    <3>2. \A x \in Path : \A w :
            Holds(R, s, x, w) <=> IF x = <<>> THEN w = s.of.data /\ w # EmptyBytes
                                  ELSE Holds(R, s.of.branches[x[1]], Consume(x, 1), w)
      BY <1>10, <3>1, HoldsBranch
    <3> QED
      BY <1>10, <3>1, <3>2
  <2> QED
    BY <2>1, <2>2
<1>12. Holds(R, root, l, v) <=> Holds(R, s, q, v)
  BY <1>9 DEF Reaches
<1> QED
  BY <1>11, <1>12

-----------------------------------------------------------------------------
(* What the prover sends *)

LEMMA ProofTreeNodes ==
  ASSUME NEW R, ReadState(R), NEW r \in R, NEW p \in Path,
         NEW last, last = Walk(r, p)[Calls(r, p)]
  PROVE  /\ ProofTree(r, p) =
              IF LeafMatches(last) \/ (last.ref.of.type = "branch" /\ last.path = <<>>)
              THEN Pushed(r, p) ELSE KeyError
         /\ Len(Pushed(r, p)) = Calls(r, p) + 1 /\ Calls(r, p) \in Nat
         /\ DOMAIN Pushed(r, p) = 1..Len(Pushed(r, p))
         /\ Pushed(r, p) # KeyError
         /\ \A n \in 0..Calls(r, p) : IntoReference(Pushed(r, p)[n + 1]) = Walk(r, p)[n].ref
<1>1. /\ \A n \in 0..Calls(r, p) : Walk(r, p)[n].ref \in R
      /\ Calls(r, p) \in 0..Len(p) /\ Len(p) \in Nat /\ Closed(R)
  BY LookupHolds, CallsEnd, PathLength DEF ReadState
<1> PICK N \in Nat : N = Calls(r, p)
  BY <1>1
<1> PICK W : W = Walk(r, p)
  OBVIOUS
<1>2. ProofTree(r, p) =
        IF LeafMatches(last) \/ (last.ref.of.type = "branch" /\ last.path = <<>>)
        THEN Pushed(r, p) ELSE KeyError
  BY <1>1 DEF ProofTree, ReadState
<1>3. Pushed(r, p) = [n \in 1..(N + 1) |-> W[n - 1].ref.of]
  BY DEF Pushed
<1>4. \A n \in 1..(N + 1) : n - 1 \in 0..N
  OBVIOUS
<1>5. \A n \in 1..(N + 1) : Pushed(r, p)[n] \in Nodes(R)
  BY <1>1, <1>3, <1>4 DEF Closed
<1>6. Len(Pushed(r, p)) = N + 1 /\ DOMAIN Pushed(r, p) = 1..(N + 1)
  <2> PICK f : f = Pushed(r, p)
    OBVIOUS
  <2>1. f = [n \in 1..(N + 1) |-> f[n]]
    BY <1>3
  <2> QED
    BY <1>5, <2>1, FunctionIsSeq
<1>7. Pushed(r, p) # KeyError
  <2>1. 1 \in DOMAIN Pushed(r, p)
    BY <1>6
  <2>2. DOMAIN KeyError = {}
    BY DEF KeyError
  <2> QED
    BY <2>1, <2>2
<1>8. ASSUME NEW n \in 0..N PROVE IntoReference(Pushed(r, p)[n + 1]) = W[n].ref
  <2>1. n + 1 \in 1..(N + 1) /\ (n + 1) - 1 = n
    OBVIOUS
  <2>2. Pushed(r, p)[n + 1] = W[n].ref.of
    BY <1>3, <2>1
  <2> QED
    BY <1>1, <2>2 DEF ReadState
<1> QED
  BY <1>2, <1>6, <1>7, <1>8

LEMMA HonestAccepted ==
  ASSUME NEW R, ReadState(R), NEW r \in R, NEW p \in Path, NEW v, Holds(R, r, p, v)
  PROVE  /\ ProofTree(r, p) # KeyError
         /\ VerifySingle(ProofTree(r, p), p, v, r)
<1> PICK W, N, last, nodes : /\ W = Walk(r, p) /\ N = Calls(r, p) /\ last = Walk(r, p)[Calls(r, p)]
                             /\ nodes = Pushed(r, p)
  OBVIOUS
<1>0. Closed(R)
  BY DEF ReadState
<1>1. /\ last.ref \in R /\ last.path \in Path
      /\ \A n \in 0..N : W[n].ref \in R
      /\ v = last.ref.of.data
      /\ LeafMatches(last) \/ (last.ref.of.type = "branch" /\ last.path = <<>>)
  BY <1>0, LookupHolds
<1>2. /\ ProofTree(r, p) = nodes
      /\ Len(nodes) = N + 1 /\ N \in Nat /\ DOMAIN nodes = 1..Len(nodes) /\ nodes # KeyError
      /\ \A n \in 0..N : IntoReference(nodes[n + 1]) = W[n].ref
  BY <1>1, ProofTreeNodes
<1>3. /\ last = W[N]
      /\ \A m \in 0..(N - 1) : GoesOn(W[m])
  BY <1>0, CallsEnd
<1>4. W[0] = [ref |-> r, path |-> p] /\ \A n \in Nat : W[n + 1] = Forward(W[n])
  BY WalkSteps
<1>5. \A n \in 0..N : nodes[n + 1] = W[n].ref.of
  BY <1>2, NodeOfReference
<1> DEFINE rest(n) == Rest(nodes, p)[n]
           S == {n \in Nat : n <= N => rest(n) = W[n].path}
<1>6. rest(0) = p /\ \A n \in Nat : rest(n + 1) = Left(nodes[n + 1], rest(n))
  BY RestSteps
<1> HIDE DEF rest
<1>7. 0 \in S
  BY <1>4, <1>6
<1>8. ASSUME NEW n \in Nat, n \in S PROVE n + 1 \in S
  <2> SUFFICES ASSUME n + 1 <= N PROVE rest(n + 1) = W[n + 1].path
    OBVIOUS
  <2>1. n \in 0..N /\ n \in 0..(N - 1) /\ rest(n) = W[n].path
    BY <1>2, <1>8
  <2>2. nodes[n + 1] = W[n].ref.of
    BY <1>5, <2>1
  <2>3. Forward(W[n]).path = Left(W[n].ref.of, W[n].path)
    BY DEF Forward, Left
  <2> QED
    BY <1>4, <1>6, <2>1, <2>2, <2>3
<1> HIDE DEF S
<1>9. Nat \subseteq S
  BY <1>7, <1>8, SetInduction
<1>10. \A n \in 0..N : rest(n) = W[n].path
  BY <1>2, <1>9 DEF S
<1>11. \A j \in 1..N : TurnGoesOn(nodes, j, rest(j - 1))
  <2> SUFFICES ASSUME NEW j \in 1..N PROVE TurnGoesOn(nodes, j, rest(j - 1))
    OBVIOUS
  <2> PICK m \in 0..(N - 1) : m = j - 1
    BY <1>2
  <2>1. m \in 0..N /\ m + 1 = j /\ m + 1 \in 0..N /\ m \in Nat
    BY <1>2
  <2>2. GoesOn(W[m]) /\ nodes[j] = W[m].ref.of /\ rest(m) = W[m].path
    BY <1>3, <1>5, <1>10, <2>1
  <2>3. IntoReference(nodes[j + 1]) = Forward(W[m]).ref
    BY <1>2, <1>4, <2>1
  <2> QED
    BY <2>2, <2>3 DEF GoesOn, Forward, TurnGoesOn, NextMatches
<1>12. TurnAccepts(nodes[N + 1], rest(N), v)
  <2>1. nodes[N + 1] = last.ref.of /\ rest(N) = last.path
    BY <1>2, <1>3, <1>5, <1>10
  <2> QED
    BY <1>1, <2>1 DEF TurnAccepts, LeafMatches
<1>13. LoopAccepts(nodes, p, v)
  <2>1. N + 1 \in DOMAIN nodes /\ (N + 1) - 1 = N
    BY <1>2
  <2> QED
    BY <1>11, <1>12, <2>1 DEF LoopAccepts, rest
<1>14. FirstMatches(nodes, r)
  <2>1. 0 \in 0..N /\ 0 + 1 = 1
    BY <1>2
  <2>2. IntoReference(nodes[0 + 1]) = W[0].ref
    BY <1>2, <2>1
  <2>3. W[0].ref = r
    BY <1>4
  <2> QED
    BY <2>1, <2>2, <2>3 DEF FirstMatches
<1>15. nodes # <<>>
  BY <1>2 DEF KeyError
<1> QED
  BY <1>2, <1>13, <1>14, <1>15 DEF VerifySingle

-----------------------------------------------------------------------------
(* The properties *)

\* One or two keys.
LEMMA ListsOfKeys ==
  ASSUME NEW keys \in KeyLists
  PROVE  /\ DOMAIN keys \in {1..1, 1..2} /\ 1 \in DOMAIN keys
         /\ \A i \in DOMAIN keys : keys[i] \in Keys
<1>1. CASE \E k \in Keys : keys = <<k>>
  <2>1. PICK k \in Keys : keys = <<k>>
    BY <1>1
  <2>2. DOMAIN keys = 1..1 /\ keys[1] = k /\ \A i \in 1..1 : i = 1
    BY <2>1
  <2> QED
    BY <2>2
<1>2. CASE \E k, l \in Keys : keys = <<k, l>>
  <2>1. PICK k \in Keys, l \in Keys : keys = <<k, l>>
    BY <1>2
  <2>2. DOMAIN keys = 1..2 /\ keys[1] = k /\ keys[2] = l /\ \A i \in 1..2 : i = 1 \/ i = 2
    BY <2>1
  <2> QED
    BY <2>2
<1> QED
  BY <1>1, <1>2 DEF KeyLists

\* A present key is in the trie, with its value.
LEMMA PresentHeld ==
  ASSUME NEW R, ReadState(R), NEW k \in Keys, Present(k)
  PROVE  rootRef \in R /\ Holds(R, rootRef, k, Contents(rootRef)[k])
<1>1. PICK v : Holds(R, rootRef, k, v)
  BY MapHolds DEF Present
<1>2. Contents(rootRef)[k] = v
  BY <1>1, MapHolds
<1>3. rootRef \in R
  BY <1>1, HoldsUnreadable DEF ReadState, Readable
<1> QED
  BY <1>1, <1>2, <1>3

LEMMA HonestVerified ==
  ASSUME NEW R, ReadState(R), pc = "ready",
         NEW keys \in KeyLists, \A i \in DOMAIN keys : Present(keys[i]),
         NEW values, values = [i \in DOMAIN keys |-> Contents(rootRef)[keys[i]]],
         NEW proof, proof = GenerateProof(keys)
  PROVE  proof # KeyError /\ VerifyProof(values, keys, rootValue, proof)
<1> DEFINE paths == [i \in DOMAIN keys |-> ProofTree(rootRef, keys[i])]
<1>1. 1 \in DOMAIN keys /\ \A i \in DOMAIN keys : keys[i] \in Keys
  BY ListsOfKeys
<1>2. ASSUME NEW i \in DOMAIN keys
      PROVE  /\ rootRef \in R
             /\ ProofTree(rootRef, keys[i]) # KeyError
             /\ VerifySingle(ProofTree(rootRef, keys[i]), keys[i], values[i], rootRef)
  <2>1. rootRef \in R /\ Holds(R, rootRef, keys[i], Contents(rootRef)[keys[i]])
    BY <1>1, PresentHeld
  <2>2. keys[i] \in Path
    BY <1>1, TrieAssumption
  <2> QED
    BY <2>1, <2>2, HonestAccepted
<1>3. rootRef \in R /\ rootValue = rootRef /\ RootHash(rootRef) = rootRef
  <2>1. rootRef \in R /\ rootValue = rootRef
    BY <1>1, <1>2 DEF ReadState
  <2>2. rootRef = IntoReference(rootRef.of) /\ rootRef.len = 32 /\ rootRef \notin NoNode
    BY <2>1 DEF ReadState, Closed
  <2>3. RootHash(rootRef) = rootRef
    BY <2>2 DEF RootHash, IntoReference
  <2> QED
    BY <2>1, <2>3
<1>4. proof = [commitments |-> paths, witness |-> rootValue]
  BY <1>2, <1>3 DEF GenerateProof
<1>5. proof # KeyError
  <2>1. "witness" \in DOMAIN proof
    BY <1>4
  <2>2. DOMAIN KeyError = {}
    BY DEF KeyError
  <2> QED
    BY <2>1, <2>2
<1>6. proof.witness = rootValue /\ proof.commitments = paths
  BY <1>4
<1>7. \A i \in DOMAIN keys : VerifySingle(proof.commitments[i], keys[i], values[i], rootValue)
  BY <1>2, <1>3, <1>6
<1> QED
  BY <1>5, <1>6, <1>7 DEF VerifyProof

\* The proof just generated for present keys is accepted with their values, for
\* every trie whose nodes are all hashed.
THEOREM HonestProofsAreVerified ==
  ASSUME NothingInPlace
  PROVE  Spec => []HonestProofsVerify
<1>1. ReadInv => HonestProofsVerify
  BY ReadStates, HonestVerified DEF HonestProofsVerify
<1> QED
  BY <1>1, ReadInvariance, PTL

LEMMA VerifiedHeld ==
  ASSUME NEW R, ReadState(R), pc = "ready", rootValue \notin NoNode,
         NEW ref \in db, NEW k \in Keys, NEW l \in Keys,
         NEW nodes, nodes = ProofTree(ref, k), nodes # KeyError,
         NEW v \in Values, VerifySingle(nodes, l, v, rootValue)
  PROVE  Contents(rootRef)[l] = v
<1>1. ref \in R /\ ref.len = 32 /\ rootValue = rootRef /\ rootRef \in R /\ Closed(R)
      /\ k \in Path /\ l \in Path
  BY TrieAssumption DEF ReadState
<1>2. /\ nodes = Pushed(ref, k)
      /\ Len(nodes) \in Nat /\ DOMAIN nodes = 1..Len(nodes)
      /\ Calls(ref, k) \in Nat
      /\ \A n \in 0..Calls(ref, k) : IntoReference(nodes[n + 1]) = Walk(ref, k)[n].ref
  <2> PICK last : last = Walk(ref, k)[Calls(ref, k)]
    OBVIOUS
  <2>1. nodes = Pushed(ref, k)
    BY <1>1, ProofTreeNodes
  <2>2. /\ Len(nodes) = Calls(ref, k) + 1 /\ DOMAIN nodes = 1..Len(nodes) /\ Calls(ref, k) \in Nat
        /\ \A n \in 0..Calls(ref, k) : IntoReference(nodes[n + 1]) = Walk(ref, k)[n].ref
    BY <1>1, <2>1, ProofTreeNodes
  <2> QED
    BY <2>1, <2>2
<1>3. IntoReference(nodes[1]) = ref
  <2>1. 0 \in 0..Calls(ref, k) /\ 0 + 1 = 1
    BY <1>2
  <2>2. Walk(ref, k)[0] = [ref |-> ref, path |-> k]
    BY WalkSteps
  <2> QED
    BY <1>2, <2>1, <2>2
<1>4. ref = rootRef
  BY <1>1, <1>3 DEF VerifySingle, FirstMatches
<1>5. v # EmptyBytes
  BY NodeAssumption
<1>6. Holds(R, rootRef, l, v)
  BY <1>1, <1>2, <1>3, <1>4, <1>5, AcceptedIsHeld DEF VerifySingle
<1> QED
  BY <1>6, MapHolds

\* A path out of the trie, of any time and for any key, proves no value that
\* the trie with this root does not hold.
THEOREM VerifiedValuesHeld ==
  ASSUME NothingInPlace
  PROVE  Spec => []VerifiedValuesAreHeld
<1>1. ReadInv => VerifiedValuesAreHeld
  BY ReadStates, VerifiedHeld DEF VerifiedValuesAreHeld
<1> QED
  BY <1>1, ReadInvariance, PTL

-----------------------------------------------------------------------------
(* The deduplicated proof *)

\* A function made step by step.
Steps(S, N, step) == N \in Nat /\ step \in [1..N -> [S -> S]]
Made(S, first, N, step, f) ==
  f \in [0..N -> S] /\ f[0] = first /\ \A n \in 1..N : f[n] = step[n][f[n - 1]]

LEMMA Recursion ==
  ASSUME NEW S, NEW first \in S, NEW N, NEW step, Steps(S, N, step)
  PROVE  \E f : Made(S, first, N, step, f)
<1>0. N \in Nat /\ step \in [1..N -> [S -> S]]
  BY DEF Steps
<1> DEFINE Upto(M, f) == f \in [0..M -> S] /\ f[0] = first /\ \A n \in 1..M : f[n] = step[n][f[n - 1]]
           T == {M \in Nat : M <= N => \E f : Upto(M, f)}
<1>1. 0 \in T
  <2>1. Upto(0, [m \in 0..0 |-> first])
    OBVIOUS
  <2> QED
    BY <2>1
<1>2. ASSUME NEW M \in Nat, M \in T PROVE M + 1 \in T
  <2> SUFFICES ASSUME M + 1 <= N PROVE \E f : Upto(M + 1, f)
    OBVIOUS
  <2>1. PICK f : Upto(M, f)
    BY <1>0, <1>2
  <2>2. M \in 0..M /\ M + 1 \in 1..N /\ f[M] \in S
    BY <1>0, <2>1
  <2> PICK last : last = step[M + 1][f[M]]
    OBVIOUS
  <2>3. last \in S
    BY <1>0, <2>2
  <2> PICK g : g = [m \in 0..(M + 1) |-> IF m = M + 1 THEN last ELSE f[m]]
    OBVIOUS
  <2>4. \A m \in 0..(M + 1) : m # M + 1 => m \in 0..M /\ g[m] = f[m]
    OBVIOUS
  <2>5. g \in [0..(M + 1) -> S]
    BY <2>1, <2>3, <2>4
  <2>6. g[0] = first
    BY <2>1, <2>4
  <2>7. ASSUME NEW n \in 1..(M + 1) PROVE g[n] = step[n][g[n - 1]]
    <3>1. n - 1 \in 0..M /\ n - 1 # M + 1 /\ n - 1 \in 0..(M + 1)
      OBVIOUS
    <3>2. g[n - 1] = f[n - 1]
      BY <3>1
    <3>3. CASE n = M + 1
      BY <3>2, <3>3
    <3>4. CASE n # M + 1
      <4>1. n \in 1..M /\ n \in 0..(M + 1)
        BY <3>4
      <4> QED
        BY <2>1, <3>2, <3>4, <4>1
    <3> QED
      BY <3>3, <3>4
  <2>8. Upto(M + 1, g)
    BY <2>5, <2>6, <2>7
  <2> HIDE DEF Upto
  <2> QED
    BY <2>8
<1>3. N \in T
  <2> HIDE DEF T
  <2>1. Nat \subseteq T
    BY <1>1, <1>2, SetInduction
  <2> QED
    BY <1>0, <2>1
<1>4. \E f : Upto(N, f)
  BY <1>0, <1>3
<1> QED
  BY <1>0, <1>4 DEF Made

\* An element of a list.
Lists(list, x) == \E i \in DOMAIN list : list[i] = x

\* A list stays without repetitions when something new is added.
LEMMA AppendOnce ==
  ASSUME NEW S, NEW l \in Seq(S), NEW r \in S, IsInjective(l), ~Contains(l, r)
  PROVE  IsInjective(Append(l, r))
<1> PICK f : f = Append(l, r)
  OBVIOUS
<1>1. /\ DOMAIN f = 1..(Len(l) + 1) /\ DOMAIN l = 1..Len(l) /\ Len(l) \in Nat
      /\ f[Len(l) + 1] = r /\ \A i \in 1..Len(l) : f[i] = l[i]
  OBVIOUS
<1>2. \A i \in 1..(Len(l) + 1) : i \in 1..Len(l) \/ i = Len(l) + 1
  BY <1>1
<1>3. \A i \in 1..Len(l) : l[i] # r
  BY <1>1 DEF Contains
<1>4. \A a, b \in DOMAIN l : l[a] = l[b] => a = b
  BY DEF IsInjective
<1>5. \A a, b \in DOMAIN f : f[a] = f[b] => a = b
  BY <1>1, <1>2, <1>3, <1>4
<1> QED
  BY <1>5 DEF IsInjective

\* A list to which nodes are added has them and what it had, each once.
LEMMA ListedHas ==
  ASSUME NEW S, NEW list \in Seq(S), NEW nodes \in Seq(S)
  PROVE  /\ Listed(list, nodes) \in Seq(S)
         /\ \A x : Lists(Listed(list, nodes), x) <=> Lists(list, x) \/ Lists(nodes, x)
         /\ IsInjective(list) => IsInjective(Listed(list, nodes))
<1> PICK N : N = Len(nodes)
  OBVIOUS
<1>0. N \in Nat /\ DOMAIN nodes = 1..N /\ \A n \in 1..N : nodes[n] \in S
  OBVIOUS
<1> DEFINE Grown(l, n) == IF Contains(l, nodes[n]) THEN l ELSE Append(l, nodes[n])
           step == [n \in 1..N |-> [l \in Seq(S) |-> Grown(l, n)]]
           Body(f, n) == IF n = 0 THEN list ELSE Grown(f[n - 1], n)
           upto == CHOOSE f : f = [n \in 0..N |-> Body(f, n)]
<1>1. \A l \in Seq(S), n \in 1..N : Grown(l, n) \in Seq(S)
  BY <1>0
<1>2. \E f \in [0..N -> Seq(S)] : f[0] = list /\ \A n \in 1..N : f[n] = step[n][f[n - 1]]
  <2>1. step \in [1..N -> [Seq(S) -> Seq(S)]]
    <3> HIDE DEF Grown
    <3> QED
      BY <1>1
  <2> HIDE DEF step
  <2>2. Steps(Seq(S), N, step)
    BY <1>0, <2>1 DEF Steps
  <2>3. \E f : Made(Seq(S), list, N, step, f)
    BY <2>2, Recursion
  <2> QED
    BY <2>3 DEF Made
<1>3. PICK g \in [0..N -> Seq(S)] : g[0] = list /\ \A n \in 1..N : g[n] = Grown(g[n - 1], n)
  <2>1. PICK f \in [0..N -> Seq(S)] : f[0] = list /\ \A n \in 1..N : f[n] = step[n][f[n - 1]]
    BY <1>2
  <2>2. ASSUME NEW n \in 1..N PROVE f[n] = Grown(f[n - 1], n)
    <3>1. n - 1 \in 0..N
      BY <1>0
    <3>2. f[n - 1] \in Seq(S)
      BY <3>1
    <3> HIDE DEF Grown
    <3> QED
      BY <2>1, <3>2
  <2> HIDE DEF Grown
  <2> QED
    BY <2>1, <2>2
<1>4. upto = [n \in 0..N |-> Body(upto, n)]
  <2>1. g = [n \in 0..N |-> Body(g, n)]
    <3>1. \A n \in 0..N : n # 0 => n \in 1..N
      BY <1>0
    <3> HIDE DEF Grown
    <3> QED
      BY <1>3, <3>1
  <2> HIDE DEF Body
  <2> QED
    BY <2>1
<1>5. Listed(list, nodes) = upto[N]
  BY DEF Listed
<1> HIDE DEF upto
<1> DEFINE Has(l, x) == \E i \in DOMAIN l : l[i] = x
           Good(n) == /\ upto[n] \in Seq(S)
                      /\ \A x : Has(upto[n], x) <=> Has(list, x) \/ \E i \in 1..n : nodes[i] = x
                      /\ IsInjective(list) => IsInjective(upto[n])
           T == {n \in Nat : n <= N => Good(n)}
<1>6. 0 \in T
  <2>1. upto[0] = list
    BY <1>0, <1>4
  <2> QED
    BY <2>1
<1>7. ASSUME NEW n \in Nat, n \in T PROVE n + 1 \in T
  <2> SUFFICES ASSUME n + 1 <= N PROVE Good(n + 1)
    OBVIOUS
  <2>1. n + 1 \in 1..N /\ n + 1 \in 0..N /\ n + 1 # 0 /\ (n + 1) - 1 = n
    BY <1>0
  <2> PICK l, r : l = upto[n] /\ r = nodes[n + 1]
    OBVIOUS
  <2>2. upto[n + 1] = IF Contains(l, r) THEN l ELSE Append(l, r)
    BY <1>4, <2>1
  <2>3. /\ l \in Seq(S) /\ r \in S /\ \A x : Has(l, x) <=> Has(list, x) \/ \E i \in 1..n : nodes[i] = x
        /\ IsInjective(list) => IsInjective(l)
    <3>1. Good(n)
      BY <1>0, <1>7
    <3>2. r \in S
      BY <1>0, <2>1
    <3> HIDE DEF Has
    <3> QED
      BY <3>1, <3>2
  <2>4. Contains(l, r) <=> Has(l, r)
    <3>1. DOMAIN l = 1..Len(l)
      BY <2>3
    <3> QED
      BY <3>1 DEF Contains
  <2>5. upto[n + 1] \in Seq(S)
    BY <2>2, <2>3
  <2>6. ASSUME NEW x PROVE Has(upto[n + 1], x) <=> Has(l, x) \/ x = r
    <3>1. CASE Contains(l, r)
      <4> HIDE DEF Has
      <4> QED
        BY <2>2, <2>4, <3>1
    <3>2. CASE ~Contains(l, r)
      <4>1. upto[n + 1] = Append(l, r)
        BY <2>2, <3>2
      <4>2. /\ DOMAIN Append(l, r) = 1..(Len(l) + 1) /\ DOMAIN l = 1..Len(l) /\ Len(l) \in Nat
            /\ \A i \in 1..Len(l) : Append(l, r)[i] = l[i]
            /\ Append(l, r)[Len(l) + 1] = r
        BY <2>3
      <4>3. \A i \in 1..(Len(l) + 1) : i \in 1..Len(l) \/ i = Len(l) + 1
        BY <4>2
      <4>4. Len(l) + 1 \in 1..(Len(l) + 1) /\ \A i \in 1..Len(l) : i \in 1..(Len(l) + 1)
        BY <4>2
      <4> QED
        BY <4>1, <4>2, <4>3, <4>4
    <3> QED
      BY <3>1, <3>2
  <2>7. ASSUME NEW x PROVE (\E i \in 1..(n + 1) : nodes[i] = x) <=> (\E i \in 1..n : nodes[i] = x) \/ x = r
    <3>1. \A i \in 1..(n + 1) : i \in 1..n \/ i = n + 1
      OBVIOUS
    <3>2. n + 1 \in 1..(n + 1) /\ \A i \in 1..n : i \in 1..(n + 1)
      OBVIOUS
    <3> QED
      BY <3>1, <3>2
  <2>8. IsInjective(list) => IsInjective(upto[n + 1])
    BY <2>2, <2>3, AppendOnce
  <2> HIDE DEF Has
  <2> QED
    BY <2>3, <2>5, <2>6, <2>7, <2>8
<1>8. Good(N)
  <2> HIDE DEF T, Good
  <2>1. N \in T
    BY <1>0, <1>6, <1>7, SetInduction
  <2> QED
    BY <1>0, <2>1 DEF T
<1> PICK res : res = upto[N]
  OBVIOUS
<1>9. /\ res \in Seq(S)
      /\ \A x : Has(res, x) <=> Has(list, x) \/ \E i \in DOMAIN nodes : nodes[i] = x
      /\ IsInjective(list) => IsInjective(res)
  BY <1>0, <1>8
<1> QED
  BY <1>5, <1>9 DEF Lists

\* The list of nodes has those of all paths, each once.
LEMMA NodeListHas ==
  ASSUME NEW S, NEW paths, NEW N \in Nat, Len(paths) = N,
         \A i \in 1..N : paths[i] \in Seq(S)
  PROVE  /\ NodeList(paths) \in Seq(S)
         /\ \A x : Lists(NodeList(paths), x) <=> \E i \in 1..N : Lists(paths[i], x)
         /\ IsInjective(NodeList(paths))
<1>0. \A l \in Seq(S), r \in Seq(S) :
        /\ Listed(l, r) \in Seq(S)
        /\ \A x : Lists(Listed(l, r), x) <=> Lists(l, x) \/ Lists(r, x)
        /\ IsInjective(l) => IsInjective(Listed(l, r))
  BY ListedHas
<1> DEFINE Refs_(n) == paths[n]
           Grown(l, n) == Listed(l, Refs_(n))
           step == [n \in 1..N |-> [l \in Seq(S) |-> Grown(l, n)]]
           Body(f, n) == IF n = 0 THEN <<>> ELSE Grown(f[n - 1], n)
           upto == CHOOSE f : f = [n \in 0..N |-> Body(f, n)]
<1>1. \A l \in Seq(S), n \in 1..N : Grown(l, n) \in Seq(S)
  BY ListedHas
<1>2. \E f : Made(Seq(S), <<>>, N, step, f)
  <2>1. step \in [1..N -> [Seq(S) -> Seq(S)]]
    <3> HIDE DEF Grown
    <3> QED
      BY <1>1
  <2> HIDE DEF step
  <2>2. Steps(Seq(S), N, step)
    BY <2>1 DEF Steps
  <2>3. <<>> \in Seq(S)
    OBVIOUS
  <2> QED
    BY <2>2, <2>3, Recursion
<1>3. PICK g \in [0..N -> Seq(S)] : g[0] = <<>> /\ \A n \in 1..N : g[n] = Grown(g[n - 1], n)
  <2>1. PICK f \in [0..N -> Seq(S)] : f[0] = <<>> /\ \A n \in 1..N : f[n] = step[n][f[n - 1]]
    <3> HIDE DEF step
    <3> QED
      BY <1>2 DEF Made
  <2>2. ASSUME NEW n \in 1..N PROVE f[n] = Grown(f[n - 1], n)
    <3>1. n - 1 \in 0..N
      OBVIOUS
    <3>2. f[n - 1] \in Seq(S)
      BY <3>1
    <3> HIDE DEF Grown
    <3> QED
      BY <2>1, <3>2
  <2> HIDE DEF Grown
  <2> QED
    BY <2>1, <2>2
<1>4. upto = [n \in 0..N |-> Body(upto, n)]
  <2>1. g = [n \in 0..N |-> Body(g, n)]
    <3>1. \A n \in 0..N : n # 0 => n \in 1..N
      OBVIOUS
    <3> HIDE DEF Grown
    <3> QED
      BY <1>3, <3>1
  <2> HIDE DEF Body
  <2> QED
    BY <2>1
<1>5. NodeList(paths) = upto[N]
  BY DEF NodeList
<1> HIDE DEF upto
<1> DEFINE Among(n, x) == \E i \in 1..n : Lists(Refs_(i), x)
           Good(n) == /\ upto[n] \in Seq(S) /\ \A x : Lists(upto[n], x) <=> Among(n, x)
                      /\ IsInjective(upto[n])
           T == {n \in Nat : n <= N => Good(n)}
<1>6. 0 \in T
  <2>1. upto[0] = <<>>
    <3>1. 0 \in 0..N
      OBVIOUS
    <3> HIDE DEF Grown
    <3> QED
      BY <1>4, <3>1
  <2>2. Good(0)
    BY <2>1 DEF Lists, IsInjective
  <2> QED
    BY <2>2
<1>7. ASSUME NEW n \in Nat, n \in T PROVE n + 1 \in T
  <2> SUFFICES ASSUME n + 1 <= N PROVE Good(n + 1)
    OBVIOUS
  <2>1. n + 1 \in 1..N /\ n + 1 \in 0..N /\ n + 1 # 0 /\ (n + 1) - 1 = n
    OBVIOUS
  <2>0. PICK l, r : l = upto[n] /\ r = Refs_(n + 1)
    OBVIOUS
  <2>2. upto[n + 1] = Listed(l, r)
    BY <1>4, <2>0, <2>1
  <2>3. l \in Seq(S) /\ r \in Seq(S) /\ (\A x : Lists(l, x) <=> Among(n, x)) /\ IsInjective(l)
    <3>1. Good(n)
      BY <1>7
    <3>2. r \in Seq(S)
      BY <2>0, <2>1
    <3> HIDE DEF Among
    <3> QED
      BY <2>0, <3>1, <3>2
  <2>4. /\ Listed(l, r) \in Seq(S) /\ \A x : Lists(Listed(l, r), x) <=> Lists(l, x) \/ Lists(r, x)
        /\ IsInjective(Listed(l, r))
    <3>1. l \in Seq(S) /\ r \in Seq(S) /\ IsInjective(l)
      BY <2>3
    <3> HIDE DEF Among
    <3> QED
      BY <1>0, <3>1
  <2>5. ASSUME NEW x PROVE Among(n + 1, x) <=> Among(n, x) \/ Lists(r, x)
    <3>1. \A i \in 1..(n + 1) : i \in 1..n \/ i = n + 1
      OBVIOUS
    <3>2. n + 1 \in 1..(n + 1) /\ \A i \in 1..n : i \in 1..(n + 1)
      OBVIOUS
    <3> QED
      BY <2>0, <3>1, <3>2
  <2> HIDE DEF Among
  <2> QED
    BY <2>2, <2>3, <2>4, <2>5
<1>8. Good(N)
  <2> HIDE DEF T, Good
  <2>1. N \in T
    BY <1>6, <1>7, SetInduction
  <2> QED
    BY <2>1 DEF T
<1> PICK res : res = upto[N]
  OBVIOUS
<1>9. /\ res \in Seq(S)
      /\ \A x : Lists(res, x) <=> \E i \in 1..N : Lists(Refs_(i), x)
      /\ IsInjective(res)
  BY <1>8
<1> QED
  BY <1>5, <1>9


\* A path that is sent is a sequence.
LEMMA PathForm ==
  ASSUME NEW R, Closed(R), rootRef \in R \cup NoNode, NEW k \in Keys,
         NEW q, q = ProofTree(rootRef, k), q # KeyError
  PROVE  \E n \in Nat : q = [m \in 1..n |-> q[m]]
<1>1. k \in Path
  BY TrieAssumption
<1>2. PICK N \in Nat : N = Calls(rootRef, k)
  <2>1. Calls(rootRef, k) \in 0..Len(k) /\ Len(k) \in Nat
    BY <1>1, CallsEnd, PathLength
  <2> QED
    BY <2>1
<1>3. q = Pushed(rootRef, k)
  BY DEF ProofTree
<1>4. q = [m \in 1..(N + 1) |-> q[m]]
  BY <1>2, <1>3 DEF Pushed
<1>5. N + 1 \in Nat
  OBVIOUS
<1> QED
  BY <1>4, <1>5

\* What the prover sends for keys none of which misses.
LEMMA PathsOrError ==
  ASSUME NEW keys, NEW proof, proof = GenerateProof(keys)
  PROVE  \/ proof = KeyError
         \/ /\ proof # KeyError /\ proof.witness = RootHash(rootRef)
            /\ \A i \in DOMAIN keys : ProofTree(rootRef, keys[i]) # KeyError
            /\ proof.commitments = [i \in DOMAIN keys |-> ProofTree(rootRef, keys[i])]
<1> DEFINE paths == [i \in DOMAIN keys |-> ProofTree(rootRef, keys[i])]
<1>1. proof = IF \E i \in DOMAIN keys : paths[i] = KeyError THEN KeyError
              ELSE [commitments |-> paths, witness |-> RootHash(rootRef)]
  BY DEF GenerateProof
<1>2. \A i \in DOMAIN keys : paths[i] = ProofTree(rootRef, keys[i])
  OBVIOUS
<1>3. [commitments |-> paths, witness |-> RootHash(rootRef)] # KeyError
  <2> HIDE DEF paths
  <2> PICK rec : rec = [commitments |-> paths, witness |-> RootHash(rootRef)]
    OBVIOUS
  <2>1. "witness" \in DOMAIN rec /\ DOMAIN KeyError = {}
    BY DEF KeyError
  <2> QED
    BY <2>1
<1> HIDE DEF paths
<1>4. \/ proof = KeyError
      \/ /\ proof # KeyError /\ proof.witness = RootHash(rootRef) /\ proof.commitments = paths
         /\ \A i \in DOMAIN keys : paths[i] # KeyError
  BY <1>1, <1>3
<1> QED
  BY <1>2, <1>4 DEF paths

\* The deduplicated proof stands for the same paths.
LEMMA SamePaths ==
  ASSUME NEW R, Closed(R), rootRef \in R \cup NoNode, NEW keys \in KeyLists,
         NEW proof, proof = GenerateProof(keys), NEW dedup, dedup = GenerateOptimized(keys),
         proof # KeyError
  PROVE  /\ dedup # KeyError /\ dedup.witness = proof.witness
         /\ IsInjective(dedup.nodes)
         /\ \A i \in DOMAIN keys : Reconstruct(keys, dedup, i) = proof.commitments[i]
<1> DEFINE paths == proof.commitments
           list == NodeList(paths)
           Path_(i) == [j \in DOMAIN paths[i] |-> IndexOf(list, paths[i][j])]
           inds == [i \in DOMAIN keys |-> Path_(i)]
<1>1. /\ \A i \in DOMAIN keys : ProofTree(rootRef, keys[i]) # KeyError
      /\ paths = [i \in DOMAIN keys |-> ProofTree(rootRef, keys[i])]
  BY PathsOrError
<1>2. dedup = [nodes |-> list, indices |-> inds, witness |-> proof.witness]
  BY DEF GenerateOptimized
<1>3. PICK N \in Nat : DOMAIN keys = 1..N /\ N \in {1, 2} /\ \A i \in 1..N : keys[i] \in Keys
  BY ListsOfKeys
<1> HIDE DEF paths
<1>4. Len(paths) = N /\ DOMAIN paths = 1..N
  BY <1>1, <1>3
<1>5. ASSUME NEW i \in 1..N
      PROVE  /\ paths[i] = ProofTree(rootRef, keys[i])
             /\ \E n \in Nat : paths[i] = [m \in 1..n |-> paths[i][m]]
  <2> PICK q : q = paths[i]
    OBVIOUS
  <2>1. q = ProofTree(rootRef, keys[i]) /\ q # KeyError /\ keys[i] \in Keys
    BY <1>1, <1>3
  <2>2. \E n \in Nat : q = [m \in 1..n |-> q[m]]
    BY <2>1, PathForm
  <2> QED
    BY <2>1, <2>2
<1> PICK S : S = {paths[p[1]][p[2]] : p \in (1..N) \X Nat}
  OBVIOUS
<1>6. ASSUME NEW i \in 1..N PROVE paths[i] \in Seq(S)
  <2> PICK q : q = paths[i]
    OBVIOUS
  <2>1. PICK n \in Nat : q = [m \in 1..n |-> q[m]]
    BY <1>5
  <2>2. ASSUME NEW m \in 1..n PROVE q[m] \in S
    <3>1. <<i, m>> \in (1..N) \X Nat
      OBVIOUS
    <3> QED
      BY <3>1
  <2>3. q \in [1..n -> S]
    BY <2>1, <2>2
  <2>4. q \in Seq(S)
    <3> HIDE DEF list
    <3> QED
      BY <2>3, SeqDef, ZenonT(30)
  <2> QED
    BY <2>4
<1>7. /\ \A x : Lists(list, x) <=> \E i \in 1..N : Lists(paths[i], x)
      /\ IsInjective(list)
  BY <1>4, <1>6, NodeListHas
<1> HIDE DEF list
<1>8. ASSUME NEW i \in 1..N, NEW j \in DOMAIN paths[i]
      PROVE  list[IndexOf(list, paths[i][j])] = paths[i][j]
  <2> PICK x : x = paths[i][j]
    OBVIOUS
  <2>1. Lists(list, x)
    BY <1>7 DEF Lists
  <2> QED
    BY <2>1 DEF Lists, IndexOf
<1>9. ASSUME NEW i \in 1..N PROVE Reconstruct(keys, dedup, i) = paths[i]
  <2>1. PICK last : last = CHOOSE j \in DOMAIN keys :
                             keys[j] = keys[i] /\ \A m \in DOMAIN keys : keys[m] = keys[i] => m <= j
    OBVIOUS
  <2>2. last \in 1..N /\ keys[last] = keys[i]
    <3>1. \E j \in 1..N : keys[j] = keys[i] /\ \A m \in 1..N : keys[m] = keys[i] => m <= j
      <4>1. CASE N = 1
        BY <4>1
      <4>2. CASE N = 2
        <5>1. \A m \in 1..2 : m <= 2 /\ (m = 1 \/ m = 2)
          OBVIOUS
        <5>2. CASE keys[2] = keys[i]
          BY <4>2, <5>1, <5>2
        <5>3. CASE keys[2] # keys[i]
          BY <4>2, <5>1, <5>3
        <5> QED
          BY <5>2, <5>3
      <4> QED
        BY <1>3, <4>1, <4>2
    <3> QED
      BY <1>3, <2>1, <3>1
  <2>3. paths[last] = paths[i]
    BY <1>5, <2>2
  <2>4. Reconstruct(keys, dedup, i) = [n \in DOMAIN dedup.indices[last] |-> dedup.nodes[dedup.indices[last][n]]]
    BY <2>1 DEF Reconstruct
  <2>5. dedup.nodes = list /\ dedup.indices = inds
    BY <1>2
  <2>6. DOMAIN inds[last] = DOMAIN paths[last]
        /\ \A n \in DOMAIN paths[last] : list[inds[last][n]] = paths[last][n]
    BY <1>3, <1>8, <2>2
  <2>7. PICK n \in Nat : paths[i] = [m \in 1..n |-> paths[i][m]]
    BY <1>5
  <2> HIDE DEF inds
  <2>8. Reconstruct(keys, dedup, i) = [m \in DOMAIN paths[last] |-> paths[last][m]]
    BY <2>4, <2>5, <2>6
  <2> QED
    BY <2>3, <2>7, <2>8
<1> HIDE DEF inds
<1>10. dedup # KeyError
  <2>1. "witness" \in DOMAIN dedup /\ DOMAIN KeyError = {}
    BY <1>2 DEF KeyError
  <2> QED
    BY <2>1
<1>11. dedup.nodes = list /\ dedup.witness = proof.witness
  BY <1>2
<1> QED
  BY <1>3, <1>7, <1>9, <1>10, <1>11 DEF paths

\* The two provers and their verifiers agree.
LEMMA InvariantAgrees == IInv => OptimizedAgrees
<1> SUFFICES ASSUME IInv, pc = "ready", NEW keys \in KeyLists
             PROVE  LET proof == GenerateProof(keys)
                        dedup == GenerateOptimized(keys)
                    IN  /\ proof = KeyError <=> dedup = KeyError
                        /\ proof # KeyError =>
                             /\ IsInjective(dedup.nodes)
                             /\ \A i \in DOMAIN keys :
                                  Reconstruct(keys, dedup, i) = proof.commitments[i]
                             /\ \A values \in [DOMAIN keys -> Values] :
                                  VerifyOptimized(values, keys, rootValue, dedup)
                                    <=> VerifyProof(values, keys, rootValue, proof)
  BY DEF OptimizedAgrees
<1>1. PICK R : Closed(R) /\ rootRef \in R \cup NoNode
  BY InvClosed DEF IInv, Inv, RootInv
<1>2. PICK proof, dedup : proof = GenerateProof(keys) /\ dedup = GenerateOptimized(keys)
  OBVIOUS
<1>3. proof = KeyError => dedup = KeyError
  BY <1>2 DEF GenerateOptimized
<1>4. ASSUME proof # KeyError
      PROVE  /\ dedup # KeyError /\ dedup.witness = proof.witness
             /\ IsInjective(dedup.nodes)
             /\ \A i \in DOMAIN keys : Reconstruct(keys, dedup, i) = proof.commitments[i]
  BY <1>1, <1>2, <1>4, SamePaths
<1>5. ASSUME proof # KeyError, NEW values
      PROVE  VerifyOptimized(values, keys, rootValue, dedup)
               <=> VerifyProof(values, keys, rootValue, proof)
  <2>1. DOMAIN proof.commitments = DOMAIN keys
    BY <1>2, <1>5, PathsOrError
  <2>2. VerifyProof(values, keys, rootValue, proof)
          <=> /\ proof.witness = rootValue
              /\ \A i \in DOMAIN keys :
                   VerifySingle(proof.commitments[i], keys[i], values[i], rootValue)
    BY <2>1 DEF VerifyProof
  <2>3. VerifyOptimized(values, keys, rootValue, dedup)
          <=> /\ dedup.witness = rootValue
              /\ \A i \in DOMAIN keys :
                   VerifySingle(Reconstruct(keys, dedup, i), keys[i], values[i], rootValue)
    BY DEF VerifyOptimized
  <2> QED
    BY <1>4, <1>5, <2>2, <2>3
<1> QED
  BY <1>2, <1>3, <1>4, <1>5

\* What merkle_proof_optimized.py is for: with the deduplicated proof each node
\* is sent once, the verifier of merkle_verification_optimized.py puts together
\* the very paths of the plain proof, and accepts what the plain one accepts, in
\* every trie, for keys that are there and repeats among them.
THEOREM OptimizedAlwaysAgrees == Spec => []OptimizedAgrees
  BY Invariance, InvariantAgrees, PTL

=============================================================================
