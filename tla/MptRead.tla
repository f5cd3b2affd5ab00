------------------------------ MODULE MptRead -------------------------------
(***************************************************************************)
(* Reading the trie (get and get_proof_tree of tree/merkle_tree.py), what  *)
(* the trie holds, and the properties of MerklePatriciaTrie that speak of  *)
(* it.                                                                     *)
(*                                                                         *)
(* The recursion of the code is a function of the number of calls made: no *)
(* call does anything after the call it makes, and the calls of one lookup *)
(* are told apart by their arguments alone.                                *)
(***************************************************************************)
EXTENDS MerklePatriciaTrieProps, SequencesExt

CONSTANT
  MaxDigits  \* bound on the lengths of the keys

ASSUME ReadAssumption ==
  /\ MaxDigits \in Nat
  /\ \A k \in Keys : Len(k) <= MaxDigits

\* The exception that ends a lookup: neither a node nor a path of nodes.
KeyError == <<>>

\* A node can be had by its reference: a digest is looked up, an in-place
\* reference is its own encoding.
Readable(store, ref) == ref \notin NoNode /\ (ref.len = 32 => ref \in store)

-----------------------------------------------------------------------------
(* The walk of get and of get_proof_tree *)

\* The call with the arguments at.ref and at.path calls itself.
GoesOn(at) ==
  /\ at.ref \notin NoNode /\ at.path # <<>>
  /\ \/ /\ at.ref.of.type = "extension"
        /\ StartsWith(at.path, at.ref.of.path)
     \/ /\ at.ref.of.type = "branch"
        /\ at.ref.of.branches[at.path[1]] # EmptyBytes

\* The arguments of the call it makes.
Forward(at) ==
  IF at.ref.of.type = "extension"
  THEN [ref |-> at.ref.of.next, path |-> Consume(at.path, Len(at.ref.of.path))]
  ELSE [ref |-> at.ref.of.branches[at.path[1]], path |-> Consume(at.path, 1)]

\* The arguments of the calls, from the first on.
Walk(ref, p) ==
  LET at[n \in Nat] == IF n = 0 THEN [ref |-> ref, path |-> p] ELSE Forward(at[n - 1])
  IN  at

\* The number of calls the first call leads to.  Each takes a digit at least.
Calls(ref, p) ==
  CHOOSE n \in 0..Len(p) :
    /\ ~GoesOn(Walk(ref, p)[n])
    /\ \A m \in 0..(n - 1) : GoesOn(Walk(ref, p)[m])

LeafMatches(at) == at.ref.of.type = "leaf" /\ at.ref.of.path = at.path

\* Mutation of GetNode: the path of a leaf is not compared.
GetNodeLoose(ref, p) ==
  LET last == Walk(ref, p)[Calls(ref, p)]
  IN  IF \E n \in 0..Calls(ref, p) : Walk(ref, p)[n].ref \notin db THEN KeyError
      ELSE IF last.path = <<>> \/ last.ref.of.type = "leaf" THEN last.ref.of ELSE KeyError

\* _get: every node is looked up in the database, in-place ones too.  An empty
\* path stops at whatever node is there.
GetNode(ref, p) ==
  LET last == Walk(ref, p)[Calls(ref, p)]
  IN  IF \E n \in 0..Calls(ref, p) : Walk(ref, p)[n].ref \notin db THEN KeyError
      ELSE IF last.path = <<>> \/ LeafMatches(last) THEN last.ref.of ELSE KeyError

\* get: an extension has no data attribute; an absent branch value is b''.
Get(k) ==
  LET node == GetNode(rootRef, k)
  IN  IF node = KeyError THEN KeyError
      ELSE IF node.type = "extension" THEN KeyError ELSE node.data

\* The node of each call of _collect: what it pushes.
Pushed(ref, p) == [n \in 1..(Calls(ref, p) + 1) |-> Walk(ref, p)[n - 1].ref.of]

\* Mutation of ProofTree: a path that ends at a branch is taken for a miss.
ProofTreeLeavesOnly(ref, k) ==
  LET last == Walk(ref, k)[Calls(ref, k)]
  IN  IF \E n \in 0..Calls(ref, k) : ~Readable(db, Walk(ref, k)[n].ref) THEN KeyError
      ELSE IF LeafMatches(last) THEN Pushed(ref, k) ELSE KeyError

\* get_proof_tree: the nodes from ref down to where the key ends.
ProofTree(ref, k) ==
  LET last == Walk(ref, k)[Calls(ref, k)]
  IN  IF \E n \in 0..Calls(ref, k) : ~Readable(db, Walk(ref, k)[n].ref) THEN KeyError
      ELSE IF LeafMatches(last) \/ (last.ref.of.type = "branch" /\ last.path = <<>>)
      THEN Pushed(ref, k) ELSE KeyError

-----------------------------------------------------------------------------
(* What the trie under a reference holds: read level by level off all of its *)
(* nodes, and not by a lookup of the code                                    *)

\* The ways down from a node, and the digits on them.
Ways(node) ==
  CASE node.type = "leaf"      -> {}
    [] node.type = "extension" -> {[digits |-> node.path, ref |-> node.next]}
    [] node.type = "branch"    -> {[digits |-> <<i>>, ref |-> node.branches[i]] : i \in Nibbles}

\* The values at a node itself, and the digits left before each.
Held(node) ==
  CASE node.type = "leaf"      -> {[digits |-> node.path, value |-> node.data]}
    [] node.type = "extension" -> {}
    [] node.type = "branch"    -> {[digits |-> <<>>, value |-> d] : d \in {node.data} \ {EmptyBytes}}

\* The places one level below the given ones, each the digits on the way to it
\* and the reference there, and the paths and values at them.
Deeper(store, places) ==
  UNION {{[digits |-> place.digits \o way.digits, ref |-> way.ref] : way \in Ways(place.ref.of)}
          : place \in {pl \in places : Readable(store, pl.ref)}}

HeldAt(store, places) ==
  UNION {{[digits |-> place.digits \o h.digits, value |-> h.value] : h \in Held(place.ref.of)}
          : place \in {pl \in places : Readable(store, pl.ref)}}

Level(store, ref) ==
  LET level[n \in Nat] == IF n = 0 THEN {[digits |-> <<>>, ref |-> ref]}
                          ELSE Deeper(store, level[n - 1])
  IN  level

\* The paths and values in the trie under ref, as far as depth levels down.
Pairs(store, ref, depth) == UNION {HeldAt(store, Level(store, ref)[n]) : n \in 0..depth}

\* No level but the last takes less than a digit, so those of the keys' length
\* hold all there is for them.
Contents(ref) ==
  LET pairs == Pairs(db, ref, MaxDigits)
  IN  [k \in Keys |-> IF \E e \in pairs : e.digits = k
                      THEN (CHOOSE e \in pairs : e.digits = k).value ELSE EmptyBytes]

-----------------------------------------------------------------------------
(* A trie is determined by what it holds: the reference definition, from a  *)
(* set of paths and values and not from a sequence of inserts               *)

\* Some e of T, the same for the same T.
Some(T) == CHOOSE e \in T : TRUE

\* The digits all paths of T begin with.
Shared(T) == LET p == Some(T).digits
             IN SubSeq(p, 1, Min({CommonLen(p, e.digits) : e \in T}))

Past(T, n) == {[digits |-> Consume(e.digits, n), value |-> e.value] : e \in T}

Below(T, i) == Past({e \in T : e.digits # <<>> /\ e.digits[1] = i}, 1)

\* The node for a non-empty set of paths of at most n digits.
Canonical(S) ==
  LET node[n \in Nat] ==
        [T \in SUBSET [digits : Path, value : Values] |->
           IF n = 0 \/ T = {Some(T)} THEN Leaf(Some(T).digits, Some(T).value)
           ELSE IF Shared(T) # <<>>
           THEN Extension(Shared(T), IntoReference(node[n - 1][Past(T, Len(Shared(T)))]))
           ELSE Branch([i \in Nibbles |-> IF Below(T, i) = {} THEN EmptyBytes
                                          ELSE IntoReference(node[n - 1][Below(T, i)])],
                       IF \E e \in T : e.digits = <<>>
                       THEN (CHOOSE e \in T : e.digits = <<>>).value ELSE EmptyBytes)]
  IN  node[MaxDigits][S]

-----------------------------------------------------------------------------
(* Properties *)

\* Whatever the order of the inserts and wherever crashes cut them short, the
\* root in memory and the root on disk are the canonical trie of what they
\* hold: merkle_tree.py's _update never leaves a trace of its history.
RootIsCanonical ==
  \A ref \in {rootRef, rootFile} \ NoNode :
    ref = IntoReference(Canonical(Pairs(db, ref, MaxDigits)))

\* get returns the value of a key the trie holds and raises KeyError for any
\* other (get's docstring, merkle_tree.py lines 86-88), but for an absent key
\* that is a prefix of present ones, where _get stops at a node of theirs.
GetIsExact ==
  pc = "ready" =>
    \A map \in {Contents(rootRef)} : \A k \in Keys :
      IF map[k] # EmptyBytes THEN Get(k) = map[k]
      ELSE \/ \E l \in Keys : map[l] # EmptyBytes /\ StartsWith(l, k)
           \/ Get(k) = KeyError

\* The trie, its database and its root file implement DurableMap: an insert
\* changes its own key only, takes effect at the assignment of _root_ref,
\* and a crash keeps one of the two maps around the running insert, or, while
\* the root file is truncated, none.
Map == INSTANCE DurableMap WITH
  Absent  <- EmptyBytes,
  Nothing <- NoOp,
  map     <- Contents(rootRef),
  saved   <- Contents(rootFile),
  stage   <- CASE pc = "ready" -> "idle"
               [] pc \in {"update", "store", "return"} -> "called"
               [] pc = "open"  -> "assigned"
               [] pc = "write" -> "saving"
               [] pc = "down"  -> "down",
  request <- op

ImplementsDurableMap == Map!MapSpec

=============================================================================
