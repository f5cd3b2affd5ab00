----------------------------- MODULE VerkleRead -----------------------------
(***************************************************************************)
(* Reading the Verkle tree (get and get_proof_tree of                      *)
(* tree/verkle_tree.py), what the tree holds, and its properties.          *)
(*                                                                         *)
(* The loops of the code are functions of the number of turns made.        *)
(***************************************************************************)
EXTENDS VerkleTreeProps

-----------------------------------------------------------------------------
(* The walk of get and of the provers *)

\* A place of a walk: a node, the reference it was loaded by and how many
\* chunks of the stem lie behind.
Here == [ref |-> root.value, node |-> root.node, depth |-> 0]

\* Mutation of GoesOn: an extension is followed whatever its stem.
GoesOnAnyStem(at, stem) ==
  \/ at.node.type = "internal" /\ at.node.children[stem[at.depth + 1]] # None
  \/ at.node.type = "extension"

\* The loop goes on from this place: there is a child and, at an extension, the
\* rest of the stem is the extension's.
GoesOn(at, stem) ==
  \/ at.node.type = "internal" /\ at.node.children[stem[at.depth + 1]] # None
  \/ at.node.type = "extension" /\ at.node.stem = From(stem, at.depth)

\* The place after it.
Forward(at, stem) ==
  IF at.node.type = "internal"
  THEN LET ref == at.node.children[stem[at.depth + 1]]
       IN  [ref |-> ref, node |-> Load(ref), depth |-> at.depth + 1]
  ELSE [ref |-> at.node.child, node |-> Load(at.node.child), depth |-> at.depth]

\* The places of a walk, from the root on.
Walk(stem) ==
  LET at[n \in Nat] == IF n = 0 THEN Here ELSE Forward(at[n - 1], stem)
  IN  at

\* The number of turns that go on.  An internal node takes a chunk of the stem
\* and only the child of an extension takes none.
Turns(stem) ==
  CHOOSE n \in 0..NumChunks :
    /\ ~GoesOn(Walk(stem)[n], stem)
    /\ \A m \in 0..(n - 1) : GoesOn(Walk(stem)[m], stem)

Value(node, suffix) == IF node.type = "suffix" THEN node.children[suffix] ELSE None

\* get returns an integer, not the bytes that were inserted.
Get(k) ==
  LET last == Walk(StemOf(k))[Turns(StemOf(k))]
      v    == IF root = None THEN None ELSE Value(last.node, SuffixOf(k))
  IN  IF v = None THEN None ELSE BytesToInt(v)

-----------------------------------------------------------------------------
(* What the tree under a reference holds: read level by level off all of its *)
(* nodes, and not by a walk of the code                                      *)

\* The ways down from a node, and the chunks on them.
Ways(node) ==
  CASE node.type = "internal"  -> {[chunks |-> <<c>>, ref |-> node.children[c]]
                                    : c \in {d \in Chunks : node.children[d] # None}}
    [] node.type = "extension" -> {[chunks |-> node.stem, ref |-> node.child]}
    [] node.type = "suffix"    -> {}

\* The values at a node itself, and the chunk before each.
Slots(node) ==
  IF node.type = "suffix"
  THEN {[chunks |-> <<c>>, value |-> node.children[c]] : c \in {d \in Chunks : node.children[d] # None}}
  ELSE {}

\* The places one level below the given ones, each the chunks on the way to it
\* and the reference there, and the paths and values at them.
Deeper(store, places) ==
  UNION {{[chunks |-> place.chunks \o way.chunks, ref |-> way.ref]
            : way \in Ways(Decode(store[place.ref]))}
          : place \in {pl \in places : pl.ref \in DOMAIN store}}

HeldAt(store, places) ==
  UNION {{[chunks |-> place.chunks \o e.chunks, value |-> e.value]
            : e \in Slots(Decode(store[place.ref]))}
          : place \in {pl \in places : pl.ref \in DOMAIN store}}

Level(store, ref) ==
  LET level[n \in Nat] == IF n = 0 THEN {[chunks |-> <<>>, ref |-> ref]}
                          ELSE Deeper(store, level[n - 1])
  IN  level

\* The paths and values in the tree under ref.  A tree has an internal node for
\* each chunk of a stem at most, an extension and a suffix node.
Pairs(store, ref) == UNION {HeldAt(store, Level(store, ref)[n]) : n \in 0..NumChunks}

MapOf(S) ==
  [k \in Keys |-> IF \E e \in S : e.chunks = KeyChunks(k)
                  THEN (CHOOSE e \in S : e.chunks = KeyChunks(k)).value ELSE None]

\* S is bound, not defined, so that TLC reads the nodes once.
Contents(ref) == CHOOSE map \in {MapOf(S) : S \in {Pairs(db, ref)}} : TRUE

-----------------------------------------------------------------------------
(* A tree is determined by what it holds: the reference definition, from a  *)
(* non-empty set of paths and values and not from a sequence of inserts     *)

Below(S, c) ==
  {[chunks |-> From(e.chunks, 1), value |-> e.value] : e \in {f \in S : f.chunks[1] = c}}

\* The stems of a set of paths and the values under the chunks after them.
Stems(S) == {Front(e.chunks) : e \in S}

ValuesIn(S) ==
  [c \in Chunks |-> IF \E e \in S : Last(e.chunks) = c
                    THEN (CHOOSE e \in S : Last(e.chunks) = c).value ELSE None]

\* The reference for a non-empty set of paths of at most n stem chunks.
CanonicalRef(S) ==
  LET ref[n \in Nat] ==
        [T \in SUBSET [chunks : Seq(Chunks), value : Values] |->
           LET stem == CHOOSE s \in Stems(T) : TRUE
           IN  IF n = 0 \/ Stems(T) = {stem}
               THEN Reference(Extension(stem, Reference(Suffix(ValuesIn(T)))))
               ELSE Reference(Internal([c \in Chunks |->
                      IF Below(T, c) = {} THEN None ELSE ref[n - 1][Below(T, c)]]))]
  IN  ref[NumChunks][S]

\* The root is an internal node even over a single stem.
CanonicalRoot(S) ==
  Reference(Internal([c \in Chunks |->
    IF Below(S, c) = {} THEN None ELSE CanonicalRef(Below(S, c))]))

-----------------------------------------------------------------------------
(* Properties *)

\* The commitment under which a node is stored commits to the node that is
\* read back: serialization loses nothing that the commitment holds.
CommitmentsMatch == \A ref \in DOMAIN db : Reference(Decode(db[ref])) = ref

\* Whatever the order of the inserts and wherever crashes cut them short, the
\* tree is the canonical one of what it holds: the splits of insert leave no
\* trace of its history.
RootIsCanonical ==
  \A ref \in {RootRef, rootFile} \ {None, Truncated} : ref = CanonicalRoot(Pairs(db, ref))

\* get returns the integer of the value of a key the tree holds, None else.
GetIsExact ==
  pc = "ready" =>
    \A k \in Keys : LET v == Contents(RootRef)[k]
                    IN  Get(k) = IF v = None THEN None ELSE BytesToInt(v)

\* The tree, its database and its root file implement DurableMap, as the
\* Merkle trie's do: an insert changes its own key only, takes effect when the
\* root is replaced, and a crash keeps one of the two maps around the running
\* insert, or, while the root file is truncated, none.
Map == INSTANCE DurableMap WITH
  Absent  <- None,
  Nothing <- NoOp,
  map     <- Contents(RootRef),
  saved   <- Contents(rootFile),
  stage   <- CASE pc = "ready" -> "idle"
               [] pc \in {"walk", "commit"} -> "called"
               [] pc = "open"  -> "assigned"
               [] pc = "write" -> "saving"
               [] pc = "down"  -> "down",
  request <- op

ImplementsDurableMap == Map!MapSpec

=============================================================================
