---------------------- MODULE MerklePatriciaTrieProps -----------------------
(***************************************************************************)
(* The properties of MerklePatriciaTrie that are stated on its variables   *)
(* alone.  They are checked by TLC and proved in MerklePatriciaTrieProofs. *)
(***************************************************************************)
EXTENDS MerklePatriciaTrie

\* The references in use: the digests in the database and the in-place
\* references that stored nodes carry.
InPlaceRefs == {c \in UNION {Children(ref.of) : ref \in db} : c.len # 32}
References  == db \cup InPlaceRefs

\* A pending call of _update: at an extension, or at one slot of a branch.
Frames == [node : {ref.of : ref \in db}]
            \cup [node : {ref.of : ref \in db}, slot : Nibbles]

\* Every variable has its type; a stored node holds its children by reference
\* (node.py) and a frame of the recursion is a node read from the database.
TypeOK ==
  /\ db \subseteq [len : {32}, of : Nodes(References)]
  /\ pc \in {"ready", "update", "store", "return", "open", "write", "down"}
  /\ op \in [key : Keys, value : Values] \cup {NoOp}
  /\ path \in Path
  /\ stack \in Seq(Frames)
  /\ inserts \in 0..MaxInserts /\ crashes \in 0..MaxCrashes

-----------------------------------------------------------------------------

\* A reference can be followed: it is in the database, or it is in-place and
\* carries its node.
Resolves(ref) == ref.len = 32 => ref \in db

\* merkle_tree.py stores a node only after the nodes it refers to, and assigns
\* and saves the root last: wherever a crash falls, no node in the database,
\* no root in memory and no root in the file refers to a node that is missing.
StoreClosed ==
  /\ \A ref \in db : \A c \in Children(ref.of) : Resolves(c)
  /\ \A ref \in {rootRef, rootFile} \ NoNode : Resolves(ref)

\* Splitting and re-parenting in _update never stores a node out of shape.
StoreCompressed == \A ref \in db : Compressed(ref.of)

\* Between calls of insert the three copies of the root agree: the one the
\* prover walks from (_root_ref), the one the verifier is given (root.value)
\* and the one the next process starts from (the file).
RootsAgree == pc = "ready" => rootRef = rootFile /\ rootValue = rootFile

=============================================================================
