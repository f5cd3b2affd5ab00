-------------------------- MODULE VerkleTreeProps ---------------------------
(***************************************************************************)
(* The properties of VerkleTree that are stated on its variables alone.    *)
(* They are checked by TLC and proved in VerkleTreeProofs.                 *)
(***************************************************************************)
EXTENDS VerkleTree

\* The root's value: its reference as of the last insert that came to its end.
RootRef == IF root = None THEN None ELSE root.value

\* verkle_tree.py commits and stores a node only after its children, and the
\* root last of all: wherever a crash falls, no node in the database and no
\* root refers to a node that is missing, or of a kind that _make_tree_node's
\* caller does not expect there.
StoreClosed ==
  LET Is(ref, kinds) == ref \in DOMAIN db /\ db[ref].type \in kinds
  IN  /\ \A ref \in DOMAIN db :
           CASE db[ref].type = "internal" ->
                  \A c \in Chunks : \/ db[ref].children[c] = None
                                    \/ Is(db[ref].children[c], {"internal", "extension"})
             [] db[ref].type = "extension" -> Is(db[ref].child, {"suffix"})
             [] OTHER -> TRUE
      /\ \A ref \in {RootRef, rootFile} \ {None, Truncated} : Is(ref, {"internal"})

\* insert reads stem[depth] at every internal node of its walk: the path never
\* outruns the stem, not even over nodes that were stored for another path, or
\* over an extension whose stem lost leading zeros to one of the same
\* commitment.
WalkHasChunks == pc = "walk" /\ Node.type = "internal" => NewStem # <<>>

=============================================================================
