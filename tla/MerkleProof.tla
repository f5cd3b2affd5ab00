---------------------------- MODULE MerkleProof -----------------------------
(***************************************************************************)
(* Proofs over the trie of MptRead: what prover/merkle_proof.py and        *)
(* prover/merkle_proof_optimized.py send and what verifier/                *)
(* merkle_verification.py and verifier/merkle_verification_optimized.py    *)
(* accept.  Both sides are pure functions of the trie and of the message,  *)
(* so they are operators over the state of MerklePatriciaTrie; a node      *)
(* stands for its encoding.                                                *)
(***************************************************************************)
EXTENDS MptRead

-----------------------------------------------------------------------------
(* The provers *)

\* The digest of the empty trie.
EmptyHash == [len |-> 32, of |-> EmptyBytes]

\* root_hash: a root that is in-place is hashed first.
RootHash(ref) == IF ref \in NoNode THEN EmptyHash ELSE [len |-> 32, of |-> ref.of]

\* One path for each key; the first key that is not found ends the call.
GenerateProof(keys) ==
  LET paths == [i \in DOMAIN keys |-> ProofTree(rootRef, keys[i])]
  IN  IF \E i \in DOMAIN keys : paths[i] = KeyError THEN KeyError
      ELSE [commitments |-> paths, witness |-> RootHash(rootRef)]

\* A list to which those nodes of a path are added that it has not got.
Listed(list, nodes) ==
  LET upto[n \in 0..Len(nodes)] ==
        IF n = 0 THEN list
        ELSE IF Contains(upto[n - 1], nodes[n]) THEN upto[n - 1]
        ELSE Append(upto[n - 1], nodes[n])
  IN  upto[Len(nodes)]

\* node_list: every node of the paths once, in the order of first use.
NodeList(paths) ==
  LET upto[i \in 0..Len(paths)] ==
        IF i = 0 THEN <<>> ELSE Listed(upto[i - 1], paths[i])
  IN  upto[Len(paths)]

IndexOf(list, node) == CHOOSE i \in DOMAIN list : list[i] = node

\* The deduplicated proof: the nodes, and for each key the indices of its path.
GenerateOptimized(keys) ==
  LET proof == GenerateProof(keys)
  IN  IF proof = KeyError THEN KeyError
      ELSE LET list == NodeList(proof.commitments)
           IN [nodes   |-> list,
               indices |-> [i \in DOMAIN keys |->
                             [j \in DOMAIN proof.commitments[i] |->
                               IndexOf(list, proof.commitments[i][j])]],
               witness |-> proof.witness]

-----------------------------------------------------------------------------
(* The verifiers *)

\* The reference at which the i-th node goes on names the next node of the
\* proof; nothing is checked at the last one.
NextMatches(nodes, i, ref) == i < Len(nodes) => ref = IntoReference(nodes[i + 1])

\* The key's digits that the nodes before the i-th leave.
Rest(nodes, p) ==
  LET rest[n \in Nat] ==
        IF n = 0 THEN p
        ELSE IF nodes[n].type = "extension" THEN Consume(rest[n - 1], Len(nodes[n].path))
        ELSE Consume(rest[n - 1], 1)
  IN  rest

\* A turn of the loop of _verify_single_proof, at the i-th node with the digits
\* p left: the loop goes on,
TurnGoesOn(nodes, i, p) ==
  LET node == nodes[i] IN
  \/ /\ node.type = "extension"
     /\ StartsWith(p, node.path)
     /\ NextMatches(nodes, i, node.next)
  \/ /\ node.type = "branch" /\ p # <<>>
     /\ node.branches[p[1]] # EmptyBytes
     /\ NextMatches(nodes, i, node.branches[p[1]])

\* or it ends and accepts the value.
TurnAccepts(node, p, v) ==
  /\ node.type \in {"leaf", "branch"} /\ node.data = v
  /\ p = IF node.type = "leaf" THEN node.path ELSE <<>>

\* Past the last node the loop ends and the proof is refused.
LoopAccepts(nodes, p, v) ==
  \E i \in DOMAIN nodes :
    /\ TurnAccepts(nodes[i], Rest(nodes, p)[i - 1], v)
    /\ \A j \in 1..(i - 1) : TurnGoesOn(nodes, j, Rest(nodes, p)[j - 1])

\* Mutation of FirstMatches: the root is left to the comparison of the witness.
FirstMatchesAny(nodes, root) == nodes # <<>>

\* The first node must hash to the root, if it is long enough to be hashed.
FirstMatches(nodes, root) ==
  LET ref == IntoReference(nodes[1]) IN ref.len = 32 => ref = root

VerifySingle(nodes, k, v, root) ==
  /\ nodes # <<>>
  /\ FirstMatches(nodes, root)
  /\ LoopAccepts(nodes, k, v)

\* zip stops at the shorter of the paths and the keys.
VerifyProof(values, keys, root, proof) ==
  /\ proof.witness = root
  /\ \A i \in DOMAIN proof.commitments \cap DOMAIN keys :
       VerifySingle(proof.commitments[i], keys[i], values[i], root)

\* Mutation of Reconstruct: the path recorded last is taken for every key.
ReconstructLast(keys, proof, i) ==
  LET last == Len(keys)
  IN  [n \in DOMAIN proof.indices[last] |-> proof.nodes[proof.indices[last][n]]]

\* The path of a key is the one recorded last for it.
Reconstruct(keys, proof, i) ==
  LET last == CHOOSE j \in DOMAIN keys :
                keys[j] = keys[i] /\ \A m \in DOMAIN keys : keys[m] = keys[i] => m <= j
  IN  [n \in DOMAIN proof.indices[last] |-> proof.nodes[proof.indices[last][n]]]

VerifyOptimized(values, keys, root, proof) ==
  /\ proof.witness = root
  /\ \A i \in DOMAIN keys :
       VerifySingle(Reconstruct(keys, proof, i), keys[i], values[i], root)

-----------------------------------------------------------------------------
(* Properties *)

\* The lists of keys the drivers ask for, up to two keys and repeats among them.
KeyLists == {<<k>> : k \in Keys} \cup {<<k, l>> : k, l \in Keys}

Present(k) == Contents(rootRef)[k] # EmptyBytes

\* prove_verify.py asserts that the proof it just generated verifies: for any
\* present keys, against the root a verifier is given, with their values.
HonestProofsVerify ==
  pc = "ready" =>
    \A keys \in KeyLists : (\A i \in DOMAIN keys : Present(keys[i])) =>
      LET proof  == GenerateProof(keys)
          values == [i \in DOMAIN keys |-> Contents(rootRef)[keys[i]]]
      IN  proof # KeyError /\ VerifyProof(values, keys, rootValue, proof)

\* A path that was taken out of this trie at any time, for any key and from any
\* of its nodes down, is accepted for a key and a value only if the trie with
\* this root holds that value: a stale path is refused, and so is a path for
\* another key, whether or not the key is present.
VerifiedValuesAreHeld ==
  pc = "ready" /\ rootValue \notin NoNode =>
    \A ref \in db, k, l \in Keys :
      LET nodes == ProofTree(ref, k)
      IN  nodes # KeyError =>
            \A v \in Values : VerifySingle(nodes, l, v, rootValue) => Contents(rootRef)[l] = v

\* The deduplicated proof sends each node once, stands for the same paths, and
\* its verifier decides as the plain one does, also for a wrong value.
OptimizedAgrees ==
  pc = "ready" =>
    \A keys \in KeyLists :
      LET proof == GenerateProof(keys)
          dedup == GenerateOptimized(keys)
      IN  /\ proof = KeyError <=> dedup = KeyError
          /\ proof # KeyError =>
               /\ IsInjective(dedup.nodes)
               /\ \A i \in DOMAIN keys :
                    Reconstruct(keys, dedup, i) = proof.commitments[i]
               /\ \A values \in [DOMAIN keys -> Values] :
                    VerifyOptimized(values, keys, rootValue, dedup)
                      <=> VerifyProof(values, keys, rootValue, proof)

=============================================================================
