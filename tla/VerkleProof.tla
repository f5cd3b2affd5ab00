---------------------------- MODULE VerkleProof -----------------------------
(***************************************************************************)
(* Proofs over the Verkle tree: what prover/verkle_proof.py,               *)
(* verkle_proof_optimized.py and verkle_multiproof.py send and what their  *)
(* verifiers accept.                                                       *)
(*                                                                         *)
(* A witness is a sum of quotient polynomials, each times a factor hashed  *)
(* from the root, the key's path and the level; the pairing check compares *)
(* it with the same sum over the openings the verifier expects.  With      *)
(* factors that nobody can make cancel, the two agree when they are about  *)
(* the same openings, each under its own factor, and every expected leaf   *)
(* is what the commitment holds at that index.  So a witness is modelled   *)
(* by the set of its openings.  No factor occurs twice: the drivers ask    *)
(* for the keys of a dictionary, which differ.                             *)
(***************************************************************************)
EXTENDS VerkleRead

CONSTANT Raised  \* the call ended in an exception

-----------------------------------------------------------------------------
(* Openings *)

Opening(k, level, comm, idx) == [key |-> k, level |-> level, comm |-> comm, idx |-> idx]

\* commit_extension: [1, stem, child, 0] and zeros.
ExtensionSlot(ref, idx) ==
  CASE idx = 0 -> <<1>>
    [] idx = 1 -> <<"stem", ref[2], "">>
    [] idx = 2 -> ref[3]
    [] OTHER   -> <<0>>

\* What the vector under a commitment holds at an index.
Opened(comm, idx) == IF comm[1] = "extension" THEN ExtensionSlot(comm, idx) ELSE comm[2][idx]

\* The pairing check: expected is a set of openings, each with its leaf.
PairingHolds(expected, witness) ==
  /\ {e.opening : e \in expected} = witness
  /\ \A e \in expected : Opened(e.opening.comm, e.opening.idx) = e.leaf

\* A key as the walks of provers and verifiers use it: the stem and the suffix
\* as chunks of the tree's width, or as the bytes of the key.
ByChunks(k) == [stem |-> StemOf(k), suffix |-> SuffixOf(k)]
ByBytes(k)  == [stem |-> Front(KeyBytes(k)), suffix |-> Last(KeyBytes(k))]

\* The index opened at the level-th node of a walk, counted from 0.
IndexAt(node, split, level) ==
  CASE node.type = "internal"  -> split.stem[level + 1]
    [] node.type = "extension" -> 2
    [] node.type = "suffix"    -> split.suffix

\* The openings of one key along the nodes of a walk.
OpeningsAlong(k, split, nodes) ==
  {Opening(k, n - 1, Reference(nodes[n].node), IndexAt(nodes[n].node, split, n - 1))
     : n \in DOMAIN nodes}

-----------------------------------------------------------------------------
(* The walks, in places of VerkleRead *)

\* get_proof_tree, the root included: it stops where the key's path stops.
ProofWalk(stem) == [n \in 1..(Turns(stem) + 1) |-> Walk(stem)[n - 1]]

\* The loops of the other provers: the stem of an extension is not compared.
\* An index that is no chunk of the tree's width raises.
InRange(at, stem) == at.depth < Len(stem) /\ stem[at.depth + 1] \in Chunks

LooseGoesOn(at, stem) ==
  \/ /\ at.node.type = "internal" /\ InRange(at, stem)
     /\ at.node.children[stem[at.depth + 1]] # None
  \/ at.node.type = "extension"

LooseTurns(stem) ==
  CHOOSE n \in 0..NumChunks :
    /\ ~LooseGoesOn(Walk(stem)[n], stem)
    /\ \A m \in 0..(n - 1) : LooseGoesOn(Walk(stem)[m], stem)

LooseWalk(split) ==
  LET last == Walk(split.stem)[LooseTurns(split.stem)]
  IN  IF \/ last.node.type = "internal" /\ ~InRange(last, split.stem)
         \/ last.node.type = "suffix" /\ split.suffix \notin Chunks
      THEN Raised
      ELSE [n \in 1..(LooseTurns(split.stem) + 1) |-> Walk(split.stem)[n - 1]]

Refs(nodes) == [n \in DOMAIN nodes |-> nodes[n].ref]

-----------------------------------------------------------------------------
(* verkle: commitments for each key and one witness *)

\* The second walk of generate_proof raises when it loads an empty slot.
GenerateProof(keys) ==
  LET walks == [i \in DOMAIN keys |-> ProofWalk(StemOf(keys[i]))]
  IN  IF \E i \in DOMAIN keys : Last(walks[i]).node.type = "internal" THEN Raised
      ELSE [commitments |-> [i \in DOMAIN keys |-> Tail(Refs(walks[i]))],
            witness     |-> UNION {OpeningsAlong(keys[i], ByChunks(keys[i]), walks[i])
                                     : i \in DOMAIN keys}]

\* Mutation of IndexByLevel: the extension is taken for an internal node.
IndexByLevelInternal(split, level, last) ==
  IF level = last THEN split.suffix ELSE split.stem[level + 1]

\* The verifier tells the kinds of the nodes by their place in the path.
IndexByLevel(split, level, last) ==
  CASE level = last     -> split.suffix
    [] level = last - 1 -> 2
    [] OTHER            -> split.stem[level + 1]

\* Mutation of LeafAt: the value is left to the prover.
LeafAtOpened(c, comm, idx, level, value) ==
  IF level < Len(c) THEN c[level + 1] ELSE Opened(comm, idx)

\* The next commitment, hashed, and at the last level the value.
LeafAt(c, comm, idx, level, value) ==
  IF level < Len(c) THEN c[level + 1] ELSE FieldOfValue(value)

\* The openings the verifier expects of one key, given its commitments.
ExpectedOf(k, split, value, rootComm, c) ==
  LET comm(level)  == IF level = 0 THEN rootComm ELSE c[level]
      index(level) == IndexByLevel(split, level, Len(c))
  IN  {[opening |-> Opening(k, level, comm(level), index(level)),
        leaf    |-> LeafAt(c, comm(level), index(level), level, value)] : level \in 0..Len(c)}

VerifyProof(values, keys, rootComm, proof) ==
  PairingHolds(UNION {ExpectedOf(keys[i], ByChunks(keys[i]), values[i], rootComm,
                                 proof.commitments[i]) : i \in DOMAIN keys},
               proof.witness)

-----------------------------------------------------------------------------
(* verkle_optimized: each commitment once, keys cut into bytes *)

\* A list to which those of some references are added that it has not got.
Listed(list, refs) ==
  LET upto[n \in 0..Len(refs)] ==
        IF n = 0 THEN list
        ELSE IF Contains(upto[n - 1], refs[n]) THEN upto[n - 1]
        ELSE Append(upto[n - 1], refs[n])
  IN  upto[Len(refs)]

\* Mutation of CommitmentList: the root's commitment is in the list as well.
CommitmentListWithRoot(walks) ==
  LET upto[i \in 0..Len(walks)] ==
        IF i = 0 THEN <<>> ELSE Listed(upto[i - 1], Refs(walks[i]))
  IN  upto[Len(walks)]

\* The list goes on from one key to the next.
CommitmentList(walks) ==
  LET upto[i \in 0..Len(walks)] ==
        IF i = 0 THEN <<>> ELSE Listed(upto[i - 1], Tail(Refs(walks[i])))
  IN  upto[Len(walks)]

GenerateOptimized(keys) ==
  LET walks == [i \in DOMAIN keys |-> LooseWalk(ByBytes(keys[i]))]
  IN  IF \E i \in DOMAIN keys : walks[i] = Raised THEN Raised
      ELSE LET list == CommitmentList(walks)
               index(ref) == CHOOSE n \in DOMAIN list : list[n] = ref
           IN [commitments |-> list,
               indices     |-> [i \in DOMAIN keys |->
                                 [n \in 1..(Len(walks[i]) - 1) |-> index(walks[i][n + 1].ref)]],
               witness     |-> UNION {OpeningsAlong(keys[i], ByBytes(keys[i]), walks[i])
                                        : i \in DOMAIN keys}]

VerifyOptimized(values, keys, rootComm, proof) ==
  PairingHolds(UNION {ExpectedOf(keys[i], ByBytes(keys[i]), values[i], rootComm,
                                 [n \in DOMAIN proof.indices[i] |->
                                   proof.commitments[proof.indices[i][n]]]) : i \in DOMAIN keys},
               proof.witness)

-----------------------------------------------------------------------------
(* verkle_multiproof: the path of each key spelled out *)

\* A step of a path: what is opened and, except at the end, its value.
TraversalStep(at, idx) ==
  [comm |-> at.ref, idx |-> idx, type |-> at.node.type,
   child |-> CASE at.node.type = "internal"  -> FieldOfChild(at.node.children[idx])
               [] at.node.type = "extension" -> FieldOfChild(at.node.child)
               [] at.node.type = "suffix"    -> FieldOfValue(at.node.children[idx])]

GenerateMultiproof(keys) ==
  LET walks == [i \in DOMAIN keys |-> LooseWalk(ByChunks(keys[i]))]
  IN  [traversals |-> [i \in DOMAIN keys |->
                        [n \in DOMAIN walks[i] |->
                          TraversalStep(walks[i][n],
                            IndexAt(walks[i][n].node, ByChunks(keys[i]), n - 1))]],
       witness    |-> UNION {OpeningsAlong(keys[i], ByChunks(keys[i]), walks[i])
                               : i \in DOMAIN keys}]

StepLeaf(step, value) == IF step.type = "suffix" THEN FieldOfValue(value) ELSE step.child

VerifyMultiproof(values, keys, proof) ==
  PairingHolds(UNION {{[opening |-> Opening(keys[i], n - 1, proof.traversals[i][n].comm,
                                            proof.traversals[i][n].idx),
                        leaf    |-> StepLeaf(proof.traversals[i][n], values[i])]
                         : n \in DOMAIN proof.traversals[i]} : i \in DOMAIN keys},
               proof.witness)

-----------------------------------------------------------------------------
(* Properties *)

\* The lists of keys the drivers ask for, up to two of them.
KeyLists == {<<k>> : k \in Keys} \cup {<<p[1], p[2]>> : p \in {q \in Keys \X Keys : q[1] # q[2]}}

Held(keys) == [i \in DOMAIN keys |-> Contents(RootRef)[keys[i]]]

AllPresent(keys) == \A i \in DOMAIN keys : Contents(RootRef)[keys[i]] # None

Ready == pc = "ready" /\ RootRef # None

\* prove_verify.py asserts that the proof it just generated verifies: for any
\* present keys, with their values, against the root in memory, the plain proof
\* and the multiproof.
HonestProofsVerify ==
  Ready => \A keys \in KeyLists : AllPresent(keys) =>
             LET proof == GenerateProof(keys)
             IN  /\ proof # Raised
                 /\ VerifyProof(Held(keys), keys, RootRef, proof)
                 /\ VerifyMultiproof(Held(keys), keys, GenerateMultiproof(keys))

\* A proof generated for any keys, present or not, is accepted with no other
\* values than the tree holds: a path that ends early, at another key's
\* extension or at an empty slot, convinces nobody.  Of the multiproof this holds
\* for present keys; for an absent one its path has no place where the value is
\* looked at.
VerifiedValuesAreHeld ==
  Ready => \A keys \in KeyLists :
             LET proof == GenerateProof(keys)
                 multi == GenerateMultiproof(keys)
             IN  \A values \in [DOMAIN keys -> Values] :
                   \/ proof # Raised /\ VerifyProof(values, keys, RootRef, proof)
                   \/ AllPresent(keys) /\ VerifyMultiproof(values, keys, multi)
                   => values = Held(keys)

\* The deduplicated proof of present keys sends every commitment once and never
\* the root's, which the verifier has, and is accepted as the plain one is.
OptimizedAgrees ==
  Ready => \A keys \in KeyLists : AllPresent(keys) =>
             LET proof == GenerateProof(keys)
                 dedup == GenerateOptimized(keys)
             IN  /\ dedup # Raised
                 /\ IsInjective(dedup.commitments)
                 /\ RootRef \notin ToSet(dedup.commitments)
                 /\ \A values \in [DOMAIN keys -> Values] :
                      VerifyOptimized(values, keys, RootRef, dedup)
                        <=> VerifyProof(values, keys, RootRef, proof)

=============================================================================
