---------------------------- MODULE StarkLookup -----------------------------
(***************************************************************************)
(* One lookup proved by prover/stark_merkle.py and checked by              *)
(* verifier/stark_verification.py, with the transcript, the commitments    *)
(* and the folding of zkSTARK/ that both are built from.                   *)
(*                                                                         *)
(* The interaction is folded into a transcript: prover and verifier absorb *)
(* the same messages into a hash and take the challenges from it.  The     *)
(* hash is modelled as a random function that is fixed bit by bit: a query *)
(* not made before gets any outcome, one made before gets the same again.  *)
(* So the verifier sees the prover's challenges exactly when it has        *)
(* absorbed what the prover had.                                           *)
(*                                                                         *)
(* A node of the trie's proof is its size, all that the circuit looks at,  *)
(* and its hash as a field element.  Arrays start at 0 as in the code.     *)
(***************************************************************************)
EXTENDS GoldilocksField

CONSTANTS
  Lookups,       \* what is proved: [nodes, key, value, security, length]
  Params,        \* security bits |-> [blowup, queries]
  MinSecurity,   \* 80 in the code
  MinQueries,    \* 20 in the code
  FinalBound,    \* the folding stops at this size; 16 in the code
  HashValues,    \* the field elements that challenge may return
  HashNumbers,   \* the numbers that challenge_bytes may return
  MaxAttempts,   \* bound on the draws for one list of query indices
  Nothing        \* not computed yet

ASSUME LookupAssumption ==
  /\ FinalBound \in Nat \ {0} /\ MaxAttempts \in Nat
  /\ HashValues \subseteq Field /\ HashNumbers \subseteq Nat
  /\ \A l \in Lookups : l.security \in DOMAIN Params /\ l.length \in Nat \ {0}

VARIABLES
  build,       \* how field.py is compiled
  hash,        \* the outcomes of the hash function so far
  pc,          \* the step prover or verifier is at
  lookup,      \* what is being proved
  transcript,  \* the prover's: what it absorbed, and its challenge_count
  columns,     \* trace_lde, one array for each register
  poly,        \* the polynomial being folded
  drawn,       \* the numbers drawn for the query indices
  proof,       \* what the verifier is given
  replay,      \* the verifier's transcript
  verdict

vars == <<build, hash, pc, lookup, transcript, columns, poly, drawn, proof, replay, verdict>>

Empty == [log |-> <<>>, count |-> 0]

Init ==
  /\ build \in Builds
  /\ hash = << >>
  /\ pc = "idle" /\ lookup = Nothing
  /\ transcript = Empty /\ replay = Empty
  /\ columns = Nothing /\ poly = Nothing /\ drawn = <<>>
  /\ proof = Nothing /\ verdict = Nothing

Size(array) == Cardinality(DOMAIN array)

IsPowerOfTwo(n) == \E m \in 0..n : n = 2^m

-----------------------------------------------------------------------------
(* The execution trace *)

Registers == 0..7

SizeOf(node) == node.size

\* _detect_node_type: 0 for a branch, 1 for an extension, 2 for a leaf, from
\* the length alone: over 100 bytes, over 32 bytes, or less.
NodeType(node) == CASE SizeOf(node) = "large" -> 0
                    [] SizeOf(node) = "medium" -> 1
                    [] SizeOf(node) = "small" -> 2

\* The position on the key's path when the i-th node is entered.
PathPos(l, i) ==
  FoldLeft(LAMBDA pos, n :
             CASE NodeType(n) = 0 -> IF pos < Len(l.key) THEN pos + 1 ELSE pos
               [] NodeType(n) = 1 -> pos + 1
               [] NodeType(n) = 2 -> pos,
           0, SubSeq(l.nodes, 1, i - 1))

NodeRow(l, i) ==
  LET type == NodeType(l.nodes[i])
      pos  == PathPos(l, i)
  IN  [r \in Registers |->
        CASE r = 0 -> l.nodes[i].hash
          [] r = 2 -> pos
          [] r = 3 /\ type = 2 -> 1
          [] r = 4 /\ type = 0 /\ pos < Len(l.key) -> l.key[pos + 1]
          [] r = 5 -> type
          [] r = 6 /\ type = 2 -> l.value
          [] r = 7 /\ type = 1 -> 1
          [] OTHER -> 0]

StartRow(l) ==
  [r \in Registers |-> IF r = 0 /\ l.nodes # <<>> THEN l.nodes[1].hash ELSE 0]

\* The length of the trace, rounded up to a power of two.
Steps(l) == CHOOSE n \in l.length..(2 * l.length) : IsPowerOfTwo(n)

\* generate_trace: a row for each node, as far as there are rows, and copies
\* of the last one in which the value counts as found.
GenerateTrace(l) ==
  LET last == IF Len(l.nodes) < Steps(l) THEN Len(l.nodes) ELSE Steps(l) - 1
      row(s) == IF s = 0 THEN StartRow(l) ELSE NodeRow(l, s)
  IN  [s \in 0..(Steps(l) - 1) |-> IF s <= last THEN row(s) ELSE [row(last) EXCEPT ![3] = 1]]

\* _validate_trace; of the constraints only those at the boundary are checked.
ValidTrace(trace) ==
  /\ IsPowerOfTwo(Size(trace))
  /\ trace[0][2] = 0 /\ trace[0][3] = 0
  /\ trace[Size(trace) - 1][3] = 1

-----------------------------------------------------------------------------
(* Commitments: Merkle trees whose hashes are the nodes themselves *)

NextLayer(layer) ==
  [i \in 0..(Size(layer) \div 2 - 1) |-> [left |-> layer[2 * i], right |-> layer[2 * i + 1]]]

\* The layers of the tree over a power of two of leaves, the root's last.
Tree(leaves) ==
  FoldLeft(LAMBDA layers, m : Append(layers, NextLayer(Last(layers))),
           <<leaves>>, [m \in 1..Log2(Size(leaves)) |-> m])

Root(leaves) == Last(Tree(leaves))[0]

Leaves(p) == [i \in DOMAIN p |-> [leaf |-> p[i]]]

RowAt(cols, i) == [r \in DOMAIN cols |-> cols[r][i]]

Rows(cols) == [i \in DOMAIN cols[0] |-> [row |-> RowAt(cols, i)]]

Sibling(i) == IF i % 2 = 0 THEN i + 1 ELSE i - 1

\* Mutation of AuthPath: the nodes on the way instead of their siblings.
AuthPathSelf(leaves, i) ==
  [m \in 1..Log2(Size(leaves)) |-> Tree(leaves)[m][i \div 2^(m - 1)]]

\* get_query_response: the siblings on the way from a leaf to the root.
AuthPath(leaves, i) ==
  [m \in 1..Log2(Size(leaves)) |-> Tree(leaves)[m][Sibling(i \div 2^(m - 1))]]

\* verify_query.
VerifyPath(root, i, leaf, path) ==
  root = FoldLeft(LAMBDA at, sibling :
                    [node |-> IF at.i % 2 = 1 THEN [left |-> sibling, right |-> at.node]
                              ELSE [left |-> at.node, right |-> sibling],
                     i    |-> at.i \div 2],
                  [node |-> leaf, i |-> i], path).node

-----------------------------------------------------------------------------
(* The transcript *)

Absorb(t, messages) == [t EXCEPT !.log = @ \o messages]

\* The hash of a transcript, a label and the count is x, one of S.
Hashed(t, label, S, x) ==
  LET query == [log |-> t.log, label |-> label, count |-> t.count]
  IN  /\ x \in IF query \in DOMAIN hash THEN {hash[query]} ELSE S
      /\ hash' = [q \in DOMAIN hash \cup {query} |-> IF q = query THEN x ELSE hash[q]]

\* challenge: a field element; the label and the count are absorbed.
Challenged(t, label) ==
  [log |-> Append(t.log, [challenge |-> <<label, t.count>>]), count |-> t.count + 1]

\* challenge_bytes: a number; the number is absorbed.
ChallengedBytes(t, x) ==
  [log |-> Append(t.log, [bytes |-> x]), count |-> t.count + 1]

\* challenge_indices: the distinct indices among the numbers drawn, sorted.
Indices(numbers, size) == {x % size : x \in ToSet(numbers)}

Sorted(S) ==
  [m \in 1..Cardinality(S) |-> CHOOSE i \in S : Cardinality({j \in S : j < i}) = m - 1]

PublicInputs(l) ==
  << [public_key |-> l.key], [public_value |-> l.value],
     [public_root |-> IF l.nodes = <<>> THEN Nothing ELSE l.nodes[1]] >>

-----------------------------------------------------------------------------
(* The prover *)

Queries(l) == Params[l.security].queries
Blowup(l)  == Params[l.security].blowup

\* prove_lookup: a trace that is not valid raises.
Prove(l) ==
  /\ pc = "idle"
  /\ lookup' = l
  /\ pc' = IF ValidTrace(GenerateTrace(l)) THEN "commit" ELSE "raised"
  /\ UNCHANGED <<build, hash, transcript, columns, poly, drawn, proof, replay, verdict>>

CommitTrace ==
  LET trace == GenerateTrace(lookup)
  IN  /\ pc = "commit"
      /\ columns' = [r \in Registers |->
                      ComputeLde(build, [s \in DOMAIN trace |-> trace[s][r]],
                                 Steps(lookup), Blowup(lookup))]
      /\ proof' = [trace_commitment |-> Root(Rows(columns')),
                   layers |-> <<>>, final |-> Nothing, responses |-> <<>>]
      /\ transcript' = Absorb(transcript, PublicInputs(lookup)
                                \o <<[trace_commitment |-> proof'.trace_commitment]>>)
      /\ pc' = "alpha"
      /\ UNCHANGED <<build, hash, lookup, poly, drawn, replay, verdict>>

\* The columns, each times the next power of alpha.
Composition(alpha) ==
  [i \in DOMAIN columns[0] |->
    FoldLeft(LAMBDA s, r :
               [sum   |-> FieldAdd(s.sum, FieldMul(build, s.power, columns[r][i])),
                power |-> FieldMul(build, s.power, alpha)],
             [sum |-> 0, power |-> 1], [r \in 1..8 |-> r - 1]).sum]

DrawAlpha ==
  /\ pc = "alpha"
  /\ \E alpha \in HashValues :
       /\ Hashed(transcript, <<"alpha", 0>>, HashValues, alpha)
       /\ poly' = Composition(alpha)
  /\ transcript' = Challenged(transcript, <<"alpha", 0>>)
  /\ pc' = "fold"
  /\ UNCHANGED <<build, lookup, columns, drawn, proof, replay, verdict>>

\* _fold_polynomial: the two halves, the second times alpha.
Fold(p, alpha) ==
  [i \in 0..(Size(p) \div 2 - 1) |->
    FieldAdd(p[i], FieldMul(build, alpha, p[i + Size(p) \div 2]))]

\* A layer of FRIProver.prove: commit, take a challenge, fold.
FoldLayer ==
  /\ pc = "fold" /\ Size(poly) > FinalBound
  /\ LET absorbed == Absorb(transcript, <<[fri_layer |-> Root(Leaves(poly))]>>)
     IN  /\ \E alpha \in HashValues :
              /\ Hashed(absorbed, <<"fri_alpha", 0>>, HashValues, alpha)
              /\ poly' = Fold(poly, alpha)
         /\ transcript' = Challenged(absorbed, <<"fri_alpha", 0>>)
  /\ proof' = [proof EXCEPT !.layers = Append(@, poly)]
  /\ UNCHANGED <<build, pc, lookup, columns, drawn, replay, verdict>>

FinishFri ==
  /\ pc = "fold" /\ Size(poly) <= FinalBound
  /\ proof' = [proof EXCEPT !.final = poly]
  /\ transcript' = Absorb(transcript, <<[fri_final |-> poly]>>)
  /\ pc' = "draw"
  /\ UNCHANGED <<build, hash, lookup, columns, poly, drawn, replay, verdict>>

Domain == Size(columns[0])

\* More queries than there are points: challenge_indices raises.
TooManyQueries ==
  /\ pc = "draw" /\ Queries(lookup) > Domain
  /\ pc' = "raised"
  /\ UNCHANGED <<build, hash, lookup, transcript, columns, poly, drawn, proof, replay, verdict>>

\* A draw of challenge_indices, whose label counts the attempts.
Draw(t, x) ==
  /\ Queries(lookup) <= Domain
  /\ Cardinality(Indices(drawn, Domain)) < Queries(lookup)
  /\ Len(drawn) < MaxAttempts
  /\ Hashed(t, <<"query_index", Len(drawn)>>, HashNumbers, x)
  /\ drawn' = Append(drawn, x)

DrawQuery ==
  /\ pc = "draw"
  /\ \E x \in HashNumbers :
       /\ Draw(transcript, x)
       /\ transcript' = ChallengedBytes(transcript, x)
  /\ UNCHANGED <<build, pc, lookup, columns, poly, proof, replay, verdict>>

Response(i) ==
  [index |-> i, values |-> RowAt(columns, i), path |-> AuthPath(Rows(columns), i)]

Respond ==
  /\ pc = "draw"
  /\ Cardinality(Indices(drawn, Domain)) = Queries(lookup)
  /\ LET indices == Sorted(Indices(drawn, Domain))
     IN  proof' = [proof EXCEPT !.responses =
                     [n \in DOMAIN indices |-> Response(indices[n])]]
  /\ pc' = "verify" /\ drawn' = <<>>
  /\ UNCHANGED <<build, hash, lookup, transcript, columns, poly, replay, verdict>>

-----------------------------------------------------------------------------
(* The verifier *)

Decide(v) == pc' = "done" /\ verdict' = v

\* _verify_setup.
SetupAccepted ==
  /\ IsPowerOfTwo(lookup.length)
  /\ lookup.security >= MinSecurity
  /\ Queries(lookup) >= MinQueries

RejectSetup ==
  /\ pc = "verify" /\ ~ SetupAccepted
  /\ Decide(FALSE)
  /\ UNCHANGED <<build, hash, lookup, transcript, columns, poly, drawn, proof, replay>>

VerifyStart ==
  LET absorbed == Absorb(replay, PublicInputs(lookup)
                           \o <<[trace_commitment |-> proof.trace_commitment]>>)
  IN  /\ pc = "verify" /\ SetupAccepted
      /\ \E alpha \in HashValues : Hashed(absorbed, <<"alpha", 0>>, HashValues, alpha)
      /\ replay' = Challenged(absorbed, <<"alpha", 0>>)
      /\ pc' = "layers"
      /\ UNCHANGED <<build, lookup, transcript, columns, poly, drawn, proof, verdict>>

\* The layers whose commitments the verifier has absorbed so far.
Replayed == Cardinality({n \in DOMAIN replay.log : "fri_layer" \in DOMAIN replay.log[n]})

\* Mutation of VerifyLayer: a commitment is absorbed, but no challenge taken.
VerifyLayerSilent ==
  /\ pc = "layers" /\ Replayed < Len(proof.layers)
  /\ replay' = Absorb(replay, <<[fri_layer |-> Root(Leaves(proof.layers[Replayed + 1]))]>>)
  /\ UNCHANGED <<build, hash, pc, lookup, transcript, columns, poly, drawn, proof, verdict>>

\* FRIVerifier.verify, for each layer of the proof.
VerifyLayer ==
  /\ pc = "layers" /\ Replayed < Len(proof.layers)
  /\ LET absorbed == Absorb(replay, <<[fri_layer |-> Root(Leaves(proof.layers[Replayed + 1]))]>>)
     IN  /\ \E alpha \in HashValues : Hashed(absorbed, <<"fri_alpha", 0>>, HashValues, alpha)
         /\ replay' = Challenged(absorbed, <<"fri_alpha", 0>>)
  /\ UNCHANGED <<build, pc, lookup, transcript, columns, poly, drawn, proof, verdict>>

\* Mutation of VerifyFinal: the last polynomial is not absorbed.
VerifyFinalForgotten ==
  /\ pc = "layers" /\ Replayed = Len(proof.layers)
  /\ Size(proof.final) <= FinalBound
  /\ pc' = "redraw"
  /\ UNCHANGED <<build, hash, lookup, transcript, columns, poly, drawn, proof, replay, verdict>>

\* The last polynomial is absorbed; one that is too long would be refused, but
\* FinishFri sends none.
VerifyFinal ==
  /\ pc = "layers" /\ Replayed = Len(proof.layers)
  /\ Size(proof.final) <= FinalBound
  /\ replay' = Absorb(replay, <<[fri_final |-> proof.final]>>)
  /\ pc' = "redraw"
  /\ UNCHANGED <<build, hash, lookup, transcript, columns, poly, drawn, proof, verdict>>

RedrawQuery ==
  /\ pc = "redraw"
  /\ \E x \in HashNumbers :
       /\ Draw(replay, x)
       /\ replay' = ChallengedBytes(replay, x)
  /\ UNCHANGED <<build, pc, lookup, transcript, columns, poly, proof, verdict>>

\* _verify_queries: the indices, and that each response has its path and a
\* value for each register.
VerifyQueries ==
  /\ pc = "redraw"
  /\ Cardinality(Indices(drawn, Domain)) = Queries(lookup)
  /\ LET indices == Sorted(Indices(drawn, Domain))
     IN  Decide(/\ Len(proof.responses) = Len(indices)
                /\ \A n \in DOMAIN indices :
                     /\ proof.responses[n].index = indices[n]
                     /\ DOMAIN proof.responses[n].values = Registers)
  /\ UNCHANGED <<build, hash, lookup, transcript, columns, poly, drawn, proof, replay>>

-----------------------------------------------------------------------------

Prover ==
  \/ CommitTrace \/ DrawAlpha \/ FoldLayer \/ FinishFri
  \/ TooManyQueries \/ DrawQuery \/ Respond

Verifier ==
  RejectSetup \/ VerifyStart \/ VerifyLayer \/ VerifyFinal \/ RedrawQuery \/ VerifyQueries

Next == (\E l \in Lookups : Prove(l)) \/ Prover \/ Verifier

Spec == Init /\ [][Next]_vars

-----------------------------------------------------------------------------
(* Properties *)

\* prove_verify.py asserts that the proof it just generated verifies: whatever
\* the hash function returns, the verifier takes the challenges the prover took
\* and accepts, when it allows the security level and the length at all.
HonestLookupsVerify ==
  pc = "done" =>
    verdict = (lookup.security >= MinSecurity /\ IsPowerOfTwo(lookup.length))

\* The verifier absorbs the prover's messages in the prover's order ("AFTER FRI
\* to match prover order", stark_verification.py:90), leaving none out.
VerifierFollowsProver ==
  /\ IsPrefix(replay.log, transcript.log)
  /\ pc = "done" /\ verdict => replay = transcript

\* A proof is what the parameters and the comments promise of it, most of which
\* nothing checks: responses about distinct points in ascending order, as many
\* as the security level asks for, each authenticated by its path against the
\* commitment made before the points were known; as many layers as security.py
\* computes from the size of the extended trace, whose length "must be power of
\* 2" (stark_merkle.py:53), down to a polynomial the verifier allows; and a trace
\* along which the position on the path is "monotonically increasing" and a value
\* once found "stays found" (mpt_circuit.py:253-254).
ProofIsAsPromised ==
  /\ pc \in {"verify", "layers", "redraw", "done"} =>
       /\ Len(proof.responses) = Queries(lookup)
       /\ \A m, n \in DOMAIN proof.responses :
            m < n => proof.responses[m].index < proof.responses[n].index
       /\ \A n \in DOMAIN proof.responses :
            LET r == proof.responses[n]
            IN VerifyPath(proof.trace_commitment, r.index, [row |-> r.values], r.path)
  /\ pc \in {"draw", "verify", "layers", "redraw", "done"} /\ IsPowerOfTwo(lookup.length) =>
       LET size == lookup.length * Blowup(lookup)
       IN  /\ size >= FinalBound => Len(proof.layers) = Log2(size) - Log2(FinalBound)
           /\ Size(proof.final) <= FinalBound
  /\ pc \notin {"idle", "raised"} =>
       LET trace == GenerateTrace(lookup)
       IN  \A s \in 0..(Steps(lookup) - 2) :
             /\ trace[s][2] <= trace[s + 1][2]
             /\ trace[s][3] = 1 => trace[s + 1][3] = 1

=============================================================================
