# A TLA+ development of Stateless-Ethereum

The repository builds authenticated maps (Merkle Patricia tries and Verkle
trees), keeps them on disk, proves to a verifier that keys have certain values
without giving it the tree, and measures what that costs. For SNARK proofs it
carries the two programs it runs: circom, which compiles a circuit to a witness
calculator, and rapidsnark, the Groth16 prover, as a library and as a server.

This directory models the trees with their storage, their proofs and verifiers,
the STARK lookup, the proof server, the prover's thread pool, the Groth16 prover
with its curves and pairing, and the arithmetic of the witness calculators. TLC
checks the models on small instances; TLAPS proves for all instances that the
storage of both trees is closed, that the Merkle trie implements a durable map
and is determined by it, that lookups in both trees are exact and their proofs
complete and sound, that the thread pool excludes what it should and implements its abstract
specification, that the lookup's verifier retraces its prover and accepts what
its setup allows, that no loop of the Groth16 prover has a race, and the safety
of the proof server.

Paths are relative to the repository's root. `ffiasm` stands for
`rapidsnark/depends/ffiasm/c`. Where a file still has conflict markers of an
unfinished merge (`tree/merkle_tree.py:431`, `tree/verkle_tree.py:831`,
`merkle/hash.py`, `generate_tree.py:76`, `prove_verify.py:86`,
`prover/snark_merkle_poseidon_proof.py`, `prover/verkle_multiproof.py:495`) the
side called HEAD is modelled; in the modelled functions both sides agree.

## 1. The system

| Part | State | Operations | Works with |
|---|---|---|---|
| Merkle Patricia trie, `tree/merkle_tree.py`, `merkle/` | LevelDB (digest to encoded node), root file, `_root_ref`, `root.value` | `insert`, `get`, `get_proof_tree`, `root_hash`, opening a directory | scripts, provers |
| Poseidon trie, `tree/poseidon_merkle_tree.py` | the same, at fixed shared paths | the same | SNARK prover |
| Verkle tree, `tree/verkle_tree.py`, `verkle/` | LevelDB (hash of commitment to encoded node), root file, root node in memory | `insert`, `get`, `get_proof_tree`, opening | scripts, provers |
| Merkle provers and verifiers | none | `generate_proof`, `verify_proof`, plain and deduplicated | trie, scripts |
| Verkle provers and verifiers | none | the same for single openings, deduplicated ones and multiproofs | tree, scripts |
| STARK prover and verifier, `zkSTARK/` | two transcripts, one on each side | `prove_lookup`, `verify_lookup` | trie, scripts |
| SNARK prover and verifier, `zkSNARK/` | files of a batch | `generate_proof`, `verify_proof` | Poseidon trie, circom, rapidsnark |
| Proof server, `rapidsnark/src/fullprover.cpp` | status, pending input, cancellation flag, `mtx`, last proof, files in `build/` | `POST /input`, `POST /cancel`, `GET /status`, the proving thread | polling clients, Groth16 prover |
| Thread pool, `ffiasm/misc.hpp` | queue, and job, number, stop flag and mutex of each worker | `parallelFor`, `parallelBlock`, destructor | Groth16 prover |
| Groth16 prover, `rapidsnark/src/groth16.cpp`, `ffiasm/fft.cpp`, `ffiasm/msm.*` | arrays a, b and c, table of roots, slices, buckets | `prove`, `verify` | pool, server |
| Curves and pairing, `ffiasm/curve.cpp`, `f2field.cpp`, `f6field.cpp`, `f12field.cpp` | none | sums, multiples, Miller loop, final exponentiation | Groth16 prover |
| Witness calculators, `circom/code_producers` | the program's elements | arithmetic, comparisons, bits, conversions | circuits |
| Scripts (`generate_tree.py`, `prove_verify.py`, ...) | `tree_info.json`, `tree_ids.txt`, data files, `results.csv` | generate, prove and verify | all |

A script opens a directory, inserts keys one after the other, and ends. Another
process opens the same directory later, takes proofs and verifies them against
the root in memory. So these parts meet in three places: the database and the
root file between processes, the tree object between inserts and proofs, and the
transcript, which the STARK verifier has to rebuild as the prover built it.

The native programs meet elsewhere. The server has one thread for requests and
starts another for each calculation; they share a status, a flag and a mutex,
and a circuit's files on disk. That thread runs a witness calculator, whose
elements come from the arithmetic of `fr.cpp`, and then `prove`, which calls
the pool a few dozen times. Each call hands a reference to a closure to all
workers, and the loops share arrays without locks, except where they have some.

Hard about it:

* **crashes.** An insert writes many nodes one by one, then the root in memory,
  then truncates the root file and writes it. Nothing is transactional and
  nothing recovers: what a process finds is what the last one left.
* **exceptions in the middle** of an insert, after some nodes are written, and
  of a calculation, where one of them ends the server.
* **order of inserts.** Splits of leaves, extensions and stems have many cases,
  and the tree they end in must depend on the map only.
* **references that are not names of one node**: nodes under 32 bytes, which are
  stored inside their parents, and commitments that differ less than nodes do.
* **agreement at a distance**: prover and verifier compute indices, factors and
  challenges independently.
* **threads**: writes of the pool that take no lock because nobody should be
  there, notifications that may be lost, loops over shared arrays, a
  cancellation and a poll at any moment of a calculation.
* **representations**: an element is short, long or in Montgomery form, or two
  of these, and each operation treats each pair separately.

PROJECT.json lists each of these places with its line and the properties for it.

What makes each part correct: the storage is closed under references whatever
happens; the tree is the canonical one of its map; lookups return what the map
holds; directory and object together are a durable map; honest proofs verify; no
proof generated here is accepted with a value the tree does not hold; the
verifier's transcript retraces the prover's; the server's success is the proof of
the input it accepted, and polling it ends; a call of the pool applies its
function once to each element, inside the call, and returns; no two threads meet
in a cell, and a proof is accepted exactly when the witness satisfies the
circuit; and arithmetic is the field's whatever the representations.

## 2. The modules

| Module | Models | Extends or instantiates |
|---|---|---|
| `MptNodes` | nodes, references, paths of the Merkle trie | |
| `MerklePatriciaTrie` | `insert`, opening, crashes | `MptNodes` |
| `MerklePatriciaTrieProps` | the invariants that are proved | `MerklePatriciaTrie` |
| `MptRead` | `get`, `get_proof_tree`, contents, canonical trie, refinement | `MerklePatriciaTrieProps`, `DurableMap` |
| `MerkleProof` | both Merkle provers and verifiers | `MptRead` |
| `DurableMap` | abstract: a saved map, its updates and crashes | |
| `VerkleNodes` | chunks of keys, nodes, commitments, serialization | |
| `VerkleTree` | `insert`, opening, crashes, exceptions | `VerkleNodes` |
| `VerkleTreeProps` | the invariants that are proved | `VerkleTree` |
| `VerkleRead` | `get`, contents, canonical tree, refinement | `VerkleTreeProps`, `DurableMap` |
| `VerkleProof` | three Verkle provers and verifiers | `VerkleRead` |
| `GoldilocksField` | `field.py` and `fft.py` over words | |
| `StarkLookup` | one lookup, from trace to verdict | `GoldilocksField` |
| `FullProver` | the proof server, its proving thread, files and clients | |
| `ParallelCall` | abstract: one call of the pool at a time | |
| `ThreadPool` | queue, workers, pool, their mutexes and destructor | `ParallelCall` |
| `Groth16Math` | scalar field, transform, chunks and signed digits | |
| `ExtensionFields` | the base field of the curves and the tower over it | |
| `Curve` | points and their sums over any field, multi-scalar multiplication | |
| `Pairing` | the two curves, Miller loop, final exponentiation | `ExtensionFields`, `Curve` |
| `Groth16Circuits` | external: constraint systems, witnesses and keys | `Groth16Math`, `Pairing` |
| `Groth16Prover` | `prove` over the pool, and `verify` | `Groth16Circuits`, `ParallelCall` |
| `FrElement` | `fr.cpp` and the constants, inputs and outputs of a calculator | |
| `MerklePatriciaTrieProofs`, `MptReadProofs`, `VerkleTreeProofs`, `VerkleReadProofs`, `ThreadPoolProofs`, `FullProverProofs`, `StarkLookupProofs`, `Groth16ProverProofs` | theorems | |
| `MC...` | values of the constants | |

Two abstract specifications stand between components. Both trees implement
`DurableMap`. `ThreadPool` implements `ParallelCall`, and the loops of
`Groth16Prover` are written over `ParallelCall`: the prover is checked against
what the pool promises, and the pool is checked to promise it.

### Merkle Patricia trie

A reference is a record of its length and of the node it stands for: 32 for a
digest, less for an in-place reference. Digests are thus injective, and `db` is
just the set of digests present, since content-addressed entries never change.
`RlpLen` gives the encoded length of a value, from which `InPlaceLen` computes
the lengths of nodes as `Node.encode` makes them. `HashFn` is `hash_fn`; with
Poseidon every reference is a digest.

The recursion of `_update` is laid open: `cur` and `path` are the arguments of
the innermost call, `stack` the calls that wait for a child's reference, `todo`
the nodes the call has still to store. One action is one case of `_update`
(`UpdateEmpty`, `UpdateMissing`, `UpdateLeafValue`, `UpdateLeafSplit`,
`UpdateExtensionFollow`, `UpdateExtensionSplit`, `UpdateBranchValue`,
`UpdateBranchFollow`), one `_store_node` (`StoreNode`), one return
(`ReturnToCaller`), or one of the three last lines of `insert` (`SetRoot`,
`OpenRootFile`, `WriteRootFile`). `Crash` can fall between any two of them and
`Restart` is `__init__`. `UpdateMissing` is the `KeyError` of `_get_node`; it
ends the call and leaves in the database what was written.

The recursion of `_get` and `_collect`, which change nothing, is a function of
the number of calls (`Walk`), up to the first call that makes none (`Calls`);
what a trie holds is read level by level (`Level`, `Contents`), independently of
the lookups, and the canonical trie is a function of a bound on the depth. So no
operator is recursive, and all of it can be proved about.

A crash ends the process; what LevelDB and the file system have accepted stays.
A power failure that loses accepted writes is not modelled (the code never
syncs).

### Verkle tree

Keys are integers of `TotalBits` bits cut into chunks of `ChunkBits`; the code
has 256 and, for width 256, 8. `ByteBits` is the size of a byte: with chunks
larger than a byte, `bytes(stem)` can raise, as for width 512. A commitment is
the vector committed to, as `commit` and `commit_extension` make it: empty slots
and zero are one, and a stem is its integer, so distinct nodes can share a
reference exactly where they do in the code. Values are sequences of words;
`serialize_array_node` writes them whole and `deserialize_array_node` reads
`ValueLen` words for each slot.

`Walk...` actions are the turns of the first loop of `insert`, `CommitNode`,
`CommitRoot` and `CommitRaises` those of the second, then the two steps of the
root file. `WalkRaises` is the index error when one of two stems is a prefix of the
other, which only aliased extensions bring about.

The loop of `get` is a function of the number of turns made (`Walk`), up to the
first place where it does not go on (`Turns`); the provers walk the same places,
those that do not compare stems with an end of their own (`LooseTurns`). What the
tree holds is read level by level off all its nodes (`Level`, `Contents`), and not
by a walk of the code.

### Proofs

Provers and verifiers keep no state. They are operators, evaluated in every
reachable state of the tree, for every list of one or two keys.

The pairing check is modelled by what it decides: a witness is the set of its
openings (commitment, index, key and level, from which the factor is derived);
it holds if the expected openings are the same and every leaf is what the
commitment holds there. This takes the commitments to be binding and the
factors not to cancel.

### STARK lookup

`field.py` and `fft.py` are modelled over words of `2 * HalfBits` bits with
wrapping operations. What the source leaves open is a parameter, `Builds`,
chosen in the initial state: the result of shifting a word by its whole length,
and whether the difference of an unsigned and a signed word is signed. An
optimizer may do more with an undefined shift than these two outcomes; the
properties of the lookup do not depend on what products are.

`StarkLookup` has one action for each exchange with the transcript. The hash is
a random function, fixed when it is asked (`hash`): what prover and verifier ask
alike is answered alike, anything else arbitrarily. Merkle trees are kept as
their nodes. `challenge_indices` is one action for each draw, so the two sides
must also draw equally often. A trie node is its size class and its hash, which
is all the circuit looks at.

### Proof server

`FullProver` has the endpoint's thread (`server`), the detached threads that
prove (`worker`), the clients of `tools/request.js` (`client`) and the files in
`build/`, which outlive the process. The endpoint handles one request at a time
(`main_proofserver.cpp` gives it one thread), so a request is `Accept`, the
handler's steps, and `Respond`. A step goes from one point where another thread
can be seen to the next: to lock `mtx` and to look at a field without it are
steps of their own, so `getStatus` compares the status with one value after the
other, and `startProve` stops in `abort()` at the mutex it holds.

The proving thread writes the input, runs the calculator, reads the witness,
proves, and asks between these whether it is canceled. A good input's witness is
written; a rejected one's is not, and the exit code is not looked at, so the
file is what an earlier input left. `badjson` is text that does not parse: the
exception is not a `std::runtime_error`, and the process ends. So does it with a
circuit that has no key. systemd starts it again with empty memory and the old
files (`Restart=always`).

### Thread pool

`ThreadPool` has one action for each step between two points where another
thread can be seen. A critical section that only tests or sets a worker's job is
one step guarded by its mutex; the worker's own, which it holds while it runs
jobs, is not: `mutex` says who holds it. Notifications reach only threads that
wait, and a waiter may wake without one. `exec` is what a thread is inside `func`
with: its job, the element and the number it was given. `unsafePush` and
`setThreadId` are steps without a lock, as in the code. `Dtor...` is the
destructor of the pool, started by a program that has no call in progress.

### Groth16 prover

The arithmetic of arrays and scalars is the code's: Montgomery form where the
code has it, the table of roots filled by several threads each beginning with a
power, the permutation, the butterflies by levels, slices of signed digits across
the bytes of a scalar, buckets for each thread.

So is that of points. `Curve` takes the operations of a field as parameters, as
the template `Curve<BaseField>` does, and `Pairing` instantiates it with the base
field and with its quadratic extension. A point has denominators of its own, and
the operations' cases for zero, equal and opposite points are those of
`curve.cpp`. `Pairing` follows `groth16.cpp` through the lines of the Miller
loop, the two Frobenius steps at its end and the final exponentiation, with the
tower of fields product for product in `ExtensionFields`. What a small prime
cannot share with the code's are numbers: the parameter `U`, the signed digits of
`6 * U + 2`, and `xi`, whose powers the code has as literals and the model
computes; that the literals are these powers of `9 + i` and the digits those of
the code's parameter was computed once, outside TLA+.

`Groth16Prover` runs `prove` as a list of steps. For a loop over the pool, a
thread reads what an element needs (`BeginElement`) and later writes its result
(`EndElement`); which threads take which elements in what order is left open, as
`ParallelCall` leaves it. The loop over the coefficients reads a cell under a
lock and writes it back before it gives the lock up. So a lost update, or a read
of what another thread is writing, is an interleaving of the model. `BR`'s
masks and shifts are modelled by the bits of the result (`BitReversed`), for the
at most 32 bits they are made for. Blinding
numbers are any of `Blinds`; memory nobody has written holds `Garbage`.

`Groth16Circuits` is external: keys are made by snarkjs from a circuit, and are
modelled from how `groth16.cpp` uses them. A key's points are written as their
logarithms and looked up in a table of multiples of the generator, which is made
by the chord-and-tangent law and not by the operations under test.

### Witness arithmetic

`fr.cpp` is a template, filled in with a prime, its words, and whether the prime
leaves room for a carry. `FrElement` fills in small machines too: `<<q, W, N,
S>>` has words below `W`, `N` of them, and ints of `S` bits. Every `Fr_`
operation is an operator with the code's cases. The state is two elements of a
running calculator; `Store` puts the result of any operation on them into one of
them, so the elements that are compared and combined are exactly those the
operations can make, constants with two forms included. The result never shares
an operand's place in the instructions circom emits (`build_stack.rs`).

## 3. What TLC checks

Passing runs:

| Run | Shows |
|---|---|
| `trie_crash` | four inserts of fixed-length keys, a long and a short value, one crash anywhere: `TypeOK`, `StoreClosed`, `StoreCompressed`, `RootsAgree`, `ImplementsDurableMap`. An insert through a short node raises and must have changed nothing |
| `merkle_proofs` | four inserts of keys some of which are prefixes of others: `RootIsCanonical`, `GetIsExact`, `HonestProofsVerify`, `VerifiedValuesAreHeld` (proofs of other keys and of older tries included), `OptimizedAgrees` |
| `verkle_crash` | three inserts, stems that part at each chunk, one not made of bytes, one crash: `RootIsCanonical`, `GetIsExact`, `ImplementsDurableMap` |
| `verkle_alias` | zero values and stems with leading zeros, where nodes overwrite each other: `StoreClosed`, `CommitmentsMatch` |
| `vproof_honest` | three Verkle schemes: `HonestProofsVerify`, `VerifiedValuesAreHeld`, `OptimizedAgrees` |
| `stark` | `HonestLookupsVerify`, `VerifierFollowsProver`, `ProofIsAsPromised` (layers, trace and authentication paths, which the verifier does not look at) |
| `pool` | two callers, three threads, spurious wakeups, the destructor: `NumbersDiffer`, `JobsInsideCall`, `UnlockedWritesAlone`, `ImplementsParallelCall`, `CallsReturn`, `DestructorEnds` |
| `server` | two clients, good and bad inputs, a circuit with and one without a key, a cancellation, a stop: `OneCalculation`, `CancelStaysWithItsRun`, `SuccessProvesAccepted`, `GoodInputsAreProved`, `PollingEndsOrDeadlock` |
| `groth16` | three circuits, four witnesses, five threads in all orders, on two curves with a pairing: `LoopsAreRaceFree`, `SumsAreExact`, `TransformsAreExact`, `AcceptedExactlyWhenSatisfied` |
| `fr_element` | all elements over three small primes: `ArithmeticIsExact`, `ComparisonsAreExact`, `BitsAreExact`, `ConversionsAreExact` |

Runs that find what the repository says of the program violated by the code:

| Run | Shows |
|---|---|
| `verkle_rlp` | a value longer than 32 bytes is cut when its node is read back (`serialization.py:234`) |
| `server_requeue` | an input posted while another is being proved stops the endpoint: `startProve` calls `abort()`, which locks the mutex `startProve` holds (`fullprover.cpp:76`), and the clients poll for ever |

Three properties state exactly how far a defect reaches:

* `DestructorEnds` excepts a worker that found `stop` false and has not begun to
  wait when it is set, which the destructor does without the worker's mutex
  (`misc.hpp:115`); the run reaches that state and nothing else blocks.
* `SuccessProvesAccepted` excepts an input the calculator rejected: its exit code
  is not looked at, and the witness of an earlier input is proved in its place
  (`fullprover.cpp:132`).
* `GoodInputsAreProved` excepts an answer without a status, from a `getStatus`
  whose comparisons a calculation ended between (`fullprover.cpp:219`).

Smaller disagreements were seen with these models and are noted here, without a
run of their own:

* `get` raises `KeyError` for a key whose node is stored in place
  (`merkle_tree.py:234`); `trie_crash` has the same for `insert`.
* `field_add` loses 2^32 - 1 when the sum does not fit in a word (`field.py:30`),
  and the bit reversal of `ntt_forward` is one bit short
  (`fft.py:106`), so it is not the transform. The lookup nevertheless verifies:
  nothing in the verifier depends on the numbers being a low-degree extension.
* `neg` of an affine zero gives the point (0, 0) with denominators one, which is
  not known as a zero (`curve.cpp:591`). `verify` calls it for a proof's `C`, and
  honest proofs with a zero there occur in `groth16`. They are accepted all the
  same: the lines' values at (0, 0) are in a subfield and vanish in the final
  exponentiation.
* For an `i` whose square is not -1, `square` adds the sum it has just made
  where it means the product before (`f2field.cpp:165`); the curve of the code never takes this case.
* `verkle_optimized` walks bytes of a key whatever the width is
  (`verkle_proof_optimized.py:162`) and proves nothing for widths other than 256.

### Bounds, and why they are enough

* Two nibbles instead of sixteen, four chunks instead of 256: every case of a
  branch is empty, one child, two children, value or none.
* Five keys for each instance, chosen so that in various orders each case of a
  split occurs: with and without a common prefix, extension split before its
  first digit, inside and before its last, stems that part at each chunk. Four
  inserts (three for Verkle) are enough for a split of what a split made, then
  an insert into it.
* One crash suffices for the windows: after a restart the directory is again a
  starting state of the model. The proved invariants hold for any number.
* Two values tell an overwritten value from a kept one.
* `MaxDigits` is the length of the longest key, which says how far down `Contents`
  reads.
* For the lookup: traces of 1, 2 and 4 rows, extended to at most 8 points, a
  final size of 2, so none, one or two layers of folding; two challenges; draws
  that repeat an index; paths shorter, equal to and longer than the trace.
  `MaxAttempts` bounds the draws.
* For the pool: two workers and a calling thread, two callers that meet at the
  pool's mutex, and three ranges besides the block: an empty one, one with fewer
  elements than threads, and one of seven elements for six chunks, so that
  chunks are uneven and some wait in the queue. One call each is enough to have
  a worker of one call still running into the next. The proved invariants hold
  for any number of threads, callers and calls.
* For the server: two clients are enough for an input that meets another's
  calculation; the second of two inputs distinguishes a stale witness. One
  cancellation and one stop can each fall at any step; the process also ends by
  itself, whenever an input makes it. What is proved holds for any number.
* For Groth16: groups of 97 points over a base field of 103 elements are the
  first of the family the code's curves belong to (`U = 1`), and 97 has roots of
  unity for a domain of 4 and its double. In groups so small sums meet equal,
  opposite and zero points, which in the code's hardly ever happens. The signed
  digits of `6 * U + 2` are 1, -1, 0, 0, 0, so the digit 1 occurs only at their
  top, which the loop leaves out. Bytes of two bits and words of two bytes have
  windows that cross both, and the top one cut short. Five threads are one more
  than elements, so that the table of roots has a short part. Two locks for four cells make cells share one.
  Circuits with none, one and two private signals reach sums of no, one and more
  points; one witness does not satisfy its circuit. The blinding numbers are 0, 1
  and another one.
* For `fr.cpp`: one word without room for a carry, two with and two without; all
  elements of these primes, every pair of representations. Ints are small enough
  that all of their boundaries are inside the field.

`CHECK_DEADLOCK FALSE` is set where a run stops when its inserts, its lookup, its
calls or its clients are used up; `groth16` and `fr_element` never stop.

### Fairness

* `ThreadPool!FairSpec`: every thread that can take its next step does (weak),
  and a caller that finds a worker's mutex free again and again gets it (strong,
  for `Submit` and `WaitWorker`). The second is what the operating system's mutex
  gives in practice; a worker that wakes spuriously for ever would otherwise be
  able to keep it. Nobody is made to call the pool, destroy it, or wake without a
  notification.
* `FullProver!FairSpec`: the endpoint and the proving thread run (weak), the
  process is restarted (`Restart=always` in `rapidsnark.service`), and the
  endpoint does not leave one client's request for ever behind the others'
  (strong, for `Accept`). No fairness for cancellations and stops.
* `VerkleTree!FairSpec`: a running insert goes on, since one thread executes it
  without waiting for anything. `verkle_rlp` uses it, so that its counterexample
  is of a program that runs.

The other specifications have none; their properties are of safety.

### Refinement

`ImplementsDurableMap` (of both trees) maps the contents under the root in memory
to `map`, those under the root file to `saved`, and `pc` to the stage. Every
write of a node is a stutter of the map; `SetRoot` or `CommitRoot` is where an
insert takes effect; opening the root file is where the saved map is lost until
it is written. The abstract `Crash` keeps `saved`, so this says that the
truncated file is the only way a crash loses anything.

`ImplementsParallelCall` maps the pool's mutex to the caller inside a call,
`applied` and the range to the elements left to do, and `exec` to the elements
threads are at with the numbers they were given. That each element is applied
once, and a caller returns only when all are, are steps `ParallelCall` allows
and no others.

Two limits are part of the statements about trees. `RootsAgree` and the
refinement of the Verkle tree count a root without a value (left behind by a
first insert that raised) as an empty tree. `GetIsExact` exempts absent keys that
are prefixes of present ones, where `_get` stops at a node of theirs;
fixed-length keys have no such case.

`verkle_alias` does not check the refinement, which fails there: two suffix
nodes that differ only by a zero value in different slots, or extensions whose
stems are one integer, overwrite each other. The scripts' values, RLP accounts,
are never zero.

## 4. What is proved

| Theorem | Property |
|---|---|
| `MerklePatriciaTrieProofs!TypeCorrect` | `Spec => []TypeOK` |
| `MerklePatriciaTrieProofs!StoreIsClosed` | `Spec => []StoreClosed` |
| `MerklePatriciaTrieProofs!StoreIsCompressed` | `Spec => []StoreCompressed` |
| `MerklePatriciaTrieProofs!RootsAlwaysAgree` | `Spec => []RootsAgree` |
| `MptReadProofs!TrieImplementsDurableMap` | `Spec => ImplementsDurableMap` |
| `MptReadProofs!RootsAreCanonical` | `Spec => []RootIsCanonical` |
| `MptReadProofs!GetsAreExact` | `NothingInPlace` implies `Spec => []GetIsExact` |
| `MptReadProofs!HonestProofsAreVerified` | `NothingInPlace` implies `Spec => []HonestProofsVerify` |
| `MptReadProofs!VerifiedValuesHeld` | `NothingInPlace` implies `Spec => []VerifiedValuesAreHeld` |
| `MptReadProofs!OptimizedAlwaysAgrees` | `Spec => []OptimizedAgrees` |
| `VerkleTreeProofs!Invariant` | `NoneIsUnlike` implies `Spec => []IInv` |
| `VerkleTreeProofs!StoreIsClosed` | `NoneIsUnlike` implies `Spec => []StoreClosed` |
| `VerkleTreeProofs!WalksEndInTime` | `NoneIsUnlike` implies `Spec => []WalkHasChunks` |
| `VerkleReadProofs!RootsAreLoaded` | `NoneIsUnlike` implies `Spec => [](IInv /\ RootLoaded)` |
| `VerkleReadProofs!GetsAreExact` | `NoneIsUnlike` implies `Spec => []GetIsExact` |
| `VerkleReadProofs!CommitmentsAlwaysMatch` | `NoneIsUnlike`, `ValuesFit` imply `Spec => []CommitmentsMatch` |
| `VerkleReadProofs!HonestProofsAlwaysVerify` | `NoneIsUnlike`, `ValuesFit`, `RaisedIsUnlike` imply `Spec => []HonestProofsVerify` |
| `VerkleReadProofs!VerifiedValuesAreAlwaysHeld` | `NoneIsUnlike`, `ValuesFit`, `ValuesTold` imply `Spec => []VerifiedValuesAreHeld` |
| `VerkleReadProofs!OptimizedAlwaysAgrees` | `NoneIsUnlike`, `ValuesFit`, `RaisedIsUnlike`, `ByteBits = ChunkBits` imply `Spec => []OptimizedAgrees` |
| `ThreadPoolProofs!TypeCorrect` | `Spec => []TypeOK` |
| `ThreadPoolProofs!NumbersAlwaysDiffer` | `Spec => []NumbersDiffer` |
| `ThreadPoolProofs!JobsStayInsideCall` | `Spec => []JobsInsideCall` |
| `ThreadPoolProofs!UnlockedWritesAreAlone` | `Spec => []UnlockedWritesAlone` |
| `ThreadPoolProofs!ChunksRunOnce` | `Spec => []RInv` |
| `ThreadPoolProofs!PoolImplementsParallelCall` | `Spec => ImplementsParallelCall` |
| `FullProverProofs!OneCalculationAtATime` | `Spec => []OneCalculation` |
| `FullProverProofs!CancelsStayWithTheirRun` | `Spec => []CancelStaysWithItsRun` |
| `FullProverProofs!SuccessIsOfAccepted` | `Spec => []SuccessProvesAccepted` |
| `FullProverProofs!GoodInputsAreAlwaysProved` | `Spec => GoodInputsAreProved` |
| `StarkLookupProofs!Invariant` | `Spec => []IInv` |
| `StarkLookupProofs!VerifierRetracesProver` | `Spec => []VerifierFollowsProver` |
| `StarkLookupProofs!HonestLookupsAreAccepted` | `EnoughQueries` implies `Spec => []HonestLookupsVerify` |
| `Groth16ProverProofs!Invariant` | `Spec => []IInv` |
| `Groth16ProverProofs!LoopsNeverRace` | `Spec => []LoopsAreRaceFree` |

### The trie

For every set of nibbles, keys and values, every length of values, both hash
functions, any number of inserts and crashes. Assumed are `NodeAssumption` (at
most sixteen nibbles, at least one; lengths are positive; no value is the empty
string) and `TrieAssumption`, the types of the other constants.

None of the four is inductive, since in the middle of an insert the nodes to be
stored and the references on their way up are only in the recursion. `IInv`
says that there is a set `R` of references in use such that

* `StoreInv`: `db` is part of `R`, every node in it has its children in `R`,
  every member of `R` that is a digest is in `db`, and stored nodes are in shape;
* `RootInv`: both roots are in `R` or absent, and agree except while saving;
* `CallInv`: the arguments of the innermost call are over `R`, and the nodes in
  `todo` can be stored in that order, each over `R` and those before it;
* `StackInv`: the waiting calls are at stored extensions and branches, and below
  an extension waits a branch;
* `BelowInv`: what is returned to an extension is a branch's reference, which
  is why putting it in place keeps the trie compressed.

`R` is bound by a quantifier because in-place references are in no variable: a
node that refers to one carries it. `Storable` (for the nodes of a split) and
`Compressed` are established by lemmas on the splits, which
follow from facts on common prefixes; the proof of a step has one case for each
action.

### What the trie holds

`MptReadProofs` proves the refinement of `DurableMap`, that roots are canonical,
that lookups are exact, and that proofs are complete and sound. `ReadAssumption` is added: `MaxDigits` bounds the lengths of keys.

Recursion is by number of steps everywhere, so each recursive function gets its
two equations by `SetInduction` (`WalkSteps`, `LevelSteps`, `RestSteps`,
`CanonicalSteps`), and everything about a trie is said by one relation:
`Holds(S, ref, k, v)`, some level under `ref`, read with the references `S` at
hand, has the value `v` at the path `k`. Its laws are what a leaf, an extension
and a branch hold (`HoldsLeaf`, `HoldsExtension`, `HoldsBranch`), that a path has
one value (`HoldsOnce`), and that more references change nothing (`HoldsSame`).
`ContentsHold` ties it to `Contents`: below as many levels as the longest key has
digits there is nothing at a key, since only an extension or a branch has
anything below it, and both take a digit.

*The refinement.* `Updated(S, new, old, p, w)` says that `new` holds what `old`
holds but `w` at `p`. Lemmas show it of each case of `_update`: a leaf where there
was nothing, the splits of leaves and extensions with the branch, extension and
leaves they make, a new child in place of an old one. `ChainInv` carries it
through the recursion: `P` gives each waiting call the rest of the key it was
called with, the call above it has that rest without the digits of the child
it is in (`Linked`), and what is stored last or returned is the argument of its
call, `Updated` with the rest and the new value. At the bottom of the stack the
argument is the root and the rest is the key, so the returned root is the
map with the key's value replaced. `MapInv` adds this to `Inv` of the storage
proof. Every other step keeps the nodes the roots lead to, hence `Contents`.

*Canonical roots.* `TrieIsCanonical` is an induction over the depth: a compressed
trie under a reference is `Canonical` of what it holds. A leaf is recognised
because nothing else holds one path only; at an extension the shared prefix is
exactly its path, since the branch below holds two paths that part at once or a
path that ends (`HeldApart`, `SharedIs`); and a branch's children are what is
`Below` each digit. This is where `Compressed` is needed, and that no trie is
empty (`Filled`). The roots' keys are no longer than `MaxDigits` because they are
keys that were inserted (`KeysOnly`). `ReadInv` is `MapInv` with these.

*Lookups.* Each call of a lookup is at a reference that holds, at the rest of the
key, what the root holds at the key (`ForwardHolds`, `WalkTyped`). So the last call
is at the leaf or branch with the value if there is one (`LookupHolds`), and if it
is at a value there is one (`LookupMisses`).

*Proofs.* `AcceptedIsHeld` is about any list of nodes whose first is a node of the
trie, wherever it comes from: if the loop of `_verify_single_proof` accepts it,
each node is the one its predecessor refers to, so by induction it is in the trie,
and the value is held. The first node is the root because references are
injective and `FirstMatches` compares them.

*The deduplicated proof.* A list built step by step is a function on the numbers
of steps; that there is one goes by `SetInduction` once (`Recursion`), and what
the list has, and that it has it once, follows for the inner loop over a path's
nodes (`ListedHas`) and the outer one over the keys (`NodeListHas`). So each node
of each path has an index, the indices lead back to the path (`SamePaths`), and
two verifiers that are given the same paths agree. This asks nothing of the trie
but that its lookups end, so it holds with nodes in place.

`NothingInPlace` is a hypothesis of three theorems on reading: the hash is Poseidon or every
value takes 32 bytes. It cannot be dropped. `_get_node` looks nodes in place up in
the database, which never has them, so `get` misses keys that are held; and
`FirstMatches` does not check a first node of less than 32 bytes. The code's
values are RLP accounts, with two hashes among their fields, of more than 64
bytes. The refinement and the canonical form need no such hypothesis: `insert`
fails at a node in place without changing the map.

### The Verkle tree

For every width, number of chunks, set of keys and values and number of crashes,
with bytes as wide as a chunk or not. Assumed are the types of the constants,
`PowerAssumption` (powers of two are positive, of which the provers have no law;
TLC evaluates it) and `NoneIsUnlike`: Python's `None` is no commitment and no
node. The last is about all values and so a hypothesis of the theorems.

`StoreClosed` is not inductive, for the recursion of `insert` is again
outside the database; and for a reason the Merkle trie does not have. Two nodes
may have one commitment: an internal node all of whose children are missing and
an empty suffix node, a zero value in two slots, two extensions whose stems are
one integer. Writing one of them replaces the other under the same reference,
above which parents are left that know nothing of it. `IInv` says why no harm is
done to the structure: a stored internal node has a child
(`HasChild`), so its commitment holds a commitment and is no array of numbers
(`ArrayOfNumbers`), which suffix nodes are; and what has the same commitment as
a stored internal node or extension has the same children. So a write keeps
kinds and children, and only values and stems can change.

The walk of `insert` reads `stem[depth]` at each internal node. That it never
reads past the end (`WalkHasChunks`) is about depths, which are in no node, and
with shared commitments a node may be met at another depth than the one it was
stored at. So there is a height `H` for every reference, above those of the
internal nodes it refers to (`Kid`) and, for a root, at most the stem's length;
the node at the i-th place of the walk has at most what is left of the stem. The
parts of `IInv`:

* `StoreOK`: stored nodes have their shape, their children stored and lower, and
  the reference they are stored under is theirs;
* `RootOK`: the root in memory and the root file refer to internal nodes of at
  most full height; the node in memory may have children not yet committed;
* `StackOK`: internal nodes are the lower part of the stack, each the parent of
  the next, then the nodes of a split; an entry without a child has one waiting
  above it (`Pending`), which is why no internal node is stored empty;
* `WalkOK`: during the walk nothing but internal nodes has been passed.

`H` is bound by a quantifier; TLC checked `IInv` with the true heights as `H`
(with crashes, with stems that are not bytes, and with commitments that collide)
before it was proved. `WalkHasChunks` is proved only; TLC checked it there too.

### Reading the Verkle tree

`VerkleReadProofs` proves that `get` is exact, that serialization loses nothing
the commitments hold, and that the plain proofs and the multiproofs are complete
and sound, for the same constants as above. `IInv` says nothing of the root in
memory while its node has children not yet committed, nor of the data of suffix
nodes, so two invariants are added:

* `RootLoaded`: the root in memory is the node stored under its value, or without
  children when it has none. `insert` changes the root's node in place, but not
  before its child on the path is committed, and nothing between that and the
  root's own commitment can raise;
* `SuffixesOK`: every suffix node in the database is the encoding of an array of
  values, stored under that array's reference, and those on the stack are such
  arrays.

*Contents.* `Holds(store, r, k, v)` says that some level under `r` has the value `v`
at the path `k`. Heights (from `IInv`) bound the levels, so all of them are among
those that `Contents` reads (`LevelRanks`); `HoldsSuffix`, `HoldsExtension` and
`HoldsInternal` are the laws of the nodes; `HoldsOnce`, that a path has one value,
goes by induction over the height.

*Lookups.* At every place of the walk the node there holds, at what is left of the
key, what the root holds at the key (`OnPath`, `ForwardOnPath`), so at the place
where the walk stops its slot is the answer (`StopIsExact`). The walk stops within
`NumChunks` turns, again by the heights. This holds with nodes that have replaced
others under a shared reference: `get` finds what is there now.

*Serialization.* The data of a suffix node is its values one after the other, and
`_deserialize` gives the n-th used slot the n-th slice of 32 bytes. That the slice
of a slot is its value goes by induction over the slots (`JoinedValues`): before
a slot lie as many values as there are used slots before it (`BeforeSteps`), each of
`ValueLen` words. The hypothesis `ValuesFit` says that; `verkle_rlp` shows what
happens without it.

*Proofs.* `PathOfKey` describes the places of a walk by their commitments: the
commitment of each opens, at the index walked by, to the next one's, and at the end
to the value. The verifier sees no nodes and tells their kinds by the length of the
path: `KindsOfPath` shows that it is right for a path that ends at a suffix node,
which is where the paths of present keys end. For soundness, an absent key's
path may also end at an extension of another stem; then the verifier opens the
extension at the key's suffix and expects the value there, while the prover has
opened it at 2 (`VerifiedKey`). The two openings agree only for suffix 2, and at
index 2 an extension's commitment holds a commitment, which is no value. A path
that ends at an empty slot raises in the prover. `Accepts` states for both schemes
what their pairing checks amount to. `RaisedIsUnlike` says that an exception is no
proof and no walk; `ValuesTold` that no two values are one element of the field and none is
zero there, an empty slot being committed to as zero: the verifier compares
elements.

*The deduplicated proof.* `GeneratedOptimized` shows, as for the trie, that the
indices of each key lead to the commitments of its path, in order, so what the
verifier expects is again `Accepts`. The prover's walk does not compare the stems of
extensions; for a present key it goes where the other goes (`LooseWalkIs`). That
the root's commitment is not in the list is not obvious where nodes may share
one: a path does not come back to the root's reference because the heights of
`IInv` fall along it (`RootIsAbove`). `ByteBits = ChunkBits` is a hypothesis:
`verkle_proof_optimized.py` cuts keys into bytes whatever the width of the tree,
so for other widths it proves something else or raises.

### The thread pool

For every number of threads, chunks, callers, calls and ranges, wakeups without
a notification and the destructor included. `PoolAssumption` gives the types of
the constants and says that `NoJob` and `Free` are no job and no thread.

The three safety properties lean on each other and on where everybody is, so
they are proved from one invariant, `IInv`:

* `PlacesOK`: a worker holds its mutex from the test of its job to the end of its
  jobs, a caller the pool's from entering to returning, and a thread has a call
  of `func` exactly while it runs one;
* `CallsOK`, `DtorOK`: calls in progress have elements, and no call is in
  progress while the pool is destroyed;
* `JobsOK`: a worker's job is the chunk of its number in the call in progress,
  and none is left behind the caller's loop of waiting; this is what keeps a
  reference to the caller's frame from outliving the call;
* `BusyOK`: a worker in its jobs has not given its own up, so the caller waits;
* `QueueOK`: the queue holds later chunks of this call until the caller has found
  it empty, before it begins to wait;
* `ExecsOK`: a running thread's number is its own index, and `threadCount - 1`
  for the caller, from which `NumbersDiffer` follows;
* `LoopsOK`: how far the caller's loops are, and that numbers it has written stay.

Each action has a lemma with one step for each part it can disturb; the parts it
cannot are lemmas of their own (`...Kept`), which say on which variables a part
depends. The number of chunks and of threads of a call enter only through the
lemmas `Counts` and `ChunkInts`, since they are quotients the provers need not
see.

`PoolImplementsParallelCall` is proved step by step: the pool's
initial states map to the abstract one's, and each action to an abstract step or
a stutter. What the abstract specification counts by elements the pool counts by
chunks, so first come lemmas about `divideWork` and the loop over chunks: the
bounds of consecutive chunks meet, the first begins where the range does, the
last ends where it ends, none is empty and none reaches into another. `IInv`
does not say which chunks are already done; `RInv` does:

* `QueuedOnce`: a chunk is in the queue once, and those behind the threads' own
  are there from the moment the caller has pushed them;
* `RunOnce`: no two threads run one chunk, and a chunk that is run is no longer
  waiting anywhere (`Untaken`), so nobody can begin it again;
* `AppliedOK`: `func` has been applied to an element unless its chunk is
  `Untaken` or the thread that runs it has not come so far.

When a caller returns, no chunk is untaken and no thread runs, so by `AppliedOK`
every element has had its application, which is what the abstract `Return`
asks for. `Start` and `Continue` ask that the element has had none, and `Start`
that the number is nobody else's: `AppliedOK` and `NumbersDiffer`.

### The proof server

For every number of clients, detached threads, cancellations and stops, and any
inputs and circuits. `ServerAssumption` gives the types of the constants and
says that `None` and `Empty` are told from the rest. Every safety property of
the server follows from one invariant, `IInv`:

* `ServerOK`: a poll that has compared the status has found that it is not
  "ready", and once all comparisons failed the calculation has ended; a status
  never becomes "ready" again without the process ending, and with it the poll.
  A pending input is there only when the endpoint has stopped in `abort()`, so
  `calcFinished`, which needs the mutex, never starts one;
* `ClientsOK`: a client that has posted has an input and a circuit;
* `RunsOK`: at most one thread runs, exactly while the status is busy, on the
  last input accepted; a cancellation is only set then, and nothing is aborted
  before anybody has canceled;
* `StagesOK`: what the running thread has done when it is where it is, from the
  input file through the witness to `pubData` and the proof. Here enters what
  the code does not check: the witness is of the accepted input unless the
  calculator left an earlier one (`Provable`), and a thread that ends without an
  error and without a cancellation has proved what it loaded;
* `OutcomeOK`: what each final status says of the accepted input.

`GoodInputsAreProved` is an action property: only the answer to a poll changes
what a client knows (`OtherStepsTellNothing`), and `IInv` says what the answer is.

### The lookup

For every field, lookups, parameters, bound on the last polynomial and on the
draws, and every outcome of the hash function. Acceptance needs `EnoughQueries`
besides: a level that `_verify_setup` allows has as many queries as it asks for.
`SecurityParameters.compute_parameters` returns 40, 60 or 80, and 20 are asked.

That the verifier follows the prover says nothing of what is still to come, and
a number it draws is the prover's only if all it has absorbed is the prover's.
`IInv` therefore gives both transcripts in closed form, by position:

* `PreambleOK`, `LayersOK`: entries 1 to 4 are the public inputs and the trace's
  commitment, 5 is alpha, `4 + 2n` and `5 + 2n` are the commitment and the
  challenge of layer `n`, and after the layers comes the last polynomial;
* `DrawsOK`: each entry after that is what the hash function has answered, and
  still answers, to the transcript before it, and was drawn while indices were
  missing. So the verifier, asking the same, draws the same number, and stops
  where the prover stopped (`WantedAsDrawn`);
* `ResponsesOK`: the responses are at the indices of these numbers;
* `ReplayOK`, `DrawnOK`: the verifier's transcript is the prover's up to the
  entry it has come to, with the count of challenges that belongs to it, and its
  numbers are the first ones drawn.

The verifier's place among the layers is the number of commitments absorbed
(`Replayed`); `LayersCounted` counts them in the closed form by a bijection. What
the polynomials, trees and rows are does not matter to any of this: they enter as
the values absorbed.

### The Groth16 prover's loops

For every circuit, witness and key, any domain, number of threads and of locks.
Assumed are the types of the constants (`MathAssumption`, `ProverAssumption`),
that the size of the domain is a power of two, which `fft` asserts
(`fft.cpp:180`), and `PowerAssumption`: powers of two double with each step, of
which the provers have no law. TLC evaluates all three.

The loops take no locks but one, because each element is supposed to have cells
of its own. That threads are at different elements is what `ParallelCall`
promises; but that the prover is inside the loop it was called for, and that
different elements have different cells, is not in it. `IInv`:

* `StepsOK`: what is left of `prove` are well-formed steps, the stages of a
  transform among those of the domain, and the assembly is the last;
* `PoolOK`: threads are at different elements of the step at the head, none of
  which is still to be taken, and between loops there are none;
* `LocksOK`: threads that have read a cell in the loop over the coefficients hold
  different locks, so their cells differ;
* `RootsOK`: in the block that fills the table of roots a thread is at its own
  number, and behind the start of its part.

`LoopsNeverRace` follows with a fact about each kind of loop:

* the permutation: an element works on its pair only if it is the larger of the
  two, so pairs meet only if bit reversal does not return (`ReversedTwice`);
* a stage of butterflies: the lower end has its quotient by `2^s` and its remainder
  below `2^(s-1)` from the element's number, the upper end is half a group
  higher, and a number has one quotient and one remainder (`ButterflyPairsApart`);
* the end of `ifft`: an element is below the middle and its partner above;
* the table of roots: a part ends where the next begins, and the last at the
  table's end, when the number of threads does not divide its size as well.

That a number with the reversed bits exists, and that bits determine a number,
go by induction over the number of bits. The library's induction theorems take an
operator; `SetInduction` takes the set of numbers for which the statement holds,
and is proved from the well-foundedness of `<`.

### Only model-checked

* Liveness: `CallsReturn`, `DestructorEnds`, and `PollingEndsOrDeadlock` of the
  server. The provers know neither fairness nor `ENABLED`.
* Of the Verkle tree, `RootIsCanonical` and the refinement of `DurableMap`. Both
  are false where nodes of one commitment overwrite each other, and true only for
  values and stems that rule this out, which `verkle_crash` does and no invariant
  says yet.
* `ProofIsAsPromised` of the lookup; `SumsAreExact`, `TransformsAreExact` and
  `AcceptedExactlyWhenSatisfied` of the Groth16 prover: trees, sums, products and
  transforms over arrays are folds with an operator as their argument, about which
  the provers can be given no law. `fr.cpp` is modelled with bit operations.

## 5. Not modelled

* `rapidsnark/depends/json` and `rapidsnark/depends/pistache`: third-party
  libraries, and most of the repository's lines. The server's model has what the
  server sees of them: a parse that throws, and requests handled one at a time.
* `circom/` but for the arithmetic of its calculators: a compiler that runs once
  for each circuit, kept as published.
* Of curves and fields: the sum of two affine points, `eq`, curves with `a`
  other than zero and extensions by another root, which the prover does not use;
  `multiexp.cpp`, `exp2.hpp` and `fft_old.cpp`, which it does not call. The
  assembly version of the field and its primes of more than two words are out of
  TLC's reach; a prime of three words of four bits (257) was checked once with
  the properties of `fr_element`.
* The C API, the standalone prover and the readers of `.zkey` and `.wtns` files:
  one call from buffers to buffers, with checks of sizes.
* `parallelFor` with 2^31 elements or more, where its `int` bounds overflow.
* `tree/poseidon_merkle_tree.py`: the algorithm of the trie, whose module takes
  the hash function as a parameter, but with one database for all trees.
* The SNARK batches and the scripts: planned, see below.
* `prover/verkle_multiproof_optimized.py` and its verifier: the prover goes
  through `node.children` of extensions (line 47), which are all `None`, and
  loading `None` raises.
* Hashes and polynomial arithmetic: pure or external.
* Values of at least the field's modulus, and duplicate keys in one request;
  the scripts take both from a dictionary of short values.
* `proof_size`, printing, logging, timing and the CSV file.

Counted over every source file of the repository, the modelled lines are a small
share, because most lines are of the vendored libraries and the compiler. The
trees, their proofs and the lookup are most of the repository's own algorithms;
of rapidsnark, the prover, its pool and arithmetic, and the server are modelled.

## 6. Plan

1. Done: Merkle trie and proofs with their theorems; Verkle
   tree and proofs; the lookup; the proof server; the thread pool, its
   refinement and its theorems, and those of the server, the lookup and the
   prover's loops; the Groth16 prover with curves and pairing; the witness
   arithmetic.
2. `PoseidonTrie`: two tree objects over the shared paths, as an instance of the
   trie's storage with interleaved inserts.
3. `SnarkBatches`: batches, padding, `MAX_DEPTH` and `MAX_CHUNKS`, files that a
   second call overwrites; with the prover of `Groth16Prover` at its end.
4. `Pipeline`: generation with an interruption, proving by another process,
   `tree_info.json` against what the tree holds.
5. Proofs: the canonical root and the refinement of the Verkle tree, from an
   invariant that no two nodes have one commitment when no value is zero and no
   stem begins with one; that the digits of a scalar (`SliceScalar`, `Naf`) are
   worth the scalar.
