-------------------------- MODULE StarkLookupProofs --------------------------
(***************************************************************************)
(* Proofs about StarkLookup, for every field, trace, length, security      *)
(* parameter and outcome of the hash function: the verifier's transcript   *)
(* retraces the prover's, and a lookup proved with parameters the verifier *)
(* allows is accepted.                                                     *)
(***************************************************************************)
EXTENDS StarkLookup, FiniteSetTheorems, TLAPS

-----------------------------------------------------------------------------
(* The inductive invariant: both transcripts, entry by entry.              *)

Sequence(s) == \E S : s \in Seq(S)

Prefix(s, n) == [i \in 1..n |-> s[i]]

IsTranscript(t) ==
  t = [log |-> t.log, count |-> t.count] /\ Sequence(t.log) /\ t.count \in Nat

\* A transcript that has absorbed the first n entries of the prover's.
AsFarAs(t, n, count) == t = [log |-> Prefix(transcript.log, n), count |-> count]

ProverPlaces   == {"commit", "alpha", "fold", "draw"}
VerifierPlaces == {"layers", "redraw"}
Places == {"idle", "raised", "verify", "done"} \cup ProverPlaces \cup VerifierPlaces

\* From here on all layers are folded and the last polynomial is sent.
FoldedPlaces == {"draw", "verify", "layers", "redraw", "done"}
\* From here on the proof is complete.
ProvedPlaces == FoldedPlaces \ {"draw"}

NLayers == Len(proof.layers)

\* The positions of the public inputs, the trace's commitment and alpha are
\* 1 to 5, a layer takes two, the last polynomial one, and each draw one.
LayerAt(n) == 4 + 2 * n
FinalAt    == 6 + 2 * NLayers
NDraws     == Len(transcript.log) - FinalAt

Number(j)  == transcript.log[FinalAt + j].bytes
Numbers(j) == [i \in 1..j |-> Number(i)]

\* What the hash function is asked for the j-th number.
Query(j) ==
  [log   |-> Prefix(transcript.log, FinalAt + j - 1),
   label |-> <<"query_index", j - 1>>,
   count |-> NLayers + j]

IsLayer(message) == "fri_layer" \in DOMAIN message

ProofOK ==
  /\ proof = [trace_commitment |-> proof.trace_commitment, layers |-> proof.layers,
              final |-> proof.final, responses |-> proof.responses]
  /\ Sequence(proof.layers)
  /\ DOMAIN columns = Registers

\* What both sides absorb first.
Preamble(l, commitment) == PublicInputs(l) \o <<[trace_commitment |-> commitment]>>

PreambleOK ==
  /\ Len(transcript.log) >= 5
  /\ Prefix(transcript.log, 4) = Preamble(lookup, proof.trace_commitment)
  /\ transcript.log[5] = [challenge |-> <<<<"alpha", 0>>, 0>>]

LayersOK ==
  /\ Len(transcript.log) >= 5 + 2 * NLayers
  /\ \A n \in 1..NLayers :
       /\ transcript.log[LayerAt(n)] = [fri_layer |-> Root(Leaves(proof.layers[n]))]
       /\ transcript.log[LayerAt(n) + 1] = [challenge |-> <<<<"fri_alpha", 0>>, n>>]

\* The numbers drawn are what the hash function answers, and none was drawn
\* that was not needed.
DrawsOK ==
  /\ NDraws \in Nat
  /\ transcript.count = 1 + NLayers + NDraws
  /\ transcript.log[FinalAt] = [fri_final |-> proof.final]
  /\ \A j \in 1..NDraws :
       /\ transcript.log[FinalAt + j] = [bytes |-> Number(j)]
       /\ Query(j) \in DOMAIN hash /\ hash[Query(j)] = Number(j)
       /\ Cardinality(Indices(Numbers(j - 1), Domain)) < Queries(lookup)

TranscriptOK ==
  /\ IsTranscript(transcript)
  /\ pc \in {"idle", "commit"} => transcript = Empty
  /\ pc = "alpha" =>
       /\ transcript = [log |-> Preamble(lookup, proof.trace_commitment), count |-> 0]
       /\ proof.layers = <<>>
  /\ pc \in {"alpha", "fold"} \cup FoldedPlaces => ProofOK
  /\ pc \in {"fold"} \cup FoldedPlaces => PreambleOK /\ LayersOK
  /\ pc = "fold" =>
       /\ Len(transcript.log) = 5 + 2 * NLayers
       /\ transcript.count = 1 + NLayers
  /\ pc \in FoldedPlaces => DrawsOK

\* The responses are about the points of the prover's draws.
ResponsesOK ==
  pc \in ProvedPlaces =>
    LET indices == Sorted(Indices(Numbers(NDraws), Domain))
    IN  /\ Cardinality(Indices(Numbers(NDraws), Domain)) = Queries(lookup)
        /\ proof.responses = [n \in DOMAIN indices |-> proof.responses[n]]
        /\ \A n \in DOMAIN indices :
             /\ proof.responses[n].index = indices[n]
             /\ DOMAIN proof.responses[n].values = Registers

\* How far the verifier has come: the layers absorbed, then the numbers drawn.
ReplayOK ==
  /\ pc \notin VerifierPlaces \cup {"done"} => replay = Empty
  /\ pc = "layers" =>
       \E n \in 0..NLayers : AsFarAs(replay, 5 + 2 * n, 1 + n)
  /\ pc = "redraw" =>
       /\ Len(drawn) \in 0..NDraws
       /\ AsFarAs(replay, FinalAt + Len(drawn), 1 + NLayers + Len(drawn))
  /\ pc = "done" =>
       \/ replay = Empty /\ ~SetupAccepted /\ verdict = FALSE
       \/ replay = transcript /\ SetupAccepted /\ verdict = TRUE
  /\ pc \in VerifierPlaces => SetupAccepted

DrawnOK ==
  /\ pc \notin {"draw", "redraw", "raised", "done"} => drawn = <<>>
  /\ pc = "draw" => drawn = Numbers(NDraws)
  /\ pc = "redraw" => drawn = Numbers(Len(drawn))

IInv == pc \in Places /\ TranscriptOK /\ ResponsesOK /\ ReplayOK /\ DrawnOK

-----------------------------------------------------------------------------
(* Sequences whose elements are of no particular set, and their prefixes.  *)

LEMMA PrefixType ==
  ASSUME NEW s, Sequence(s), NEW n \in 0..Len(s)
  PROVE  /\ Sequence(Prefix(s, n)) /\ Len(Prefix(s, n)) = n
         /\ \A i \in 1..n : Prefix(s, n)[i] = s[i]
<1> PICK S : s \in Seq(S)
  BY DEF Sequence
<1>1. Prefix(s, n) \in Seq(S) /\ Len(Prefix(s, n)) = n
  BY DEF Prefix
<1> QED
  BY <1>1 DEF Sequence, Prefix

LEMMA PrefixIsPrefix ==
  ASSUME NEW s, Sequence(s), NEW n \in 0..Len(s)
  PROVE  IsPrefix(Prefix(s, n), s)
<1> PICK S : s \in Seq(S)
  BY DEF Sequence
<1>1. Prefix(s, n) \in Seq(S) /\ Len(Prefix(s, n)) = n
  BY DEF Prefix
<1>2. SubSeq(Prefix(s, n), 1, n) = SubSeq(s, 1, n)
  BY <1>1 DEF Prefix
<1> QED
  BY <1>1, <1>2 DEF IsPrefix

LEMMA WholePrefix ==
  ASSUME NEW s, Sequence(s)
  PROVE  Len(s) \in Nat /\ Prefix(s, Len(s)) = s
  BY DEF Sequence, Prefix

LEMMA PrefixGrows ==
  ASSUME NEW s, Sequence(s), NEW n \in Nat, n < Len(s)
  PROVE  Append(Prefix(s, n), s[n + 1]) = Prefix(s, n + 1)
<1> PICK S : s \in Seq(S)
  BY DEF Sequence
<1>1. Prefix(s, n) \in Seq(S) /\ Len(Prefix(s, n)) = n
  BY DEF Prefix
<1>2. /\ Append(Prefix(s, n), s[n + 1]) \in Seq(S)
      /\ Len(Append(Prefix(s, n), s[n + 1])) = n + 1
      /\ \A i \in 1..(n + 1) : Append(Prefix(s, n), s[n + 1])[i] = s[i]
  BY <1>1 DEF Prefix
<1> QED
  BY <1>2 DEF Prefix

\* r is s and one element more.
Longer(r, s, e) ==
  /\ Sequence(r) /\ Len(s) \in Nat
  /\ Len(r) = Len(s) + 1 /\ r[Len(s) + 1] = e
  /\ \A i \in 1..Len(s) : r[i] = s[i]
  /\ \A n \in 0..Len(s) : Prefix(r, n) = Prefix(s, n)

LEMMA Appended ==
  ASSUME NEW s, Sequence(s), NEW e
  PROVE  Longer(Append(s, e), s, e)
<1> PICK r : r = Append(s, e)
  OBVIOUS
<1> PICK S : s \in Seq(S)
  BY DEF Sequence
<1>1. s \in Seq(S \cup {e})
  OBVIOUS
<1>2. /\ r \in Seq(S \cup {e}) /\ Len(s) \in Nat
      /\ Len(r) = Len(s) + 1 /\ r[Len(s) + 1] = e
      /\ \A i \in 1..Len(s) : r[i] = s[i]
  BY <1>1
<1>3. \A n \in 0..Len(s) : Prefix(r, n) = Prefix(s, n)
  BY <1>2 DEF Prefix
<1> QED
  BY <1>2, <1>3 DEF Sequence, Longer

LEMMA Absorbed ==
  ASSUME NEW log, NEW count, NEW messages
  PROVE  Absorb([log |-> log, count |-> count], messages) =
           [log |-> log \o messages, count |-> count]
<1> PICK t : t = [log |-> log, count |-> count]
  OBVIOUS
<1>l. PICK longer : longer = log \o messages
  OBVIOUS
<1>1. DOMAIN t = {"log", "count"}
  OBVIOUS
<1>2. [t EXCEPT !.log = longer] = [log |-> longer, count |-> count]
  BY <1>1
<1>3. t.log = log
  OBVIOUS
<1>4. Absorb(t, messages) = [t EXCEPT !.log = longer]
  BY <1>l, <1>3 DEF Absorb
<1> QED
  BY <1>l, <1>2, <1>4

LEMMA AbsorbedOne ==
  ASSUME NEW t, IsTranscript(t), NEW m
  PROVE  Absorb(t, <<m>>) = [log |-> Append(t.log, m), count |-> t.count]
<1> PICK S : t.log \in Seq(S)
  BY DEF IsTranscript, Sequence
<1>1. t.log \in Seq(S \cup {m}) /\ <<m>> \in Seq(S \cup {m})
  OBVIOUS
<1>2. t.log \o <<m>> = Append(t.log, m)
  BY <1>1
<1>3. Absorb([log |-> t.log, count |-> t.count], <<m>>) =
        [log |-> t.log \o <<m>>, count |-> t.count]
  BY Absorbed
<1>4. t = [log |-> t.log, count |-> t.count]
  BY DEF IsTranscript
<1> QED
  BY <1>2, <1>3, <1>4

LEMMA PreambleEntries ==
  ASSUME NEW l, NEW d
  PROVE  /\ Sequence(Preamble(l, d)) /\ Len(Preamble(l, d)) = 4
         /\ \A i \in 1..4 : ~IsLayer(Preamble(l, d)[i])
         /\ Absorb(Empty, Preamble(l, d)) = [log |-> Preamble(l, d), count |-> 0]
<1> PICK a, b, c : PublicInputs(l) =
                     <<[public_key |-> a], [public_value |-> b], [public_root |-> c]>>
  BY DEF PublicInputs
<1> DEFINE S == {[public_key |-> a], [public_value |-> b], [public_root |-> c],
                 [trace_commitment |-> d]}
<1>1. /\ PublicInputs(l) \in Seq(S) /\ Len(PublicInputs(l)) = 3
      /\ <<[trace_commitment |-> d]>> \in Seq(S)
  OBVIOUS
<1>2. /\ Preamble(l, d) \in Seq(S) /\ Len(Preamble(l, d)) = 4
      /\ Preamble(l, d)[1] = [public_key |-> a] /\ Preamble(l, d)[2] = [public_value |-> b]
      /\ Preamble(l, d)[3] = [public_root |-> c] /\ Preamble(l, d)[4] = [trace_commitment |-> d]
  BY <1>1 DEF Preamble
<1>3. \A i \in 1..4 : ~IsLayer(Preamble(l, d)[i])
  BY <1>2 DEF IsLayer
<1>4. <<>> \o Preamble(l, d) = Preamble(l, d)
  BY <1>2
<1>5. Absorb(Empty, Preamble(l, d)) = [log |-> <<>> \o Preamble(l, d), count |-> 0]
  BY Absorbed DEF Empty
<1> QED
  BY <1>2, <1>3, <1>4, <1>5 DEF Sequence

-----------------------------------------------------------------------------
(* The hash function and the indices *)

\* What was asked before keeps its answer.
HashKept == \A q \in DOMAIN hash : q \in DOMAIN hash' /\ hash'[q] = hash[q]

LEMMA HashedOnce ==
  ASSUME NEW t, NEW label, NEW S, NEW x, Hashed(t, label, S, x),
         NEW query, query = [log |-> t.log, label |-> label, count |-> t.count]
  PROVE  /\ HashKept
         /\ query \in DOMAIN hash' /\ hash'[query] = x
         /\ query \in DOMAIN hash => hash[query] = x
<1>1. /\ query \in DOMAIN hash => x = hash[query]
      /\ hash' = [q \in DOMAIN hash \cup {query} |-> IF q = query THEN x ELSE hash[q]]
  BY DEF Hashed
<1>2. DOMAIN hash' = DOMAIN hash \cup {query} /\ hash'[query] = x
  BY <1>1
<1>3. HashKept
  BY <1>1 DEF HashKept
<1> QED
  BY <1>1, <1>2, <1>3

LEMMA IndicesCount ==
  ASSUME NEW k \in Nat, NEW size
  PROVE  Cardinality(Indices(Numbers(k), size)) \in Nat
<1> DEFINE f == [i \in 1..k |-> Numbers(k)[i] % size]
<1>1. IsFiniteSet(1..k)
  BY FS_Interval, 1 \in Int, k \in Int, Zenon
<1>2. DOMAIN Numbers(k) = 1..k
  BY DEF Numbers
<1>3. Indices(Numbers(k), size) = {f[i] : i \in 1..k}
  BY <1>2 DEF Indices, ToSet
<1>4. f \in Surjection(1..k, Indices(Numbers(k), size))
  BY <1>3 DEF Surjection
<1>5. IsFiniteSet(Indices(Numbers(k), size))
  BY <1>1, <1>4, FS_Surjection
<1> QED
  BY <1>5, FS_CardinalityType

-----------------------------------------------------------------------------
(* What the verifier leaves alone *)

LEMMA ProverSideKept ==
  ASSUME pc \in ProvedPlaces, pc' \in ProvedPlaces, TranscriptOK, ResponsesOK, HashKept,
         UNCHANGED <<lookup, transcript, columns, proof>>
  PROVE  TranscriptOK' /\ ResponsesOK'
<1>1. /\ NLayers' = NLayers /\ FinalAt' = FinalAt /\ NDraws' = NDraws /\ Domain' = Domain
      /\ \A j : Number(j)' = Number(j) /\ Numbers(j)' = Numbers(j) /\ Query(j)' = Query(j)
  BY DEF NLayers, FinalAt, NDraws, Domain, Number, Numbers, Query
<1>2. DrawsOK
  BY DEF TranscriptOK, ProvedPlaces
<1>3. DrawsOK'
  <2>1. ASSUME NEW j \in 1..NDraws
        PROVE  /\ transcript'.log[FinalAt + j] = [bytes |-> Number(j)]
               /\ Query(j) \in DOMAIN hash' /\ hash'[Query(j)] = Number(j)
               /\ Cardinality(Indices(Numbers(j - 1), Domain)) < Queries(lookup)
    BY <1>2 DEF DrawsOK, HashKept
  <2>2. /\ NDraws \in Nat /\ transcript'.count = 1 + NLayers + NDraws
        /\ transcript'.log[FinalAt] = [fri_final |-> proof'.final]
    BY <1>2 DEF DrawsOK
  <2>3. Queries(lookup') = Queries(lookup)
    OBVIOUS
  <2> QED
    BY <1>1, <2>1, <2>2, <2>3 DEF DrawsOK
<1>4. ProofOK' /\ PreambleOK' /\ LayersOK'
  <2>1. ProofOK /\ PreambleOK /\ LayersOK
    BY DEF TranscriptOK, ProvedPlaces
  <2> QED
    BY <2>1 DEF ProofOK, PreambleOK, LayersOK, NLayers
<1>5. IsTranscript(transcript')
  BY DEF TranscriptOK
<1>6. TranscriptOK'
  BY <1>3, <1>4, <1>5 DEF TranscriptOK, ProvedPlaces, FoldedPlaces
<1>7. ResponsesOK'
  <2>1. Queries(lookup') = Queries(lookup)
    OBVIOUS
  <2> QED
    BY <1>1, <2>1 DEF ResponsesOK
<1> QED
  BY <1>6, <1>7

-----------------------------------------------------------------------------
(* The prover *)

LEMMA InvariantInitially == Init => IInv
<1> SUFFICES ASSUME Init PROVE IInv
  OBVIOUS
<1>1. IsTranscript(Empty)
  BY DEF IsTranscript, Empty, Sequence
<1>2. pc = "idle" /\ transcript = Empty /\ replay = Empty /\ drawn = <<>>
  BY DEF Init
<1>3. TranscriptOK
  BY <1>1, <1>2 DEF TranscriptOK, FoldedPlaces
<1>4. ResponsesOK /\ ReplayOK /\ DrawnOK
  BY <1>2 DEF ResponsesOK, ReplayOK, DrawnOK, ProvedPlaces, FoldedPlaces, VerifierPlaces
<1> QED
  BY <1>2, <1>3, <1>4 DEF IInv, Places

LEMMA ProveKeeps ==
  ASSUME IInv, NEW l \in Lookups, Prove(l)
  PROVE  IInv'
<1>1. /\ pc = "idle" /\ pc' \in {"commit", "raised"}
      /\ UNCHANGED <<transcript, drawn, replay>>
  BY DEF Prove
<1>2. transcript = Empty /\ IsTranscript(transcript)
  BY <1>1 DEF IInv, TranscriptOK
<1>3. TranscriptOK'
  BY <1>1, <1>2 DEF TranscriptOK, FoldedPlaces
<1>4. replay = Empty /\ drawn = <<>>
  BY <1>1 DEF IInv, ReplayOK, DrawnOK, VerifierPlaces
<1>5. ResponsesOK' /\ ReplayOK' /\ DrawnOK'
  BY <1>1, <1>4 DEF ResponsesOK, ReplayOK, DrawnOK, ProvedPlaces, FoldedPlaces, VerifierPlaces
<1> QED
  BY <1>1, <1>3, <1>5 DEF IInv, Places, ProverPlaces

LEMMA CommitTraceKeeps ==
  ASSUME IInv, CommitTrace
  PROVE  IInv'
<1>1. /\ pc = "commit" /\ pc' = "alpha"
      /\ DOMAIN columns' = Registers
      /\ UNCHANGED <<drawn, replay, lookup>>
  BY DEF CommitTrace
<1>2. PICK c : /\ proof' = [trace_commitment |-> c, layers |-> <<>>,
                            final |-> Nothing, responses |-> <<>>]
               /\ transcript' = Absorb(transcript, Preamble(lookup, c))
  BY DEF CommitTrace, Preamble
<1>3. transcript = Empty
  BY <1>1 DEF IInv, TranscriptOK
<1>4. /\ transcript' = [log |-> Preamble(lookup, c), count |-> 0]
      /\ Sequence(Preamble(lookup, c))
  BY <1>2, <1>3, PreambleEntries
<1>5. IsTranscript(transcript')
  BY <1>4 DEF IsTranscript
<1>6. proof'.layers = <<>> /\ proof'.trace_commitment = c
  BY <1>2
<1>7. ProofOK'
  BY <1>1, <1>2 DEF ProofOK, Sequence
<1>8. TranscriptOK'
  BY <1>1, <1>4, <1>5, <1>6, <1>7 DEF TranscriptOK, FoldedPlaces
<1>9. ResponsesOK' /\ ReplayOK' /\ DrawnOK'
  BY <1>1 DEF IInv, ResponsesOK, ReplayOK, DrawnOK, ProvedPlaces, FoldedPlaces, VerifierPlaces
<1> QED
  BY <1>1, <1>8, <1>9 DEF IInv, Places, ProverPlaces

LEMMA DrawAlphaKeeps ==
  ASSUME IInv, DrawAlpha
  PROVE  IInv'
<1>1. /\ pc = "alpha" /\ pc' = "fold"
      /\ transcript' = Challenged(transcript, <<"alpha", 0>>)
      /\ UNCHANGED <<lookup, columns, drawn, proof, replay>>
  BY DEF DrawAlpha
<1>p. PICK first : first = Preamble(lookup, proof.trace_commitment)
  OBVIOUS
<1>2. /\ transcript = [log |-> first, count |-> 0]
      /\ proof.layers = <<>> /\ ProofOK
  BY <1>1, <1>p DEF IInv, TranscriptOK
<1>3. transcript' = [log   |-> Append(first, [challenge |-> <<<<"alpha", 0>>, 0>>]),
                     count |-> 1]
  BY <1>1, <1>2 DEF Challenged
<1>4. Sequence(first) /\ Len(first) = 4 /\ Prefix(first, 4) = first
  BY <1>p, PreambleEntries, WholePrefix
<1>5. /\ Sequence(transcript'.log) /\ Len(transcript'.log) = 5
      /\ transcript'.log[5] = [challenge |-> <<<<"alpha", 0>>, 0>>]
      /\ Prefix(transcript'.log, 4) = first
  <2>1. transcript'.log = Append(first, [challenge |-> <<<<"alpha", 0>>, 0>>])
    BY <1>3
  <2>2. PICK r, e : r = transcript'.log /\ e = [challenge |-> <<<<"alpha", 0>>, 0>>]
    OBVIOUS
  <2>3. r = Append(first, e)
    BY <2>1, <2>2
  <2>4. Longer(r, first, e)
    BY <1>4, <2>3, Appended
  <2> QED
    BY <1>4, <2>2, <2>4 DEF Longer
<1>6. IsTranscript(transcript')
  BY <1>3, <1>5 DEF IsTranscript
<1>7. ProofOK' /\ NLayers' = 0
  BY <1>1, <1>2 DEF ProofOK, NLayers
<1>8. PreambleOK'
  BY <1>1, <1>5, <1>p DEF PreambleOK
<1>9. LayersOK'
  BY <1>5, <1>7 DEF LayersOK
<1>10. TranscriptOK'
  BY <1>1, <1>3, <1>5, <1>6, <1>7, <1>8, <1>9 DEF TranscriptOK, FoldedPlaces
<1>11. ResponsesOK' /\ ReplayOK' /\ DrawnOK'
  BY <1>1 DEF IInv, ResponsesOK, ReplayOK, DrawnOK, ProvedPlaces, FoldedPlaces, VerifierPlaces
<1> QED
  BY <1>1, <1>10, <1>11 DEF IInv, Places, ProverPlaces

LEMMA LayerAdded ==
  ASSUME NEW commitment, NEW layers, NEW final, NEW responses, NEW layer,
         proof = [trace_commitment |-> commitment, layers |-> layers,
                  final |-> final, responses |-> responses],
         proof' = [proof EXCEPT !.layers = Append(@, layer)]
  PROVE  proof' = [trace_commitment |-> commitment, layers |-> Append(layers, layer),
                   final |-> final, responses |-> responses]
<1>1. DOMAIN proof = {"trace_commitment", "layers", "final", "responses"}
  OBVIOUS
<1>2. proof.layers = layers
  OBVIOUS
<1> PICK more : more = Append(layers, layer)
  OBVIOUS
<1>3. proof' = [proof EXCEPT !.layers = more]
  BY <1>2
<1> QED
  BY <1>1, <1>3

LEMMA FoldLayerKeeps ==
  ASSUME IInv, FoldLayer
  PROVE  IInv'
<1>n. PICK n : n = NLayers
  OBVIOUS
<1>g. PICK log : log = transcript.log
  OBVIOUS
<1>m. PICK message : message = [fri_layer |-> Root(Leaves(poly))]
  OBVIOUS
<1>c. PICK challenge : challenge = [challenge |-> <<<<"fri_alpha", 0>>, 1 + n>>]
  OBVIOUS
<1>1. /\ pc = "fold" /\ pc' = "fold"
      /\ transcript' = Challenged(Absorb(transcript, <<message>>), <<"fri_alpha", 0>>)
      /\ proof' = [proof EXCEPT !.layers = Append(@, poly)]
      /\ UNCHANGED <<lookup, columns, drawn, replay>>
  BY <1>m DEF FoldLayer
<1>2. /\ IsTranscript(transcript) /\ ProofOK /\ PreambleOK /\ LayersOK
      /\ Len(log) = 5 + 2 * n /\ transcript.count = 1 + n
  BY <1>1, <1>n, <1>g DEF IInv, TranscriptOK
<1>3. Sequence(log) /\ transcript = [log |-> log, count |-> 1 + n] /\ n \in Nat
  BY <1>2, <1>n, <1>g, WholePrefix DEF IsTranscript, ProofOK, NLayers
<1>4. Absorb(transcript, <<message>>) = [log |-> Append(log, message), count |-> 1 + n]
  BY <1>2, <1>3, AbsorbedOne
<1>5. transcript' = [log   |-> Append(Append(log, message), challenge),
                     count |-> 2 + n]
  <2>1. PICK t : t = [log |-> Append(log, message), count |-> 1 + n]
    OBVIOUS
  <2>2. transcript' = [log |-> Append(t.log, [challenge |-> <<<<"fri_alpha", 0>>, t.count>>]),
                       count |-> t.count + 1]
    BY <1>1, <1>4, <2>1 DEF Challenged
  <2>3. t.log = Append(log, message) /\ t.count = 1 + n /\ t.count + 1 = 2 + n
    BY <1>3, <2>1
  <2> QED
    BY <1>c, <2>2, <2>3
<1>7. /\ Sequence(transcript'.log) /\ Len(transcript'.log) = 7 + 2 * n
      /\ transcript'.log[6 + 2 * n] = message /\ transcript'.log[7 + 2 * n] = challenge
      /\ \A i \in 1..(5 + 2 * n) : transcript'.log[i] = log[i]
      /\ Prefix(transcript'.log, 4) = Prefix(log, 4)
  <2>1. PICK s : s = Append(log, message)
    OBVIOUS
  <2>2. /\ Sequence(s) /\ Len(s) = 6 + 2 * n /\ s[6 + 2 * n] = message
        /\ \A i \in 1..(5 + 2 * n) : s[i] = log[i]
        /\ Prefix(s, 4) = Prefix(log, 4)
    <3>1. Longer(s, log, message)
      BY <1>3, <2>1, Appended
    <3> QED
      BY <1>2, <1>3, <3>1 DEF Longer
  <2>3. PICK r : r = transcript'.log
    OBVIOUS
  <2>4. r = Append(s, challenge)
    BY <1>5, <2>1, <2>3
  <2>5. /\ Sequence(r) /\ Len(r) = 7 + 2 * n /\ r[7 + 2 * n] = challenge
        /\ \A i \in 1..(6 + 2 * n) : r[i] = s[i]
        /\ Prefix(r, 4) = Prefix(s, 4)
    <3>1. Longer(r, s, challenge)
      BY <2>2, <2>4, Appended
    <3> QED
      BY <1>3, <2>2, <3>1 DEF Longer
  <2>6. /\ r[6 + 2 * n] = message
        /\ \A i \in 1..(5 + 2 * n) : r[i] = log[i]
    BY <1>3, <2>2, <2>5
  <2> QED
    BY <2>2, <2>3, <2>5, <2>6
<1>8. IsTranscript(transcript')
  BY <1>3, <1>5, <1>7 DEF IsTranscript
<1>9. /\ proof' = [trace_commitment |-> proof.trace_commitment,
                   layers |-> Append(proof.layers, poly),
                   final |-> proof.final, responses |-> proof.responses]
  <2>1. PICK c, s, f, r : /\ c = proof.trace_commitment /\ s = proof.layers
                          /\ f = proof.final /\ r = proof.responses
    OBVIOUS
  <2>2. proof = [trace_commitment |-> c, layers |-> s, final |-> f, responses |-> r]
    BY <1>2, <2>1 DEF ProofOK
  <2> QED
    BY <1>1, <2>1, <2>2, LayerAdded
<1>10. /\ Sequence(proof'.layers) /\ NLayers' = n + 1
       /\ proof'.layers[n + 1] = poly
       /\ \A i \in 1..n : proof'.layers[i] = proof.layers[i]
  <2>1. proof'.layers = Append(proof.layers, poly) /\ Sequence(proof.layers)
    BY <1>2, <1>9 DEF ProofOK
  <2>2. Longer(proof'.layers, proof.layers, poly)
    BY <2>1, Appended
  <2> QED
    BY <1>n, <2>2 DEF Longer, NLayers
<1>11. ProofOK'
  BY <1>1, <1>2, <1>9, <1>10 DEF ProofOK
<1>12. PreambleOK'
  <2>1. 5 \in 1..(5 + 2 * n) /\ 7 + 2 * n >= 5
    BY <1>3
  <2>2. Len(transcript'.log) >= 5 /\ transcript'.log[5] = log[5]
    BY <1>7, <2>1
  <2>3. Prefix(transcript'.log, 4) = Prefix(transcript.log, 4)
    BY <1>7, <1>g
  <2>4. lookup' = lookup /\ proof'.trace_commitment = proof.trace_commitment
    BY <1>1, <1>9
  <2> QED
    BY <1>2, <1>g, <2>2, <2>3, <2>4 DEF PreambleOK
<1>13. LayersOK'
  <2>1. \A i \in 1..n : /\ log[LayerAt(i)] = [fri_layer |-> Root(Leaves(proof.layers[i]))]
                        /\ log[LayerAt(i) + 1] = [challenge |-> <<<<"fri_alpha", 0>>, i>>]
    BY <1>2, <1>n, <1>g DEF LayersOK
  <2>2. ASSUME NEW i \in 1..(n + 1)
        PROVE  /\ transcript'.log[LayerAt(i)] = [fri_layer |-> Root(Leaves(proof'.layers[i]))]
               /\ transcript'.log[LayerAt(i) + 1] = [challenge |-> <<<<"fri_alpha", 0>>, i>>]
    <3>1. CASE i = n + 1
      <4>1. LayerAt(i) = 6 + 2 * n /\ LayerAt(i) + 1 = 7 + 2 * n
        BY <1>3, <3>1 DEF LayerAt
      <4>2. /\ transcript'.log[LayerAt(i)] = message
            /\ transcript'.log[LayerAt(i) + 1] = challenge
            /\ proof'.layers[i] = poly
        BY <1>7, <1>10, <3>1, <4>1
      <4>3. challenge = [challenge |-> <<<<"fri_alpha", 0>>, i>>]
        BY <1>3, <1>c, <3>1
      <4> QED
        BY <1>m, <4>2, <4>3
    <3>2. CASE i \in 1..n
      <4>1. LayerAt(i) \in 1..(5 + 2 * n) /\ LayerAt(i) + 1 \in 1..(5 + 2 * n)
        BY <1>3, <3>2 DEF LayerAt
      <4>2. /\ transcript'.log[LayerAt(i)] = log[LayerAt(i)]
            /\ transcript'.log[LayerAt(i) + 1] = log[LayerAt(i) + 1]
        BY <1>7, <4>1
      <4>3. proof'.layers[i] = proof.layers[i]
        BY <1>10, <3>2
      <4> QED
        BY <2>1, <3>2, <4>2, <4>3
    <3> QED
      BY <1>3, <3>1, <3>2
  <2> QED
    BY <1>3, <1>7, <1>10, <2>2 DEF LayersOK
<1>14. TranscriptOK'
  <2>1. /\ Len(transcript'.log) = 5 + 2 * NLayers'
        /\ transcript'.count = 1 + NLayers'
    BY <1>3, <1>5, <1>7, <1>10
  <2> QED
    BY <1>1, <1>8, <1>11, <1>12, <1>13, <2>1 DEF TranscriptOK, FoldedPlaces
<1>15. ResponsesOK' /\ ReplayOK' /\ DrawnOK'
  BY <1>1 DEF IInv, ResponsesOK, ReplayOK, DrawnOK, ProvedPlaces, FoldedPlaces, VerifierPlaces
<1> QED
  BY <1>1, <1>14, <1>15 DEF IInv, Places, ProverPlaces

LEMMA FinalSet ==
  ASSUME NEW commitment, NEW layers, NEW final, NEW responses, NEW polynomial,
         proof = [trace_commitment |-> commitment, layers |-> layers,
                  final |-> final, responses |-> responses],
         proof' = [proof EXCEPT !.final = polynomial]
  PROVE  proof' = [trace_commitment |-> commitment, layers |-> layers,
                   final |-> polynomial, responses |-> responses]
<1>1. DOMAIN proof = {"trace_commitment", "layers", "final", "responses"}
  OBVIOUS
<1> QED
  BY <1>1

LEMMA ResponsesSet ==
  ASSUME NEW commitment, NEW layers, NEW final, NEW responses, NEW answers,
         proof = [trace_commitment |-> commitment, layers |-> layers,
                  final |-> final, responses |-> responses],
         proof' = [proof EXCEPT !.responses = answers]
  PROVE  proof' = [trace_commitment |-> commitment, layers |-> layers,
                   final |-> final, responses |-> answers]
<1>1. DOMAIN proof = {"trace_commitment", "layers", "final", "responses"}
  OBVIOUS
<1> QED
  BY <1>1

\* The entries up to the last layer's stay while more is absorbed and the layers
\* are what they were.
LEMMA EarlyEntriesKept ==
  ASSUME PreambleOK, LayersOK, lookup' = lookup,
         proof'.trace_commitment = proof.trace_commitment, proof'.layers = proof.layers,
         NLayers \in Nat, Len(transcript.log) \in Nat, NEW e,
         Longer(transcript'.log, transcript.log, e)
  PROVE  PreambleOK' /\ LayersOK'
<1>n. PICK n : n = NLayers
  OBVIOUS
<1>1. PICK log : log = transcript.log
  OBVIOUS
<1>2. PICK longer : longer = transcript'.log
  OBVIOUS
<1>3. /\ Len(log) \in Nat /\ Len(log) >= 5 /\ n \in Nat /\ Len(log) >= 5 + 2 * n
      /\ Prefix(log, 4) = Preamble(lookup, proof.trace_commitment)
      /\ log[5] = [challenge |-> <<<<"alpha", 0>>, 0>>]
  BY <1>n, <1>1 DEF PreambleOK, LayersOK
<1>4. /\ Len(longer) = Len(log) + 1
      /\ \A i \in 1..Len(log) : longer[i] = log[i]
      /\ Prefix(longer, 4) = Prefix(log, 4)
  BY <1>1, <1>2, <1>3 DEF Longer
<1>5. PreambleOK'
  BY <1>2, <1>3, <1>4 DEF PreambleOK
<1>6. NLayers' = n
  BY <1>n DEF NLayers
<1>7. ASSUME NEW i \in 1..n
      PROVE  /\ longer[LayerAt(i)] = [fri_layer |-> Root(Leaves(proof.layers[i]))]
             /\ longer[LayerAt(i) + 1] = [challenge |-> <<<<"fri_alpha", 0>>, i>>]
  <2>1. LayerAt(i) \in 1..Len(log) /\ LayerAt(i) + 1 \in 1..Len(log)
    BY <1>3 DEF LayerAt
  <2>2. /\ log[LayerAt(i)] = [fri_layer |-> Root(Leaves(proof.layers[i]))]
        /\ log[LayerAt(i) + 1] = [challenge |-> <<<<"fri_alpha", 0>>, i>>]
    BY <1>n, <1>1 DEF LayersOK
  <2> QED
    BY <1>4, <2>1, <2>2
<1>8. Len(longer) >= 5 + 2 * n
  BY <1>3, <1>4
<1>9. LayersOK'
  BY <1>2, <1>6, <1>7, <1>8 DEF LayersOK
<1> QED
  BY <1>5, <1>9

LEMMA FinishFriKeeps ==
  ASSUME IInv, FinishFri
  PROVE  IInv'
<1>n. PICK n : n = NLayers
  OBVIOUS
<1>g. PICK log : log = transcript.log
  OBVIOUS
<1>m. PICK message : message = [fri_final |-> poly]
  OBVIOUS
<1>1. /\ pc = "fold" /\ pc' = "draw"
      /\ transcript' = Absorb(transcript, <<message>>)
      /\ proof' = [proof EXCEPT !.final = poly]
      /\ UNCHANGED <<lookup, columns, drawn, replay>>
  BY <1>m DEF FinishFri
<1>2. /\ IsTranscript(transcript) /\ ProofOK /\ PreambleOK /\ LayersOK
      /\ Len(log) = 5 + 2 * n /\ transcript.count = 1 + n
  BY <1>1, <1>n, <1>g DEF IInv, TranscriptOK
<1>3. Sequence(log) /\ n \in Nat
  BY <1>2, <1>n, <1>g, WholePrefix DEF IsTranscript, ProofOK, NLayers
<1>4. transcript' = [log |-> Append(log, message), count |-> 1 + n]
  BY <1>1, <1>2, <1>g, AbsorbedOne
<1>5. Longer(transcript'.log, log, message)
  BY <1>3, <1>4, Appended
<1>6. /\ Len(transcript'.log) = 6 + 2 * n
      /\ transcript'.log[6 + 2 * n] = message
      /\ Sequence(transcript'.log)
  BY <1>2, <1>3, <1>5 DEF Longer
<1>7. proof' = [trace_commitment |-> proof.trace_commitment, layers |-> proof.layers,
                final |-> poly, responses |-> proof.responses]
  <2>1. PICK c, s, f, r : /\ c = proof.trace_commitment /\ s = proof.layers
                          /\ f = proof.final /\ r = proof.responses
    OBVIOUS
  <2>2. proof = [trace_commitment |-> c, layers |-> s, final |-> f, responses |-> r]
    BY <1>2, <2>1 DEF ProofOK
  <2> QED
    BY <1>1, <2>1, <2>2, FinalSet
<1>8. ProofOK'
  BY <1>1, <1>2, <1>7 DEF ProofOK
<1>9. PreambleOK' /\ LayersOK'
  <2>1. Len(transcript.log) \in Nat
    BY <1>2, <1>3, <1>g
  <2>2. proof'.trace_commitment = proof.trace_commitment /\ proof'.layers = proof.layers
    BY <1>7
  <2>3. Longer(transcript'.log, transcript.log, message)
    BY <1>5, <1>g
  <2> QED
    BY <1>1, <1>2, <1>3, <1>n, <2>1, <2>2, <2>3, EarlyEntriesKept
<1>10. NLayers' = n /\ FinalAt' = 6 + 2 * n /\ NDraws' = 0
  BY <1>3, <1>6, <1>7, <1>n DEF NLayers, FinalAt, NDraws
<1>11. DrawsOK'
  <2>1. transcript'.log[6 + 2 * n] = [fri_final |-> proof'.final]
    BY <1>6, <1>7, <1>m
  <2>2. transcript'.count = 1 + n + 0
    BY <1>3, <1>4
  <2> QED
    BY <1>10, <2>1, <2>2 DEF DrawsOK
<1>12. IsTranscript(transcript')
  BY <1>3, <1>4, <1>6 DEF IsTranscript
<1>13. TranscriptOK'
  BY <1>1, <1>8, <1>9, <1>11, <1>12 DEF TranscriptOK, FoldedPlaces
<1>14. DrawnOK'
  <2>1. drawn = <<>>
    BY <1>1 DEF IInv, DrawnOK
  <2>2. Numbers(NDraws)' = <<>>
    BY <1>10 DEF Numbers
  <2> QED
    BY <1>1, <2>1, <2>2 DEF DrawnOK
<1>15. ResponsesOK' /\ ReplayOK'
  BY <1>1 DEF IInv, ResponsesOK, ReplayOK, ProvedPlaces, FoldedPlaces, VerifierPlaces
<1> QED
  BY <1>1, <1>13, <1>14, <1>15 DEF IInv, Places, ProverPlaces

LEMMA TooManyQueriesKeeps ==
  ASSUME IInv, TooManyQueries
  PROVE  IInv'
<1>1. /\ pc = "draw" /\ pc' = "raised"
      /\ UNCHANGED <<transcript, replay>>
  BY DEF TooManyQueries
<1>2. TranscriptOK'
  BY <1>1 DEF IInv, TranscriptOK, FoldedPlaces
<1>3. ResponsesOK' /\ ReplayOK' /\ DrawnOK'
  BY <1>1 DEF IInv, ResponsesOK, ReplayOK, DrawnOK, ProvedPlaces, FoldedPlaces, VerifierPlaces
<1> QED
  BY <1>1, <1>2, <1>3 DEF IInv, Places

LEMMA DrawQueryKeeps ==
  ASSUME IInv, DrawQuery
  PROVE  IInv'
<1>n. PICK n : n = NLayers
  OBVIOUS
<1>d. PICK d : d = NDraws
  OBVIOUS
<1>g. PICK log : log = transcript.log
  OBVIOUS
<1>1. PICK x : /\ pc = "draw" /\ pc' = "draw"
               /\ Draw(transcript, x)
               /\ transcript' = ChallengedBytes(transcript, x)
               /\ UNCHANGED <<lookup, columns, proof, replay>>
  BY DEF DrawQuery
<1>m. PICK message : message = [bytes |-> x]
  OBVIOUS
<1>2. /\ IsTranscript(transcript) /\ ProofOK /\ PreambleOK /\ LayersOK /\ DrawsOK
  BY <1>1 DEF IInv, TranscriptOK, FoldedPlaces
<1>3. /\ Sequence(log) /\ Len(log) \in Nat /\ n \in Nat /\ d \in Nat
      /\ transcript = [log |-> log, count |-> 1 + n + d]
      /\ Len(log) = 6 + 2 * n + d
  <2>1. Sequence(log) /\ Len(log) \in Nat /\ n \in Nat
    BY <1>2, <1>n, <1>g, WholePrefix DEF IsTranscript, ProofOK, NLayers
  <2>2. d \in Nat /\ d = Len(log) - (6 + 2 * n)
    BY <1>2, <1>n, <1>d, <1>g DEF DrawsOK, NDraws, FinalAt
  <2>3. transcript = [log |-> log, count |-> 1 + n + d]
    BY <1>2, <1>n, <1>d, <1>g DEF IsTranscript, DrawsOK
  <2> QED
    BY <2>1, <2>2, <2>3
<1>4. transcript' = [log |-> Append(log, message), count |-> 2 + n + d]
  <2>1. transcript.log = log /\ transcript.count + 1 = 2 + n + d
    BY <1>3
  <2> QED
    BY <1>1, <1>m, <2>1 DEF ChallengedBytes
<1>5. Longer(transcript'.log, log, message)
  BY <1>3, <1>4, Appended
<1>6. /\ Len(transcript'.log) = 7 + 2 * n + d
      /\ transcript'.log[7 + 2 * n + d] = message
      /\ Sequence(transcript'.log)
      /\ \A i \in 1..(6 + 2 * n + d) : transcript'.log[i] = log[i]
      /\ \A i \in 0..(6 + 2 * n + d) : Prefix(transcript'.log, i) = Prefix(log, i)
  BY <1>3, <1>5 DEF Longer
<1>7. IsTranscript(transcript')
  BY <1>3, <1>4, <1>6 DEF IsTranscript
<1>8. ProofOK'
  BY <1>1, <1>2 DEF ProofOK
<1>9. PreambleOK' /\ LayersOK'
  <2>1. Len(transcript.log) \in Nat
    BY <1>3, <1>g
  <2>2. proof'.trace_commitment = proof.trace_commitment /\ proof'.layers = proof.layers
    BY <1>1
  <2>3. Longer(transcript'.log, transcript.log, message)
    BY <1>5, <1>g
  <2> QED
    BY <1>1, <1>2, <1>3, <1>n, <2>1, <2>2, <2>3, EarlyEntriesKept
<1>10. /\ NLayers' = n /\ FinalAt' = 6 + 2 * n /\ NDraws' = d + 1
       /\ FinalAt = 6 + 2 * n /\ Domain' = Domain
  <2>1. NLayers' = n /\ Domain' = Domain
    BY <1>1, <1>n DEF NLayers, Domain
  <2>2. FinalAt = 6 + 2 * n /\ FinalAt' = 6 + 2 * n
    BY <1>n, <2>1 DEF FinalAt
  <2>3. Len(transcript'.log) - (6 + 2 * n) = d + 1
    BY <1>3, <1>6
  <2> QED
    BY <2>1, <2>2, <2>3 DEF NDraws
<1>11. /\ \A j \in 1..d : Number(j)' = Number(j)
       /\ Number(d + 1)' = x
  <2>1. ASSUME NEW j \in 1..d PROVE Number(j)' = Number(j)
    <3>1. 6 + 2 * n + j \in 1..(6 + 2 * n + d)
      BY <1>3
    <3> QED
      BY <1>6, <1>10, <1>g, <3>1 DEF Number
  <2>2. Number(d + 1)' = x
    <3>1. 6 + 2 * n + (d + 1) = 7 + 2 * n + d
      BY <1>3
    <3> QED
      BY <1>6, <1>10, <1>m, <3>1 DEF Number
  <2> QED
    BY <2>1, <2>2
<1>12. \A k \in 0..d : Numbers(k)' = Numbers(k)
  BY <1>3, <1>11 DEF Numbers
<1>13. drawn = Numbers(d) /\ Len(drawn) = d
  <2>1. drawn = Numbers(d)
    BY <1>1, <1>d DEF IInv, DrawnOK
  <2> QED
    BY <1>3, <2>1 DEF Numbers
<1>14. \A j \in 1..d : Query(j)' = Query(j)
  <2>1. ASSUME NEW j \in 1..d PROVE Query(j)' = Query(j)
    <3>1. 6 + 2 * n + j - 1 \in 0..(6 + 2 * n + d)
      BY <1>3
    <3>2. Prefix(transcript'.log, 6 + 2 * n + j - 1) = Prefix(log, 6 + 2 * n + j - 1)
      BY <1>6, <3>1
    <3> QED
      BY <1>10, <1>n, <1>g, <3>2 DEF Query
  <2> QED
    BY <2>1
<1>q. PICK query : query = [log |-> log, label |-> <<"query_index", d>>,
                            count |-> 1 + n + d]
  OBVIOUS
<1>15. Query(d + 1)' = query
  <2>1. 6 + 2 * n + (d + 1) - 1 = 6 + 2 * n + d /\ (d + 1) - 1 = d /\ n + (d + 1) = 1 + n + d
    BY <1>3
  <2>2. Prefix(transcript'.log, 6 + 2 * n + d) = log
    BY <1>3, <1>6, WholePrefix
  <2> QED
    BY <1>10, <1>q, <2>1, <2>2 DEF Query
<1>16. HashKept /\ query \in DOMAIN hash' /\ hash'[query] = x
  <2>1. Hashed(transcript, <<"query_index", d>>, HashNumbers, x)
    BY <1>1, <1>13 DEF Draw
  <2>2. query = [log |-> transcript.log, label |-> <<"query_index", d>>,
                 count |-> transcript.count]
    BY <1>3, <1>q
  <2> QED
    BY <2>1, <2>2, HashedOnce
<1>17. ASSUME NEW j \in 1..(d + 1)
       PROVE  /\ transcript'.log[6 + 2 * n + j] = [bytes |-> Number(j)']
              /\ Query(j)' \in DOMAIN hash' /\ hash'[Query(j)'] = Number(j)'
              /\ Cardinality(Indices(Numbers(j - 1)', Domain)) < Queries(lookup)
  <2>1. CASE j \in 1..d
    <3>1. /\ log[6 + 2 * n + j] = [bytes |-> Number(j)]
          /\ Query(j) \in DOMAIN hash /\ hash[Query(j)] = Number(j)
          /\ Cardinality(Indices(Numbers(j - 1), Domain)) < Queries(lookup)
      BY <1>2, <1>10, <1>g, <1>d, <2>1 DEF DrawsOK
    <3>2. transcript'.log[6 + 2 * n + j] = log[6 + 2 * n + j]
      <4>1. 6 + 2 * n + j \in 1..(6 + 2 * n + d)
        BY <1>3, <2>1
      <4> QED
        BY <1>6, <4>1
    <3>3. Numbers(j - 1)' = Numbers(j - 1)
      BY <1>3, <1>12, <2>1
    <3>4. Number(j)' = Number(j) /\ Query(j)' = Query(j)
      BY <1>11, <1>14, <2>1
    <3> QED
      BY <1>16, <3>1, <3>2, <3>3, <3>4 DEF HashKept
  <2>2. CASE j = d + 1
    <3>1. 6 + 2 * n + j = 7 + 2 * n + d /\ j - 1 = d
      BY <1>3, <2>2
    <3>2. Numbers(d)' = drawn
      BY <1>3, <1>12, <1>13
    <3>3. Cardinality(Indices(drawn, Domain)) < Queries(lookup)
      BY <1>1 DEF Draw
    <3>4. Number(j)' = x /\ Query(j)' = query
      BY <1>11, <1>15, <2>2
    <3> QED
      BY <1>6, <1>16, <1>m, <3>1, <3>2, <3>3, <3>4
  <2> QED
    BY <1>3, <2>1, <2>2
<1>18. DrawsOK'
  <2>1. transcript'.log[6 + 2 * n] = [fri_final |-> proof'.final]
    <3>1. log[6 + 2 * n] = [fri_final |-> proof.final]
      BY <1>2, <1>10, <1>g DEF DrawsOK
    <3>2. transcript'.log[6 + 2 * n] = log[6 + 2 * n]
      <4>1. 6 + 2 * n \in 1..(6 + 2 * n + d)
        BY <1>3
      <4> QED
        BY <1>6, <4>1
    <3> QED
      BY <1>1, <3>1, <3>2
  <2>2. transcript'.count = 1 + n + (d + 1)
    BY <1>3, <1>4
  <2>3. Queries(lookup') = Queries(lookup) /\ d + 1 \in Nat
    BY <1>1, <1>3
  <2> QED
    BY <1>10, <1>17, <2>1, <2>2, <2>3 DEF DrawsOK
<1>19. TranscriptOK'
  BY <1>1, <1>7, <1>8, <1>9, <1>18 DEF TranscriptOK, FoldedPlaces
<1>20. DrawnOK'
  <2>1. drawn' = Append(drawn, x)
    BY <1>1 DEF Draw
  <2>2. drawn' = Numbers(d + 1)'
    <3>1. PICK f : f = [i \in 1..d |-> Number(i)]
      OBVIOUS
    <3>2. Append(f, x) = [i \in 1..(d + 1) |-> IF i <= d THEN f[i] ELSE x]
      <4>1. f \in Seq({f[i] : i \in 1..d}) /\ Len(f) = d
        BY <1>3, <3>1
      <4>2. PICK g : g = Append(f, x)
        OBVIOUS
      <4>3. Longer(g, f, x)
        BY <4>1, <4>2, Appended DEF Sequence
      <4>4. /\ Sequence(g) /\ Len(g) = d + 1 /\ g[d + 1] = x
            /\ \A i \in 1..d : g[i] = f[i]
        BY <4>1, <4>3 DEF Longer
      <4>5. g = [i \in 1..(d + 1) |-> g[i]]
        BY <4>4, WholePrefix DEF Prefix
      <4>6. \A i \in 1..(d + 1) : g[i] = IF i <= d THEN f[i] ELSE x
        BY <1>3, <4>4
      <4> QED
        BY <4>2, <4>5, <4>6
    <3>3. Numbers(d + 1)' = [i \in 1..(d + 1) |-> IF i <= d THEN f[i] ELSE x]
      BY <1>3, <1>11, <3>1 DEF Numbers
    <3> QED
      BY <1>13, <2>1, <3>1, <3>2, <3>3 DEF Numbers
  <2> QED
    BY <1>1, <1>10, <2>2 DEF DrawnOK
<1>21. ResponsesOK' /\ ReplayOK'
  BY <1>1 DEF IInv, ResponsesOK, ReplayOK, ProvedPlaces, FoldedPlaces, VerifierPlaces
<1> QED
  BY <1>1, <1>19, <1>20, <1>21 DEF IInv, Places, ProverPlaces

LEMMA RespondKeeps ==
  ASSUME IInv, Respond
  PROVE  IInv'
<1>q. PICK indices : indices = Sorted(Indices(Numbers(NDraws), Domain))
  OBVIOUS
<1>1. /\ pc = "draw" /\ pc' = "verify"
      /\ Cardinality(Indices(drawn, Domain)) = Queries(lookup)
      /\ proof' = [proof EXCEPT !.responses = [n \in DOMAIN Sorted(Indices(drawn, Domain)) |->
                                                 Response(Sorted(Indices(drawn, Domain))[n])]]
      /\ drawn' = <<>>
      /\ UNCHANGED <<hash, lookup, transcript, columns, replay>>
  BY DEF Respond
<1>2. /\ IsTranscript(transcript) /\ ProofOK /\ PreambleOK /\ LayersOK /\ DrawsOK
      /\ drawn = Numbers(NDraws)
  BY <1>1 DEF IInv, TranscriptOK, DrawnOK, FoldedPlaces
<1>a. PICK answers : answers = [n \in DOMAIN indices |-> Response(indices[n])]
  OBVIOUS
<1>3. proof' = [trace_commitment |-> proof.trace_commitment, layers |-> proof.layers,
                final |-> proof.final, responses |-> answers]
  <2>1. PICK c, s, f, r : /\ c = proof.trace_commitment /\ s = proof.layers
                          /\ f = proof.final /\ r = proof.responses
    OBVIOUS
  <2>2. proof = [trace_commitment |-> c, layers |-> s, final |-> f, responses |-> r]
    BY <1>2, <2>1 DEF ProofOK
  <2>3. proof' = [proof EXCEPT !.responses = answers]
    BY <1>1, <1>2, <1>q, <1>a
  <2> QED
    BY <2>1, <2>2, <2>3, ResponsesSet
<1>4. /\ proof'.trace_commitment = proof.trace_commitment /\ proof'.layers = proof.layers
      /\ proof'.final = proof.final /\ proof'.responses = answers
  BY <1>3
<1>5. ProofOK'
  BY <1>1, <1>2, <1>3, <1>4 DEF ProofOK
<1>6. PreambleOK' /\ LayersOK'
  BY <1>1, <1>2, <1>4 DEF PreambleOK, LayersOK, NLayers
<1>7. /\ NLayers' = NLayers /\ FinalAt' = FinalAt /\ NDraws' = NDraws /\ Domain' = Domain
      /\ \A j : Number(j)' = Number(j) /\ Numbers(j)' = Numbers(j) /\ Query(j)' = Query(j)
  BY <1>1, <1>4 DEF NLayers, FinalAt, NDraws, Domain, Number, Numbers, Query
<1>8. DrawsOK'
  <2>1. ASSUME NEW j \in 1..NDraws
        PROVE  /\ transcript'.log[FinalAt + j] = [bytes |-> Number(j)]
               /\ Query(j) \in DOMAIN hash' /\ hash'[Query(j)] = Number(j)
               /\ Cardinality(Indices(Numbers(j - 1), Domain)) < Queries(lookup)
    BY <1>1, <1>2 DEF DrawsOK
  <2>2. /\ NDraws \in Nat /\ transcript'.count = 1 + NLayers + NDraws
        /\ transcript'.log[FinalAt] = [fri_final |-> proof'.final]
    BY <1>1, <1>2, <1>4 DEF DrawsOK
  <2>3. Queries(lookup') = Queries(lookup)
    BY <1>1
  <2> QED
    BY <1>7, <2>1, <2>2, <2>3 DEF DrawsOK
<1>9. TranscriptOK'
  BY <1>1, <1>2, <1>5, <1>6, <1>8 DEF TranscriptOK, FoldedPlaces
<1>10. ResponsesOK'
  <2>1. Sorted(Indices(Numbers(NDraws), Domain))' = indices
    BY <1>7, <1>q
  <2>2. Cardinality(Indices(Numbers(NDraws), Domain))' = Queries(lookup')
    BY <1>1, <1>2, <1>7
  <2>3. answers = [n \in DOMAIN indices |-> answers[n]]
    BY <1>a
  <2>4. ASSUME NEW n \in DOMAIN indices
        PROVE  answers[n].index = indices[n] /\ DOMAIN answers[n].values = Registers
    <3>1. DOMAIN columns = Registers
      BY <1>2 DEF ProofOK
    <3> QED
      BY <1>a, <3>1 DEF Response, RowAt
  <2> QED
    BY <1>4, <2>1, <2>2, <2>3, <2>4 DEF ResponsesOK
<1>11. ReplayOK' /\ DrawnOK'
  BY <1>1 DEF IInv, ReplayOK, DrawnOK, VerifierPlaces
<1> QED
  BY <1>1, <1>9, <1>10, <1>11 DEF IInv, Places

-----------------------------------------------------------------------------
(* The verifier *)

\* The verifier counts the layers it has absorbed.
LEMMA LayersCounted ==
  ASSUME IsTranscript(transcript), PreambleOK, LayersOK, NLayers \in Nat,
         NEW n \in 0..NLayers
  PROVE  Cardinality({i \in 1..(5 + 2 * n) : IsLayer(transcript.log[i])}) = n
<1>l. PICK top : top = NLayers
  OBVIOUS
<1>g. PICK log : log = transcript.log
  OBVIOUS
<1> DEFINE S == {i \in 1..(5 + 2 * n) : IsLayer(log[i])}
           f == [k \in 1..n |-> LayerAt(k)]
<1>1. n \in Nat /\ n <= top /\ top \in Nat
  BY <1>l
<1>2. \A i \in 1..5 : ~IsLayer(log[i])
  <2>1. PICK first : first = Preamble(lookup, proof.trace_commitment)
    OBVIOUS
  <2>2. \A i \in 1..4 : ~IsLayer(first[i])
    BY <2>1, PreambleEntries
  <2>3. Prefix(log, 4) = first
    BY <1>g, <2>1 DEF PreambleOK
  <2>4. \A i \in 1..4 : log[i] = first[i]
    BY <2>3 DEF Prefix
  <2>5. ~IsLayer(log[5])
    BY <1>g DEF PreambleOK, IsLayer
  <2> QED
    BY <2>2, <2>4, <2>5
<1>3. \A k \in 1..n : IsLayer(log[4 + 2 * k]) /\ ~IsLayer(log[5 + 2 * k])
  <2> TAKE k \in 1..n
  <2>1. k \in 1..NLayers
    BY <1>1, <1>l
  <2>2. /\ log[LayerAt(k)] = [fri_layer |-> Root(Leaves(proof.layers[k]))]
        /\ log[LayerAt(k) + 1] = [challenge |-> <<<<"fri_alpha", 0>>, k>>]
    BY <1>g, <2>1 DEF LayersOK
  <2>3. LayerAt(k) = 4 + 2 * k /\ LayerAt(k) + 1 = 5 + 2 * k
    BY <1>1 DEF LayerAt
  <2> QED
    BY <2>2, <2>3 DEF IsLayer
<1>4. ASSUME NEW i \in S PROVE \E k \in 1..n : i = 4 + 2 * k
  <2>1. i \in 6..(5 + 2 * n)
    BY <1>1, <1>2
  <2>2. PICK k \in 1..n : i = 4 + 2 * k \/ i = 5 + 2 * k
    <3>1. (i - 4) \div 2 \in 1..n
      BY <1>1, <2>1
    <3>2. i = 4 + 2 * ((i - 4) \div 2) \/ i = 5 + 2 * ((i - 4) \div 2)
      BY <2>1
    <3> QED
      BY <3>1, <3>2
  <2> QED
    BY <1>3, <2>2
<1>5. \A k \in 1..n : 4 + 2 * k \in S
  BY <1>1, <1>3
<1>6. f \in Bijection(1..n, S)
  <2>1. f \in [1..n -> S] /\ \A k \in 1..n : f[k] = 4 + 2 * k
    BY <1>5 DEF LayerAt
  <2>2. \A k, m \in 1..n : f[k] = f[m] => k = m
    BY <1>1, <2>1
  <2>3. \A i \in S : \E k \in 1..n : f[k] = i
    BY <1>4, <2>1
  <2> HIDE DEF S, f
  <2> QED
    BY <2>1, <2>2, <2>3 DEF Bijection, Injection, Surjection, IsInjective
<1>7. Cardinality(S) = n
  <2>1. IsFiniteSet(1..n) /\ Cardinality(1..n) = IF 1 > n THEN 0 ELSE n - 1 + 1
    BY FS_Interval, 1 \in Int, n \in Int, Zenon
  <2>2. Cardinality(1..n) = n
    BY <1>1, <2>1
  <2>3. ExistsBijection(1..n, S)
    BY <1>6 DEF ExistsBijection
  <2> HIDE DEF S
  <2> QED
    BY <2>1, <2>2, <2>3, FS_Bijection
<1> QED
  BY <1>7, <1>g

\* The next number is wanted as long as the prover has drawn another one.
LEMMA WantedAsDrawn ==
  ASSUME DrawsOK, ResponsesOK, pc \in ProvedPlaces, NEW j \in 0..NDraws
  PROVE  /\ Cardinality(Indices(Numbers(j), Domain)) < Queries(lookup) <=> j # NDraws
         /\ Cardinality(Indices(Numbers(j), Domain)) = Queries(lookup) <=> j = NDraws
<1>d. PICK d : d = NDraws
  OBVIOUS
<1>1. d \in Nat /\ j \in 0..d
  BY <1>d DEF DrawsOK
<1>2. Cardinality(Indices(Numbers(j), Domain)) \in Nat
  BY <1>1, IndicesCount
<1>3. CASE j = d
  <2>1. Cardinality(Indices(Numbers(j), Domain)) = Queries(lookup)
    BY <1>3, <1>d DEF ResponsesOK
  <2> QED
    BY <1>2, <1>3, <1>d, <2>1
<1>4. CASE j # d
  <2>1. j + 1 \in 1..NDraws /\ (j + 1) - 1 = j
    BY <1>1, <1>4, <1>d
  <2>2. Cardinality(Indices(Numbers(j), Domain)) < Queries(lookup)
    BY <2>1 DEF DrawsOK
  <2>3. Cardinality(Indices(Numbers(j), Domain)) # Queries(lookup)
    BY <1>2, <2>2
  <2> QED
    BY <1>4, <1>d, <2>2, <2>3
<1> QED
  BY <1>3, <1>4

LEMMA NumbersGrow ==
  ASSUME NEW j \in Nat
  PROVE  /\ Len(Numbers(j)) = j
         /\ Append(Numbers(j), Number(j + 1)) = Numbers(j + 1)
<1>1. PICK f : f = [i \in 1..(j + 1) |-> Number(i)]
  OBVIOUS
<1>2. f \in Seq({f[i] : i \in 1..(j + 1)}) /\ Len(f) = j + 1
  BY <1>1
<1>3. Append(Prefix(f, j), f[j + 1]) = Prefix(f, j + 1)
  BY <1>2, PrefixGrows DEF Sequence
<1>4. Prefix(f, j) = Numbers(j) /\ Prefix(f, j + 1) = Numbers(j + 1) /\ f[j + 1] = Number(j + 1)
  BY <1>1 DEF Prefix, Numbers
<1>5. Len(Numbers(j)) = j
  BY <1>2, <1>4, PrefixType DEF Sequence
<1> QED
  BY <1>3, <1>4, <1>5

\* What every place of the verifier knows of the prover.
LEMMA VerifierStarts ==
  ASSUME IInv, pc \in ProvedPlaces
  PROVE  /\ TranscriptOK /\ ResponsesOK
         /\ IsTranscript(transcript) /\ PreambleOK /\ LayersOK /\ DrawsOK
         /\ NLayers \in Nat /\ NDraws \in Nat
         /\ Sequence(transcript.log) /\ Len(transcript.log) = FinalAt + NDraws
<1>1. /\ TranscriptOK /\ ResponsesOK
      /\ IsTranscript(transcript) /\ ProofOK /\ PreambleOK /\ LayersOK /\ DrawsOK
  BY DEF IInv, TranscriptOK, ProvedPlaces
<1>2. NLayers \in Nat /\ Sequence(transcript.log) /\ Len(transcript.log) \in Nat
  BY <1>1, WholePrefix DEF ProofOK, NLayers, IsTranscript
<1>3. NDraws \in Nat
  BY <1>1 DEF DrawsOK
<1>4. Len(transcript.log) = FinalAt + NDraws
  <2>1. PICK n, l : n = NLayers /\ l = Len(transcript.log)
    OBVIOUS
  <2>2. n \in Nat /\ l \in Nat /\ FinalAt = 6 + 2 * n /\ NDraws = l - FinalAt
    BY <1>2, <2>1 DEF FinalAt, NDraws
  <2>3. l = FinalAt + NDraws
    BY <2>2
  <2> QED
    BY <2>1, <2>3
<1> QED
  BY <1>1, <1>2, <1>3, <1>4

LEMMA RejectSetupKeeps ==
  ASSUME IInv, RejectSetup
  PROVE  IInv'
<1>1. /\ pc = "verify" /\ pc' = "done" /\ ~SetupAccepted /\ verdict' = FALSE
      /\ UNCHANGED <<hash, lookup, transcript, columns, proof, replay>>
  BY DEF RejectSetup, Decide
<1>2. TranscriptOK' /\ ResponsesOK'
  <2>1. HashKept
    BY <1>1 DEF HashKept
  <2> QED
    BY <1>1, <2>1, ProverSideKept DEF IInv, ProvedPlaces, FoldedPlaces
<1>3. replay = Empty
  BY <1>1 DEF IInv, ReplayOK, VerifierPlaces
<1>4. ~SetupAccepted'
  BY <1>1 DEF SetupAccepted, Queries
<1>5. ReplayOK' /\ DrawnOK'
  BY <1>1, <1>3, <1>4 DEF ReplayOK, DrawnOK, VerifierPlaces
<1> QED
  BY <1>1, <1>2, <1>5 DEF IInv, Places

LEMMA VerifyStartKeeps ==
  ASSUME IInv, VerifyStart
  PROVE  IInv'
<1>g. PICK log : log = transcript.log
  OBVIOUS
<1>p. PICK first : first = Preamble(lookup, proof.trace_commitment)
  OBVIOUS
<1>1. /\ pc = "verify" /\ pc' = "layers" /\ SetupAccepted
      /\ \E alpha : Hashed(Absorb(replay, first), <<"alpha", 0>>, HashValues, alpha)
      /\ replay' = Challenged(Absorb(replay, first), <<"alpha", 0>>)
      /\ UNCHANGED <<lookup, transcript, columns, drawn, proof>>
  BY <1>p DEF VerifyStart, Preamble
<1>2. /\ TranscriptOK /\ ResponsesOK /\ PreambleOK /\ Sequence(log) /\ NLayers \in Nat
      /\ replay = Empty /\ drawn = <<>>
  BY <1>1, <1>g, VerifierStarts
     DEF IInv, ReplayOK, DrawnOK, ProvedPlaces, FoldedPlaces, VerifierPlaces
<1>3. TranscriptOK' /\ ResponsesOK'
  <2>1. HashKept
    BY <1>1, HashedOnce
  <2> QED
    BY <1>1, <1>2, <2>1, ProverSideKept DEF ProvedPlaces, FoldedPlaces
<1>4. /\ Len(log) \in Nat /\ Len(log) >= 5 /\ Prefix(log, 4) = first
      /\ log[5] = [challenge |-> <<<<"alpha", 0>>, 0>>]
  BY <1>2, <1>g, <1>p, WholePrefix DEF PreambleOK
<1>5. replay' = [log |-> Prefix(log, 5), count |-> 1]
  <2>1. PICK t : t = [log |-> first, count |-> 0]
    OBVIOUS
  <2>2. Absorb(replay, first) = t
    BY <1>2, <1>p, <2>1, PreambleEntries
  <2>3. replay' = [log |-> Append(t.log, [challenge |-> <<<<"alpha", 0>>, t.count>>]),
                   count |-> t.count + 1]
    BY <1>1, <2>2 DEF Challenged
  <2>4. t.log = first /\ t.count = 0 /\ t.count + 1 = 1
    BY <2>1
  <2>5. Append(Prefix(log, 4), log[5]) = Prefix(log, 5)
    BY <1>2, <1>4, PrefixGrows
  <2> QED
    BY <1>4, <2>3, <2>4, <2>5
<1>6. NLayers' = NLayers
  BY <1>1 DEF NLayers
<1>7. ReplayOK'
  <2>1. SetupAccepted'
    BY <1>1 DEF SetupAccepted, Queries
  <2>2. AsFarAs(replay, 5 + 2 * 0, 1 + 0)'
    BY <1>1, <1>5, <1>g DEF AsFarAs
  <2>3. \E n \in 0..NLayers : AsFarAs(replay, 5 + 2 * n, 1 + n)'
    BY <1>2, <2>2
  <2> QED
    BY <1>1, <1>6, <2>1, <2>3 DEF ReplayOK, VerifierPlaces
<1>8. DrawnOK'
  BY <1>1, <1>2 DEF DrawnOK
<1> QED
  BY <1>1, <1>3, <1>7, <1>8 DEF IInv, Places, VerifierPlaces

\* A transcript as far as the prover's n-th entry has seen the first layers.
LEMMA LayersSeen ==
  ASSUME IInv, pc = "layers",
         NEW n \in 0..NLayers, AsFarAs(replay, 5 + 2 * n, 1 + n)
  PROVE  Replayed = n
<1>g. PICK log : log = transcript.log
  OBVIOUS
<1>1. /\ IsTranscript(transcript) /\ PreambleOK /\ LayersOK /\ NLayers \in Nat
      /\ Sequence(log)
  BY <1>g, VerifierStarts DEF ProvedPlaces, FoldedPlaces
<1>2. n \in Nat /\ 5 + 2 * n \in 0..Len(log)
  <2>1. PICK l, m : l = Len(log) /\ m = NLayers
    OBVIOUS
  <2>2. l \in Nat /\ l >= 5 + 2 * m /\ m \in Nat /\ n \in 0..m
    BY <1>1, <1>g, <2>1, WholePrefix DEF LayersOK
  <2>3. n \in Nat /\ 5 + 2 * n \in 0..l
    BY <2>2
  <2> QED
    BY <2>1, <2>3
<1>3. /\ replay.log = Prefix(log, 5 + 2 * n)
      /\ DOMAIN replay.log = 1..(5 + 2 * n)
      /\ \A i \in 1..(5 + 2 * n) : replay.log[i] = log[i]
  BY <1>g DEF AsFarAs, Prefix
<1>4. {i \in DOMAIN replay.log : "fri_layer" \in DOMAIN replay.log[i]} =
        {i \in 1..(5 + 2 * n) : IsLayer(log[i])}
  BY <1>3 DEF IsLayer
<1>5. Cardinality({i \in 1..(5 + 2 * n) : IsLayer(log[i])}) = n
  BY <1>1, <1>g, LayersCounted
<1> QED
  BY <1>4, <1>5 DEF Replayed

LEMMA VerifyLayerKeeps ==
  ASSUME IInv, VerifyLayer
  PROVE  IInv'
<1>g. PICK log : log = transcript.log
  OBVIOUS
<1>l. PICK layers : layers = proof.layers
  OBVIOUS
<1>1. /\ pc = "layers" /\ pc' = "layers"
      /\ UNCHANGED <<lookup, transcript, columns, drawn, proof>>
  BY DEF VerifyLayer
<1>2. /\ TranscriptOK /\ ResponsesOK /\ LayersOK /\ Sequence(log) /\ NLayers \in Nat
      /\ SetupAccepted /\ drawn = <<>>
  BY <1>1, <1>g, VerifierStarts
     DEF IInv, ReplayOK, DrawnOK, ProvedPlaces, FoldedPlaces, VerifierPlaces
<1>3. PICK n \in 0..NLayers : AsFarAs(replay, 5 + 2 * n, 1 + n)
  BY <1>1 DEF IInv, ReplayOK
<1>4. Replayed = n
  BY <1>1, <1>3, LayersSeen
<1>m. PICK message : message = [fri_layer |-> Root(Leaves(layers[n + 1]))]
  OBVIOUS
<1>5. /\ n < Len(layers)
      /\ \E alpha : Hashed(Absorb(replay, <<message>>), <<"fri_alpha", 0>>, HashValues, alpha)
      /\ replay' = Challenged(Absorb(replay, <<message>>), <<"fri_alpha", 0>>)
  BY <1>4, <1>l, <1>m DEF VerifyLayer
<1>6. TranscriptOK' /\ ResponsesOK'
  <2>1. HashKept
    BY <1>5, HashedOnce
  <2> QED
    BY <1>1, <1>2, <2>1, ProverSideKept DEF ProvedPlaces, FoldedPlaces
<1>7. /\ n \in Nat /\ n + 1 \in 1..NLayers /\ Len(log) \in Nat /\ Len(log) >= 7 + 2 * n
      /\ log[6 + 2 * n] = message
      /\ log[7 + 2 * n] = [challenge |-> <<<<"fri_alpha", 0>>, 1 + n>>]
  <2>1. PICK len, m : len = Len(log) /\ m = NLayers
    OBVIOUS
  <2>2. len \in Nat /\ len >= 5 + 2 * m /\ m \in Nat /\ n \in 0..m /\ n < m
    BY <1>2, <1>5, <1>g, <1>l, <2>1, WholePrefix DEF LayersOK, NLayers
  <2>3. n \in Nat /\ n + 1 \in 1..m /\ len >= 7 + 2 * n
    BY <2>2
  <2>4. LayerAt(n + 1) = 6 + 2 * n /\ LayerAt(n + 1) + 1 = 7 + 2 * n /\ n + 1 = 1 + n
    BY <2>3 DEF LayerAt
  <2>5. /\ log[LayerAt(n + 1)] = [fri_layer |-> Root(Leaves(layers[n + 1]))]
        /\ log[LayerAt(n + 1) + 1] = [challenge |-> <<<<"fri_alpha", 0>>, n + 1>>]
    BY <1>2, <1>g, <1>l, <2>1, <2>3 DEF LayersOK
  <2> QED
    BY <1>m, <2>1, <2>2, <2>3, <2>4, <2>5
<1>8. replay' = [log |-> Prefix(log, 7 + 2 * n), count |-> 2 + n]
  <2>1. PICK p : p = Prefix(log, 5 + 2 * n)
    OBVIOUS
  <2>2. replay = [log |-> p, count |-> 1 + n]
    BY <1>3, <1>g, <2>1 DEF AsFarAs
  <2>3. Sequence(p)
    <3>1. 5 + 2 * n \in 0..Len(log)
      BY <1>7
    <3> QED
      BY <1>2, <2>1, <3>1, PrefixType
  <2>4. IsTranscript(replay) /\ replay.log = p /\ replay.count = 1 + n
    BY <1>7, <2>2, <2>3 DEF IsTranscript
  <2>5. Append(p, message) = Prefix(log, 6 + 2 * n)
    <3>1. 5 + 2 * n \in Nat /\ 5 + 2 * n < Len(log) /\ 5 + 2 * n + 1 = 6 + 2 * n
      BY <1>7
    <3> QED
      BY <1>2, <1>7, <2>1, <3>1, PrefixGrows
  <2>6. Append(Prefix(log, 6 + 2 * n), log[7 + 2 * n]) = Prefix(log, 7 + 2 * n)
    <3>1. 6 + 2 * n \in Nat /\ 6 + 2 * n < Len(log) /\ 6 + 2 * n + 1 = 7 + 2 * n
      BY <1>7
    <3> QED
      BY <1>2, <3>1, PrefixGrows
  <2>7. PICK t : t = [log |-> Prefix(log, 6 + 2 * n), count |-> 1 + n]
    OBVIOUS
  <2>8. Absorb(replay, <<message>>) = t
    BY <2>4, <2>5, <2>7, AbsorbedOne
  <2>9. replay' = [log |-> Append(t.log, [challenge |-> <<<<"fri_alpha", 0>>, t.count>>]),
                   count |-> t.count + 1]
    BY <1>5, <2>8 DEF Challenged
  <2>10. t.log = Prefix(log, 6 + 2 * n) /\ t.count = 1 + n /\ t.count + 1 = 2 + n
    BY <1>7, <2>7
  <2> QED
    BY <1>7, <2>6, <2>9, <2>10
<1>9. NLayers' = NLayers
  BY <1>1 DEF NLayers
<1>10. ReplayOK'
  <2>1. SetupAccepted'
    BY <1>1, <1>2 DEF SetupAccepted, Queries
  <2>2. 5 + 2 * (n + 1) = 7 + 2 * n /\ 1 + (n + 1) = 2 + n /\ n + 1 \in 0..NLayers
    BY <1>7
  <2>3. AsFarAs(replay, 5 + 2 * (n + 1), 1 + (n + 1))'
    BY <1>1, <1>8, <1>g, <2>2 DEF AsFarAs
  <2> QED
    BY <1>1, <1>9, <2>1, <2>2, <2>3 DEF ReplayOK, VerifierPlaces
<1>11. DrawnOK'
  BY <1>1, <1>2 DEF DrawnOK
<1> QED
  BY <1>1, <1>6, <1>10, <1>11 DEF IInv, Places, VerifierPlaces

LEMMA VerifyFinalKeeps ==
  ASSUME IInv, VerifyFinal
  PROVE  IInv'
<1>g. PICK log : log = transcript.log
  OBVIOUS
<1>l. PICK n : n = NLayers
  OBVIOUS
<1>m. PICK message : message = [fri_final |-> proof.final]
  OBVIOUS
<1>1. /\ pc = "layers" /\ pc' = "redraw" /\ Replayed = NLayers
      /\ replay' = Absorb(replay, <<message>>)
      /\ UNCHANGED <<hash, lookup, transcript, columns, drawn, proof>>
  BY <1>m DEF VerifyFinal, NLayers
<1>2. /\ TranscriptOK /\ ResponsesOK /\ DrawsOK /\ Sequence(log)
      /\ n \in Nat /\ NDraws \in Nat /\ Len(log) = 6 + 2 * n + NDraws
      /\ SetupAccepted /\ drawn = <<>>
  BY <1>1, <1>g, <1>l, VerifierStarts
     DEF IInv, ReplayOK, DrawnOK, ProvedPlaces, FoldedPlaces, VerifierPlaces, FinalAt
<1>3. AsFarAs(replay, 5 + 2 * n, 1 + n)
  <2>1. PICK m \in 0..NLayers : AsFarAs(replay, 5 + 2 * m, 1 + m)
    BY <1>1 DEF IInv, ReplayOK
  <2>2. Replayed = m
    BY <1>1, <2>1, LayersSeen
  <2> QED
    BY <1>1, <1>l, <2>1, <2>2
<1>4. TranscriptOK' /\ ResponsesOK'
  <2>1. HashKept
    BY <1>1 DEF HashKept
  <2> QED
    BY <1>1, <1>2, <2>1, ProverSideKept DEF ProvedPlaces, FoldedPlaces
<1>5. log[6 + 2 * n] = message
  BY <1>2, <1>g, <1>l, <1>m DEF DrawsOK, FinalAt
<1>6. replay' = [log |-> Prefix(log, 6 + 2 * n), count |-> 1 + n]
  <2>1. PICK p : p = Prefix(log, 5 + 2 * n)
    OBVIOUS
  <2>2. replay = [log |-> p, count |-> 1 + n]
    BY <1>3, <1>g, <2>1 DEF AsFarAs
  <2>3. 5 + 2 * n \in 0..Len(log) /\ 5 + 2 * n < Len(log) /\ 5 + 2 * n + 1 = 6 + 2 * n
    BY <1>2
  <2>4. Sequence(p)
    BY <1>2, <2>1, <2>3, PrefixType
  <2>5. IsTranscript(replay) /\ replay.log = p /\ replay.count = 1 + n
    BY <1>2, <2>2, <2>4 DEF IsTranscript
  <2>6. Append(p, message) = Prefix(log, 6 + 2 * n)
    BY <1>2, <1>5, <2>1, <2>3, PrefixGrows
  <2> QED
    BY <1>1, <2>5, <2>6, AbsorbedOne
<1>7. NLayers' = n /\ FinalAt' = 6 + 2 * n /\ NDraws' = NDraws
  BY <1>1, <1>l DEF NLayers, FinalAt, NDraws
<1>8. ReplayOK'
  <2>1. SetupAccepted'
    BY <1>1, <1>2 DEF SetupAccepted, Queries
  <2>2. drawn' = <<>> /\ Len(drawn') = 0 /\ 0 \in 0..NDraws
    BY <1>1, <1>2
  <2>3. 6 + 2 * n + 0 = 6 + 2 * n /\ 1 + n + 0 = 1 + n
    BY <1>2
  <2>4. replay' = [log |-> Prefix(transcript'.log, 6 + 2 * n), count |-> 1 + n]
    BY <1>1, <1>6, <1>g
  <2> QED
    BY <1>1, <1>7, <2>1, <2>2, <2>3, <2>4 DEF ReplayOK, AsFarAs, VerifierPlaces
<1>9. DrawnOK'
  <2>1. drawn' = <<>> /\ Len(drawn') = 0
    BY <1>1, <1>2
  <2>2. Numbers(0)' = <<>>
    BY DEF Numbers
  <2> QED
    BY <1>1, <2>1, <2>2 DEF DrawnOK
<1> QED
  BY <1>1, <1>4, <1>8, <1>9 DEF IInv, Places, VerifierPlaces


LEMMA RedrawQueryKeeps ==
  ASSUME IInv, RedrawQuery
  PROVE  IInv'
<1>g. PICK log : log = transcript.log
  OBVIOUS
<1>n. PICK n : n = NLayers
  OBVIOUS
<1>d. PICK d : d = NDraws
  OBVIOUS
<1>j. PICK j : j = Len(drawn)
  OBVIOUS
<1>1. PICK x : /\ pc = "redraw" /\ pc' = "redraw"
               /\ Draw(replay, x)
               /\ replay' = ChallengedBytes(replay, x)
               /\ UNCHANGED <<lookup, transcript, columns, proof>>
  BY DEF RedrawQuery
<1>2. /\ TranscriptOK /\ ResponsesOK /\ DrawsOK /\ Sequence(log)
      /\ n \in Nat /\ d \in Nat /\ Len(log) = 6 + 2 * n + d
      /\ FinalAt = 6 + 2 * n /\ SetupAccepted
  BY <1>1, <1>g, <1>n, <1>d, VerifierStarts
     DEF IInv, ReplayOK, ProvedPlaces, FoldedPlaces, VerifierPlaces, FinalAt
<1>3. /\ j \in 0..d /\ drawn = Numbers(j)
      /\ replay = [log |-> Prefix(log, 6 + 2 * n + j), count |-> 1 + n + j]
  BY <1>1, <1>2, <1>g, <1>n, <1>d, <1>j DEF IInv, ReplayOK, DrawnOK, AsFarAs
<1>4. j # d
  <2>1. Cardinality(Indices(Numbers(j), Domain)) < Queries(lookup)
    BY <1>1, <1>3 DEF Draw
  <2>2. j \in 0..NDraws
    BY <1>3, <1>d
  <2>3. Cardinality(Indices(Numbers(j), Domain)) < Queries(lookup) <=> j # NDraws
    BY <1>1, <1>2, <2>2, WantedAsDrawn DEF ProvedPlaces, FoldedPlaces
  <2> QED
    BY <1>d, <2>1, <2>3
<1>5. /\ j \in Nat /\ j + 1 \in 1..d /\ j + 1 \in 0..d
      /\ 6 + 2 * n + j \in Nat /\ 6 + 2 * n + j < Len(log)
      /\ 6 + 2 * n + j + 1 = 6 + 2 * n + (j + 1)
      /\ 6 + 2 * n + (j + 1) - 1 = 6 + 2 * n + j /\ (j + 1) - 1 = j
      /\ n + (j + 1) = 1 + n + j /\ 1 + n + j + 1 = 1 + n + (j + 1)
  BY <1>2, <1>3, <1>4
<1>6. /\ log[6 + 2 * n + (j + 1)] = [bytes |-> Number(j + 1)]
      /\ Query(j + 1) \in DOMAIN hash /\ hash[Query(j + 1)] = Number(j + 1)
  BY <1>2, <1>5, <1>d, <1>g DEF DrawsOK
<1>7. HashKept /\ x = Number(j + 1)
  <2>1. Hashed(replay, <<"query_index", j>>, HashNumbers, x)
    BY <1>1, <1>j DEF Draw
  <2>2. Query(j + 1) = [log |-> replay.log, label |-> <<"query_index", j>>,
                        count |-> replay.count]
    <3>1. replay.log = Prefix(log, 6 + 2 * n + j) /\ replay.count = 1 + n + j
      BY <1>3
    <3>2. Query(j + 1) = [log   |-> Prefix(log, 6 + 2 * n + (j + 1) - 1),
                          label |-> <<"query_index", (j + 1) - 1>>,
                          count |-> n + (j + 1)]
      BY <1>2, <1>g, <1>n DEF Query
    <3> QED
      BY <1>5, <3>1, <3>2
  <2> QED
    BY <1>6, <2>1, <2>2, HashedOnce
<1>8. TranscriptOK' /\ ResponsesOK'
  BY <1>1, <1>2, <1>7, ProverSideKept DEF ProvedPlaces, FoldedPlaces
<1>9. replay' = [log |-> Prefix(log, 6 + 2 * n + (j + 1)), count |-> 1 + n + (j + 1)]
  <2>1. PICK p : p = Prefix(log, 6 + 2 * n + j)
    OBVIOUS
  <2>2. replay.log = p /\ replay.count = 1 + n + j
    BY <1>3, <2>1
  <2>3. Append(p, [bytes |-> x]) = Prefix(log, 6 + 2 * n + (j + 1))
    BY <1>2, <1>5, <1>6, <1>7, <2>1, PrefixGrows
  <2> QED
    BY <1>1, <1>5, <2>2, <2>3 DEF ChallengedBytes
<1>10. /\ drawn' = Numbers(j + 1) /\ Len(drawn') = j + 1
  <2>1. drawn' = Append(Numbers(j), Number(j + 1))
    BY <1>1, <1>3, <1>7 DEF Draw
  <2>2. Append(Numbers(j), Number(j + 1)) = Numbers(j + 1)
    BY <1>5, NumbersGrow
  <2>3. Len(Numbers(j + 1)) = j + 1
    <3>1. PICK m \in Nat : m = j + 1
      BY <1>5
    <3> QED
      BY <3>1, NumbersGrow
  <2> QED
    BY <2>1, <2>2, <2>3
<1>11. /\ NLayers' = n /\ FinalAt' = 6 + 2 * n /\ NDraws' = d
       /\ Numbers(j + 1)' = Numbers(j + 1)
  <2>1. NLayers' = n /\ FinalAt' = FinalAt /\ NDraws' = d
    BY <1>1, <1>n, <1>d DEF NLayers, FinalAt, NDraws
  <2> QED
    BY <1>1, <1>2, <2>1 DEF Numbers, Number
<1>12. ReplayOK'
  <2>1. SetupAccepted'
    BY <1>1, <1>2 DEF SetupAccepted, Queries
  <2>2. replay' = [log   |-> Prefix(transcript'.log, 6 + 2 * n + Len(drawn')),
                   count |-> 1 + n + Len(drawn')]
    BY <1>1, <1>9, <1>10, <1>g
  <2> QED
    BY <1>1, <1>5, <1>10, <1>11, <2>1, <2>2 DEF ReplayOK, AsFarAs, VerifierPlaces
<1>13. DrawnOK'
  BY <1>1, <1>10, <1>11 DEF DrawnOK
<1> QED
  BY <1>1, <1>8, <1>12, <1>13 DEF IInv, Places, VerifierPlaces

LEMMA VerifyQueriesKeeps ==
  ASSUME IInv, VerifyQueries
  PROVE  IInv'
<1>g. PICK log : log = transcript.log
  OBVIOUS
<1>n. PICK n : n = NLayers
  OBVIOUS
<1>d. PICK d : d = NDraws
  OBVIOUS
<1>j. PICK j : j = Len(drawn)
  OBVIOUS
<1>i. PICK indices : indices = Sorted(Indices(drawn, Domain))
  OBVIOUS
<1>1. /\ pc = "redraw" /\ pc' = "done"
      /\ Cardinality(Indices(drawn, Domain)) = Queries(lookup)
      /\ verdict' = (/\ Len(proof.responses) = Len(indices)
                     /\ \A m \in DOMAIN indices :
                          /\ proof.responses[m].index = indices[m]
                          /\ DOMAIN proof.responses[m].values = Registers)
      /\ UNCHANGED <<hash, lookup, transcript, columns, drawn, proof, replay>>
  BY <1>i DEF VerifyQueries, Decide
<1>2. /\ TranscriptOK /\ ResponsesOK /\ DrawsOK /\ IsTranscript(transcript) /\ Sequence(log)
      /\ n \in Nat /\ d \in Nat /\ Len(log) = 6 + 2 * n + d
      /\ FinalAt = 6 + 2 * n /\ SetupAccepted
  BY <1>1, <1>g, <1>n, <1>d, VerifierStarts
     DEF IInv, ReplayOK, ProvedPlaces, FoldedPlaces, VerifierPlaces, FinalAt
<1>3. /\ j \in 0..d /\ drawn = Numbers(j)
      /\ replay = [log |-> Prefix(log, 6 + 2 * n + j), count |-> 1 + n + j]
  BY <1>1, <1>2, <1>g, <1>n, <1>d, <1>j DEF IInv, ReplayOK, DrawnOK, AsFarAs
<1>4. j = d
  <2>1. j \in 0..NDraws
    BY <1>3, <1>d
  <2>2. Cardinality(Indices(Numbers(j), Domain)) = Queries(lookup) <=> j = NDraws
    BY <1>1, <1>2, <2>1, WantedAsDrawn DEF ProvedPlaces, FoldedPlaces
  <2> QED
    BY <1>1, <1>3, <1>d, <2>2
<1>5. replay = transcript
  <2>1. Prefix(log, 6 + 2 * n + d) = log
    BY <1>2, WholePrefix
  <2>2. transcript = [log |-> log, count |-> 1 + n + d]
    BY <1>2, <1>g, <1>n, <1>d DEF IsTranscript, DrawsOK
  <2> QED
    BY <1>3, <1>4, <2>1, <2>2
<1>6. verdict' = TRUE
  <2>1. /\ proof.responses = [m \in DOMAIN indices |-> proof.responses[m]]
        /\ \A m \in DOMAIN indices :
             /\ proof.responses[m].index = indices[m]
             /\ DOMAIN proof.responses[m].values = Registers
    BY <1>1, <1>2, <1>3, <1>4, <1>d, <1>i DEF ResponsesOK, ProvedPlaces, FoldedPlaces
  <2>2. PICK k : k = Cardinality(Indices(drawn, Domain))
    OBVIOUS
  <2>3. k \in Nat
    BY <1>2, <1>3, <1>4, <2>2, IndicesCount
  <2>4. DOMAIN indices = 1..k /\ Len(indices) = k
    <3>1. DOMAIN indices = 1..k
      BY <1>i, <2>2 DEF Sorted
    <3> QED
      BY <1>i, <2>2, <2>3 DEF Sorted
  <2>5. DOMAIN proof.responses = 1..k
    BY <2>1, <2>4
  <2>6. Len(proof.responses) = k
    BY <2>1, <2>3, <2>4, <2>5
  <2> QED
    BY <1>1, <2>1, <2>4, <2>6
<1>7. TranscriptOK' /\ ResponsesOK'
  <2>1. HashKept
    BY <1>1 DEF HashKept
  <2> QED
    BY <1>1, <1>2, <2>1, ProverSideKept DEF ProvedPlaces, FoldedPlaces
<1>8. ReplayOK'
  <2>1. SetupAccepted' /\ replay' = transcript'
    BY <1>1, <1>2, <1>5 DEF SetupAccepted, Queries
  <2> QED
    BY <1>1, <1>6, <2>1 DEF ReplayOK, VerifierPlaces
<1>9. DrawnOK'
  BY <1>1 DEF DrawnOK
<1> QED
  BY <1>1, <1>7, <1>8, <1>9 DEF IInv, Places

LEMMA StutterKeeps ==
  ASSUME IInv, UNCHANGED vars
  PROVE  IInv'
<1>1. UNCHANGED <<hash, pc, lookup, transcript, columns, drawn, proof, replay, verdict>>
  BY DEF vars
<1>2. TranscriptOK'
  <2>1. /\ NLayers' = NLayers /\ FinalAt' = FinalAt /\ NDraws' = NDraws /\ Domain' = Domain
        /\ \A j : Number(j)' = Number(j) /\ Numbers(j)' = Numbers(j) /\ Query(j)' = Query(j)
    BY <1>1 DEF NLayers, FinalAt, NDraws, Domain, Number, Numbers, Query
  <2>2. DrawsOK => DrawsOK'
    BY <1>1, <2>1 DEF DrawsOK
  <2>3. /\ ProofOK => ProofOK'
        /\ PreambleOK => PreambleOK'
        /\ LayersOK => LayersOK'
    BY <1>1, <2>1 DEF ProofOK, PreambleOK, LayersOK
  <2>4. NLayers' = NLayers
    BY <2>1
  <2> QED
    BY <1>1, <2>2, <2>3, <2>4 DEF IInv, TranscriptOK
<1>3. ResponsesOK'
  BY <1>1 DEF IInv, ResponsesOK, NLayers, NDraws, FinalAt, Number, Numbers, Domain
<1>4. ReplayOK'
  BY <1>1 DEF IInv, ReplayOK, AsFarAs, NLayers, NDraws, FinalAt, SetupAccepted, Queries
<1>5. DrawnOK'
  BY <1>1 DEF IInv, DrawnOK, NLayers, NDraws, FinalAt, Number, Numbers
<1> QED
  BY <1>1, <1>2, <1>3, <1>4, <1>5 DEF IInv

-----------------------------------------------------------------------------
(* The theorems *)

\* In every state each entry of the prover's transcript is what its position
\* says, and the verifier's transcript is the prover's up to the entry it has
\* come to: the messages _generate_proof absorbs and verify_proof absorbs again.
THEOREM Invariant == Spec => []IInv
<1>1. IInv /\ [Next]_vars => IInv'
  <2> SUFFICES ASSUME IInv, [Next]_vars PROVE IInv'
    OBVIOUS
  <2>1. ASSUME NEW l \in Lookups, Prove(l) PROVE IInv'
    BY <2>1, ProveKeeps
  <2>2. CASE Prover
    BY <2>2, CommitTraceKeeps, DrawAlphaKeeps, FoldLayerKeeps, FinishFriKeeps,
       TooManyQueriesKeeps, DrawQueryKeeps, RespondKeeps DEF Prover
  <2>3. CASE Verifier
    BY <2>3, RejectSetupKeeps, VerifyStartKeeps, VerifyLayerKeeps, VerifyFinalKeeps,
       RedrawQueryKeeps, VerifyQueriesKeeps DEF Verifier
  <2>4. CASE UNCHANGED vars
    BY <2>4, StutterKeeps
  <2> QED
    BY <2>1, <2>2, <2>3, <2>4 DEF Next
<1> QED
  BY <1>1, InvariantInitially, PTL DEF Spec

LEMMA FollowsAsFarAs ==
  ASSUME Sequence(transcript.log), NEW n \in 0..Len(transcript.log), NEW count,
         AsFarAs(replay, n, count)
  PROVE  IsPrefix(replay.log, transcript.log)
<1>1. replay.log = Prefix(transcript.log, n)
  BY DEF AsFarAs
<1> QED
  BY <1>1, PrefixIsPrefix

\* The verifier's transcript is at every moment a prefix of the prover's, and
\* when it accepts it is the whole of it: verify_proof and FRIVerifier.verify
\* absorb the prover's messages in the prover's order.
THEOREM VerifierRetracesProver == Spec => []VerifierFollowsProver
<1>1. IInv => VerifierFollowsProver
  <2> SUFFICES ASSUME IInv PROVE VerifierFollowsProver
    OBVIOUS
  <2>g. PICK len : len = Len(transcript.log)
    OBVIOUS
  <2>1. pc \in Places /\ Sequence(transcript.log) /\ len \in Nat
    BY <2>g, WholePrefix DEF IInv, TranscriptOK, IsTranscript
  <2>2. CASE replay = Empty
    <3>1. replay.log = Prefix(transcript.log, 0)
      BY <2>2 DEF Empty, Prefix
    <3>2. 0 \in 0..Len(transcript.log)
      BY <2>1, <2>g
    <3>3. IsPrefix(replay.log, transcript.log)
      BY <2>1, <3>1, <3>2, PrefixIsPrefix
    <3> QED
      BY <2>2, <3>3 DEF IInv, ReplayOK, VerifierFollowsProver
  <2>3. CASE pc = "layers"
    <3>1. PICK n \in 0..NLayers : AsFarAs(replay, 5 + 2 * n, 1 + n)
      BY <2>3 DEF IInv, ReplayOK
    <3>2. PICK m : m = NLayers
      OBVIOUS
    <3>3. m \in Nat /\ len >= 5 + 2 * m /\ n \in 0..m
      BY <2>3, <2>g, <3>2, VerifierStarts DEF LayersOK, ProvedPlaces, FoldedPlaces
    <3>4. 5 + 2 * n \in 0..len
      BY <2>1, <3>3
    <3>5. IsPrefix(replay.log, transcript.log)
      BY <2>1, <2>g, <3>1, <3>4, FollowsAsFarAs
    <3> QED
      BY <2>3, <3>5 DEF VerifierFollowsProver
  <2>4. CASE pc = "redraw"
    <3>1. PICK m, d, j : m = NLayers /\ d = NDraws /\ j = Len(drawn)
      OBVIOUS
    <3>2. /\ j \in 0..d /\ AsFarAs(replay, 6 + 2 * m + j, 1 + m + j)
      BY <2>4, <3>1 DEF IInv, ReplayOK, FinalAt
    <3>3. m \in Nat /\ d \in Nat /\ len = 6 + 2 * m + d
      BY <2>4, <2>g, <3>1, VerifierStarts DEF ProvedPlaces, FoldedPlaces, FinalAt
    <3>4. 6 + 2 * m + j \in 0..len
      BY <3>2, <3>3
    <3>5. IsPrefix(replay.log, transcript.log)
      BY <2>1, <2>g, <3>2, <3>4, FollowsAsFarAs
    <3> QED
      BY <2>4, <3>5 DEF VerifierFollowsProver
  <2>5. CASE replay = transcript
    <3>1. Prefix(transcript.log, len) = transcript.log /\ len \in 0..len
      BY <2>1, <2>g, WholePrefix
    <3>2. IsPrefix(transcript.log, transcript.log)
      BY <2>1, <2>g, <3>1, PrefixIsPrefix
    <3> QED
      BY <2>5, <3>2 DEF VerifierFollowsProver
  <2> QED
    BY <2>1, <2>2, <2>3, <2>4, <2>5 DEF IInv, ReplayOK, VerifierPlaces
<1> QED
  BY <1>1, Invariant, PTL

\* What is being proved is one of the lookups, from prove_lookup on.
LookupChosen == pc # "idle" => lookup \in Lookups

LEMMA LookupIsChosen == Spec => []LookupChosen
<1>1. Init => LookupChosen
  BY DEF Init, LookupChosen
<1>2. LookupChosen /\ [Next]_vars => LookupChosen'
  <2> SUFFICES ASSUME LookupChosen, [Next]_vars PROVE LookupChosen'
    OBVIOUS
  <2>1. ASSUME NEW l \in Lookups, Prove(l) PROVE LookupChosen'
    BY <2>1 DEF Prove, LookupChosen
  <2>2. CASE Prover
    BY <2>2 DEF Prover, CommitTrace, DrawAlpha, FoldLayer, FinishFri, TooManyQueries,
                DrawQuery, Respond, LookupChosen
  <2>3. CASE Verifier
    BY <2>3 DEF Verifier, RejectSetup, VerifyStart, VerifyLayer, VerifyFinal, RedrawQuery,
                VerifyQueries, LookupChosen
  <2>4. CASE UNCHANGED vars
    BY <2>4 DEF vars, LookupChosen
  <2> QED
    BY <2>1, <2>2, <2>3, <2>4 DEF Next
<1> QED
  BY <1>1, <1>2, PTL DEF Spec

\* compute_parameters gives every level at least 40 queries, and _verify_setup
\* asks for 20: the levels it allows all have enough.
EnoughQueries ==
  \A l \in Lookups : l.security >= MinSecurity => Queries(l) >= MinQueries

\* A lookup whose proof is complete is accepted exactly when _verify_setup
\* allows its level and its length, whatever the hash function answers: the
\* redrawn indices are those of the responses.
THEOREM HonestLookupsAreAccepted ==
  ASSUME EnoughQueries
  PROVE  Spec => []HonestLookupsVerify
<1>1. IInv /\ LookupChosen => HonestLookupsVerify
  <2> SUFFICES ASSUME IInv, LookupChosen, pc = "done"
               PROVE  verdict = (lookup.security >= MinSecurity /\ IsPowerOfTwo(lookup.length))
    BY DEF HonestLookupsVerify
  <2>1. lookup.security >= MinSecurity => Queries(lookup) >= MinQueries
    BY DEF LookupChosen, EnoughQueries
  <2>2. SetupAccepted <=> lookup.security >= MinSecurity /\ IsPowerOfTwo(lookup.length)
    BY <2>1 DEF SetupAccepted
  <2>3. (SetupAccepted /\ verdict = TRUE) \/ (~SetupAccepted /\ verdict = FALSE)
    BY DEF IInv, ReplayOK
  <2> QED
    BY <2>2, <2>3
<1> QED
  BY <1>1, Invariant, LookupIsChosen, PTL
=============================================================================
