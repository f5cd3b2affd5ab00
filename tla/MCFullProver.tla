---------------------------- MODULE MCFullProver ----------------------------
(* Instances of FullProver for TLC. *)
EXTENDS FullProver

CONSTANTS good, good2, rejected, badjson, empty

MCKind ==
  [i \in Inputs |->
    CASE i \in {good, good2} -> "good"
      [] i = rejected -> "rejected"
      [] i = badjson -> "badjson"
      [] i = empty -> "empty"]

=============================================================================
