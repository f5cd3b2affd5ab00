---------------------------- MODULE MCThreadPool ----------------------------
(* Instances of ThreadPool for TLC. *)
EXTENDS ThreadPool

\* A range with fewer elements than threads, and one with more than there are
\* chunks, so that some chunks have two elements and others one.
MCRanges == {<<1, 0>>, <<0, 2>>, <<0, 7>>}

=============================================================================
