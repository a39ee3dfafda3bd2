---------------------------- MODULE MCDedupCache ----------------------------
(* DedupCache on a small instance for TLC. *)
EXTENDS DedupCache, TLC

\* Keys and callers are interchangeable; no property distinguishes them.
Interchangeable == Permutations(Keys) \cup Permutations(Callers)
=============================================================================
