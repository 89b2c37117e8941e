------------------------------ MODULE MCHotSwap ------------------------------
(* A small Map for TLC. *)
EXTENDS HotSwap, TLC

Symmetry == Permutations(Readers) \cup Permutations(Mappings) \cup Permutations(Closers)
=============================================================================
