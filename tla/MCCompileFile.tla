--------------------------- MODULE MCCompileFile ---------------------------
(* Two compilers and a reader for TLC. *)
EXTENDS CompileFile, TLC

Symmetry == Permutations(Compilers) \cup Permutations(Readers)
=============================================================================
