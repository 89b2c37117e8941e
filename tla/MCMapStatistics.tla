-------------------------- MODULE MCMapStatistics --------------------------
(* Latencies and symmetry for TLC, with two sub-buckets to a power of two. *)
EXTENDS MapStatistics, TLC

\* For words of 3 bits: a latency in the exact part, one above it, a clock that steps back.
FewLatencies == {-1, 1, 3}

\* For words of 6 bits: both ends of buckets, the longest duration.
EdgeLatencies == {0, 1, 4, 7, 19, 31}

Symmetry == Permutations(Readers)
=============================================================================
