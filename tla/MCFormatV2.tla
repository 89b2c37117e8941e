----------------------------- MODULE MCFormatV2 -----------------------------
(****************************************************************************)
(* Version 2 files for TLC, in two parts that share no state: a file of     *)
(* three rows on four positions with one key that is no row, and the codec  *)
(* on its own.  A behaviour is about one of the parts.                      *)
(****************************************************************************)
EXTENDS FormatV2, Lz4, TLC

CONSTANTS k1, k2, k3

VARIABLE part

----------------------------------------------------------------------------
ThreeHashes == 1 .. 3
ThreeKeys == <<k1, k2, k3>>
\* Three rows of different hashes, and two rows of one hash.
Distinct == [r \in 1 .. 3 |-> r]
TwoEqual == [r \in 1 .. 3 |-> IF r = 3 THEN 1 ELSE r]
BothInputs == {Distinct, TwoEqual}
\* A pilot moves the position of a hash by 0, 1 or 2 each.
Moves == {[h \in ThreeHashes |-> [p \in Pilots |-> (start[h] + p * step[h]) % M]] :
             start \in [ThreeHashes -> Positions], step \in [ThreeHashes -> 0 .. 2]}

MixedLengths == {[s \in 0 .. 2 |-> 1 + (s % 2)]}
\* The key that is no row has the fingerprint of one row, of all, or of none.
SomePrints == {[k \in Keys |-> IF k \in {k1, k2} THEN 1 ELSE 2],
               [k \in Keys |-> 1],
               [k \in Keys |-> IF k \in {k1, k2, k3} THEN 1 ELSE 2]}

----------------------------------------------------------------------------
\* Sequences of 13 bits and of some shorter lengths, and small blocks of any bytes.

SmallBlocks == UNION {[1 .. k -> {0, 1, 4, 7, 12}] : k \in 1 .. 5}
Differ(v) == IF v[1] = v[2] THEN 0 ELSE 1

----------------------------------------------------------------------------
PartsInit ==
    /\ \/ part = "file" /\ src = <<>> /\ room = 0 /\ written = TRUE
       \/ part = "codec" /\ xs = Distinct /\ bucketOf = [h \in Hashes |-> 0]
                         /\ posOf = [h \in Hashes |-> [p \in Pilots |-> 0]]
    /\ FormatInit /\ CodecInit

PartsNext ==
    /\ UNCHANGED part
    /\ \/ part = "file" /\ FormatNext /\ UNCHANGED codecVars
       \/ part = "codec" /\ CodecNext /\ UNCHANGED <<vars, recordVars>>

PartsSpec == PartsInit /\ [][PartsNext]_<<part, vars, recordVars, codecVars>>

Symmetry == Permutations(Readers) \cup Permutations(Buffers)
=============================================================================
