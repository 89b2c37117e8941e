--------------------------- MODULE MCRowsToFile ---------------------------
(****************************************************************************)
(* The way of rows into a version 1 file, in three parts that share no      *)
(* state, for TLC: the parsers that read them from a source, the placement, *)
(* writing and lookup of a file, and the sample attos-size takes of them.   *)
(* A behaviour is about one of the parts.                                   *)
(****************************************************************************)
EXTENDS Placement, InputRows, SizeSample, TLC

CONSTANTS k1, k2, k3, k4

VARIABLE part

----------------------------------------------------------------------------
\* Four keys and hashes of a few bits.

Bits == 3
SmallWords == 0 .. 2 ^ Bits - 1
SmallHashes == [hi : {0, 1}, lo : {0, 1, 5, 6, 7}]
XorOf(x, y) ==
    LET Bit(i) == (x \div 2 ^ i + y \div 2 ^ i) % 2 IN Bit(0) + 2 * Bit(1) + 4 * Bit(2)

\* k1's record is the shortest: an empty key with an empty value.
Lengths == (k1 :> 2) @@ (k2 :> 3) @@ (k3 :> 5) @@ (k4 :> 7)
Sums[T \in SUBSET Keys] ==
    IF T = {} THEN 0 ELSE LET k == CHOOSE k \in T : TRUE IN Lengths[k] + Sums[T \ {k}]

----------------------------------------------------------------------------
\* Names a = 1, attos_value = 2, b = 3, key = 4 and value = 5.

SomeHeaders ==
    {<<1, 3, 2>>, <<2, 3, 1>>, <<3, 2, 1>>, <<1, 1, 2>>, <<1, 2>>, <<2, 1, 2>>, <<3, 1>>, <<2>>}
Cells == {<<>>, <<1>>, <<1, 1>>, <<0>>}
Values == {<<1>>, <<0>>, <<1, 1>>}
SomeRecords == [1 .. 3 -> Cells] \cup [1 .. 2 -> Cells]
Fields(a, b, v) == [f \in {1, 2, 3} |-> IF f = 1 THEN a ELSE IF f = 3 THEN b ELSE v]
SomeObjects ==
    {Fields(a, b, v) : a \in Cells, b \in Cells, v \in Values}
    \cup [{4, 5} -> {<<1>>, <<1, 1>>, <<0>>, NotScalar}]
    \cup [{1, 2} -> {<<1>>, NotScalar}] \cup [{1, 3} -> {<<1>>}] \cup [{2} -> {<<1>>}]
    \cup [{2, 4, 5} -> {<<1>>}] \cup [{1, 2, 3, 4} -> {<<1>>}] \cup [{2, 3, 4} -> {<<1>>}]

SampleSizes == -1 .. 3

----------------------------------------------------------------------------
RowsToFileInit ==
    /\ part \in {"source", "file", "sample"}
    /\ part # "file" => rows = {}
    /\ part # "source" => format = "csv"
    /\ part # "sample" => limit = 0
    /\ Init /\ SourceInit /\ SampleInit

RowsToFileNext ==
    /\ UNCHANGED part
    /\ \/ part = "source" /\ SourceNext /\ UNCHANGED <<vars, sampleVars>>
       \/ part = "file" /\ Next /\ UNCHANGED <<sourceVars, sampleVars>>
       \/ part = "sample" /\ SampleNext /\ UNCHANGED <<vars, sourceVars>>

RowsToFileSpec == RowsToFileInit /\ [][RowsToFileNext]_<<part, vars, sourceVars, sampleVars>>
=============================================================================
