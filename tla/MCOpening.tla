------------------------------ MODULE MCOpening ------------------------------
(****************************************************************************)
(* What a reader takes from bytes it did not write, for TLC, in two parts   *)
(* that share no state: the sizes of a file that is opened, and the fields  *)
(* of a typed value.  A behaviour is about one of the parts.                *)
(****************************************************************************)
EXTENDS FileSizes, TypedValues

VARIABLE part

----------------------------------------------------------------------------
\* Small files of both versions; the counts a damaged header may read as.

SmallV1 == [version : {1}, S : {1, 3}, B : {1, 2}, w : {2, 4}, blob : {0, 3}]
SmallV2 ==
    {f \in [version : {2}, N : {1, 3}, M : {2, 4}, NB : {6, 12}, P2 : {1, 3}, FW : {1, 7},
            BW : {32, 5}, per : {1, 2}, ow : {4, 5}, blob : {6}] :
         <<f.N, f.M, f.NB, f.P2>> \in {<<1, 2, 6, 1>>, <<3, 4, 12, 3>>}}
ReadCounts == {0, 1, 2, 7, 8, 15, 16, 23, 24, 31, 32, 47, 48, 63, 127}

----------------------------------------------------------------------------
\* Every schema of up to two fields, and some of three; bytes of two bits.

AllTypes == {"U8", "U64", "I8", "I64", "F32", "F64", "Bool", "String", "Bytes"}
Fields == [name : {"a", "b"}, type : AllTypes]
SomeSchemas ==
    [1 .. 1 -> Fields] \cup [1 .. 2 -> Fields]
    \cup {<<[name |-> "a", type |-> t], [name |-> "b", type |-> u], [name |-> "c", type |-> v]>> :
              t \in {"I8", "Bytes"}, u \in {"String", "U64"}, v \in {"I64", "F64", "String"}}
SomeArguments ==
    [kind : {"uint"}, val : {0, 3, 4, 15}]
    \cup [kind : {"int"}, val : {-8, -3, -2, 1, 2, 7}]
    \cup [kind : {"int32"}, val : {-2, 2}]
    \cup [kind : {"float"}, val : {6}]
    \cup [kind : {"bool"}, val : BOOLEAN]
    \cup [kind : {"bytes"}, val : {<<>>, <<3, 0>>, <<2, 1, 1, 0, 3>>, [i \in 1 .. 16 |-> 1]}]

----------------------------------------------------------------------------
SomeFile == CHOOSE f \in SmallV2 : TRUE
OneField == <<[name |-> "a", type |-> "U8"]>>

OpeningInit ==
    /\ \/ part = "file" /\ schema = OneField
       \/ part = "value" /\ file = SomeFile
    /\ SizesInit /\ ValuesInit

OpeningNext ==
    /\ UNCHANGED part
    /\ \/ part = "file" /\ SizesNext /\ UNCHANGED valueVars
       \/ part = "value" /\ ValuesNext /\ UNCHANGED sizeVars

OpeningSpec == OpeningInit /\ [][OpeningNext]_<<part, sizeVars, valueVars>>
=============================================================================
