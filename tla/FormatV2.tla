------------------------------ MODULE FormatV2 ------------------------------
(****************************************************************************)
(* A version 2 file from its hash table to its lookups: CompileWithOptions  *)
(* builds the table (PTHash), puts every row at its slot, chooses the form  *)
(* of the records and writes them, and readers look keys up (RecordsV2).    *)
(* Keys may share a hash: two rows that do make the build fail, any other   *)
(* key lands on the slot its hash has.                                      *)
(****************************************************************************)
EXTENDS PTHash, Sequences

CONSTANTS
    RowKey,      \* the key of each row
    Keys, NotFound, Corrupt, Lengths, Shifts, Prints, OffsetLimit,
    Readers, Buffers, None, MaxLookups

ASSUME RowsAreNumbers == Rows = 1 .. N
ASSUME FormsAssumption == /\ Lengths \subseteq [0 .. N - 1 -> Nat \ {0}] /\ Shifts \subseteq Nat
                          /\ OffsetLimit \in Nat \ {0} /\ MaxLookups \in Nat /\ Corrupt \notin Keys
ASSUME KeysAssumption == RowKey \in [Rows -> Keys] /\ \A r, s \in Rows : r # s => RowKey[r] # RowKey[s]

VARIABLES
    entry, slotOf, length, compressed, shift, lean, packs, print,
    pool, content, rpc, key, buf, result, lookups

Records == INSTANCE RecordsV2 WITH NumRows <- N, pc <- rpc

recordVars == <<entry, slotOf, length, compressed, shift, lean, packs, print,
                pool, content, rpc, key, buf, result, lookups>>
formVars == <<length, compressed, shift, lean, packs, print>>
readVars == <<pool, content, rpc, key, buf, result, lookups>>

Slots == 0 .. N - 1

\* Before the table is there no record is.
FormatInit ==
    /\ Init
    /\ entry = <<>> /\ slotOf = <<>> /\ length = <<>>
    /\ compressed = FALSE /\ shift = 0 /\ lean = FALSE /\ packs = {} /\ print = <<>>
    /\ pool = Buffers /\ content = [b \in Buffers |-> <<>>]
    /\ rpc = [r \in Readers |-> "idle"]
    /\ key = [r \in Readers |-> RowKey[1]] /\ buf = [r \in Readers |-> None]
    /\ result = [r \in Readers |-> NotFound]
    /\ lookups = 0

\* The rows at a slot: slotEntry keeps the last of them, and row 1 where there is none.
RowsAt(s) == {r \in Rows : Slot(xs[r]) = s}
SlotEntry(s) == IF RowsAt(s) = {} THEN 1 ELSE CHOOSE r \in RowsAt(s) : \A o \in RowsAt(s) : o <= r

\* The hash of a key that is no row is any; the table is kept as the slots it gives.
FillSlots ==
    /\ pc = "done"
    /\ pc' = "filled"
    /\ entry' = [s \in Slots |-> RowKey[SlotEntry(s)]]
    /\ \E other \in [Keys \ {RowKey[r] : r \in Rows} -> Hashes] :
          slotOf' = [k \in Keys |->
              Slot(IF k \in DOMAIN other THEN other[k]
                   ELSE xs[CHOOSE r \in Rows : RowKey[r] = k])]
    /\ xs' = [r \in Rows |-> 0] /\ bucketOf' = <<>> /\ posOf' = <<>>
    /\ todo' = {} /\ pilots' = <<>> /\ taken' = {} /\ spare' = {} /\ q' = 0 /\ free' = <<>>
    /\ UNCHANGED <<formVars, readVars>>

\* The options of the call, and which blocks LZ4 happens to make smaller.
WriteRecords ==
    /\ pc = "filled"
    /\ pc' = "written"
    /\ length' \in Lengths
    /\ compressed' \in BOOLEAN /\ lean' \in BOOLEAN
    /\ shift' \in IF compressed' THEN Shifts ELSE {0}
    /\ packs' \in IF compressed' THEN SUBSET Records!Blocks' ELSE {{}}
    /\ print' \in IF lean' THEN Prints ELSE {Records!NoPrint}
    /\ UNCHANGED <<entry, slotOf, readVars>>
    /\ UNCHANGED <<inputVars, todo, pilots, taken, spare, q, free>>

FormatNext ==
    \/ pc \in {"search", "remap"} /\ Next /\ UNCHANGED recordVars
    \/ FillSlots \/ WriteRecords
    \/ pc = "written" /\ Records!Next /\ UNCHANGED vars

FormatSpec == FormatInit /\ [][FormatNext]_<<vars, recordVars>>

----------------------------------------------------------------------------
\* A lookup in the file CompileWithOptions wrote returns the row of its key and no other,
\* and a scan every row once, whatever the table, the hashes and the form of the records.
FileExact == pc = "written" => Records!ReadsExact
=============================================================================
