----------------------------- MODULE RecordsV2 -----------------------------
(****************************************************************************)
(* The records of a version 2 file and its readers: the offsets and, with   *)
(* compression, the blocks that CompileWithOptions writes in slot order,    *)
(* and the lookups and scans that read them back (entryV2,                  *)
(* recordCompressed, scanV2).  Readers of a compressed file run             *)
(* concurrently and share a pool of decompression buffers.                  *)
(*                                                                          *)
(* The perfect hash is PTHash's promise: the rows have the slots one to     *)
(* one, any other key has some slot.  A byte is a cell that says of which   *)
(* record it is; a block's compressed form is the cells a decompression     *)
(* maps back to the block (Lz4).                                            *)
(****************************************************************************)
EXTENDS Integers, Sequences, Functions

CONSTANTS
    Keys, NotFound, Corrupt,
    NumRows,       \* rows of the file
    Lengths,       \* lengths of the records tried
    Shifts,        \* block shifts tried
    Prints,        \* fingerprints of the keys tried
    OffsetLimit,   \* what a 4-byte offset can hold, plus 1
    Readers, Buffers, None,
    MaxLookups     \* bound: lookups begun

VARIABLES
    entry,        \* slotEntry: the key of the row at each slot
    slotOf,       \* Table.Slot of a key's hash
    length,       \* length of a row's record, in cells
    compressed, shift, lean,
    packs,        \* the blocks that LZ4 makes smaller
    print,        \* keyFingerprint
    pool,         \* scratchPool: buffers not in use
    content,      \* what a buffer holds
    pc, key, buf, \* a lookup: control, key, buffer
    result,       \* its result
    lookups       \* begun so far

fileVars == <<entry, slotOf, length, compressed, shift, lean, packs, print>>
vars == <<fileVars, pool, content, pc, key, buf, result, lookups>>

Slots == 0 .. NumRows - 1
RowKeys == {entry[s] : s \in Slots}

Per == 2 ^ shift
NumBlocks == (NumRows + Per - 1) \div Per
Blocks == 0 .. NumBlocks - 1
NoPrint == [k \in Keys |-> 0]

Init ==
    /\ entry \in {e \in [Slots -> Keys] : IsInjective(e)}
    /\ slotOf \in {f \in [Keys -> Slots] : \A s \in Slots : f[entry[s]] = s}
    /\ length \in Lengths
    /\ compressed \in BOOLEAN /\ lean \in BOOLEAN
    /\ shift \in IF compressed THEN Shifts ELSE {0}
    /\ packs \in IF compressed THEN SUBSET Blocks ELSE {{}}
    /\ print \in IF lean THEN Prints ELSE {NoPrint}
    /\ pool = Buffers /\ content = [b \in Buffers |-> <<>>]
    /\ pc = [r \in Readers |-> "idle"]
    /\ key = [r \in Readers |-> entry[0]] /\ buf = [r \in Readers |-> None]
    /\ result = [r \in Readers |-> NotFound]
    /\ lookups = 0

----------------------------------------------------------------------------
\* The file.

\* A record: its cells; the first also stands for the length and key, or the fingerprint.
Record(s) == [i \in 1 .. length[s] |-> [row |-> s, at |-> i]]

\* Concatenation of f[0] .. f[n - 1].
Concat(f, n) ==
    LET upTo[m \in 0 .. n] == IF m = 0 THEN <<>> ELSE upTo[m - 1] \o f[m - 1]
    IN upTo[n]

\* The raw block: for each record its length, then the record.
Prefixed(s) == <<[len |-> length[s]]>> \o Record(s)
Held(b) == IF NumRows - b * Per < Per THEN NumRows - b * Per ELSE Per
Raw(b) == Concat([i \in 0 .. Held(b) - 1 |-> Prefixed(b * Per + i)], Held(b))

\* method | payload; stored unless LZ4 makes it smaller.
Block(b) == IF b \in packs THEN <<[method |-> "lz4"], [lz4 |-> b]>>
            ELSE <<[method |-> "stored"]>> \o Raw(b)

Pieces == IF compressed THEN NumBlocks ELSE NumRows
Piece == [i \in 0 .. Pieces - 1 |-> IF compressed THEN Block(i) ELSE Record(i)]
Blob == Concat(Piece, Pieces)
StartOf(i) == Len(Concat(Piece, i))

\* mutant: the width is chosen from the size of the records before compression.
RecordBytes == Len(Concat([s \in Slots |-> Record(s)], NumRows))
SizeForWidth == Len(Blob)

\* mapping.off: offsets have 4 bytes when the blob allows it, else 5.
Off(i) == IF SizeForWidth < OffsetLimit THEN StartOf(i) % OffsetLimit ELSE StartOf(i)

----------------------------------------------------------------------------
\* Reading.

\* The piece between two offsets; empty when they are out of order or past the end.
PieceAt(i) == IF Off(i) < Off(i + 1) /\ Off(i + 1) <= Len(Blob)
              THEN SubSeq(Blob, Off(i) + 1, Off(i + 1)) ELSE <<>>

\* decodeBlock
Decode(blk) ==
    IF blk = <<>> THEN <<>>
    ELSE IF Head(blk).method = "stored" THEN Tail(blk) ELSE Raw(blk[2].lz4)

\* The i-th record of a raw block, by skipping the ones before it (nextRecord).
SkipRecord(raw) == SubSeq(raw, Head(raw).len + 2, Len(raw))
NthRecord(raw, i) ==
    LET rest[j \in 0 .. i] ==
            IF j = 0 THEN raw
            ELSE IF rest[j - 1] = <<>> THEN <<>> ELSE SkipRecord(rest[j - 1])
    IN IF rest[i] = <<>> THEN <<>> ELSE SubSeq(rest[i], 2, Head(rest[i]).len + 1)

InBlock(s) == s % Per

\* The row a complete record is of.
RowOf(rec) == IF \E s \in Slots : rec = Record(s)
              THEN entry[CHOOSE s \in Slots : rec = Record(s)] ELSE Corrupt

\* The check of the stored key, or of its fingerprint; yields the row answered.
Verified(k, rec) ==
    LET row == RowOf(rec)
    IN IF row = Corrupt THEN Corrupt
       ELSE IF IF lean THEN print[k] = print[row] ELSE k = row THEN row ELSE NotFound

----------------------------------------------------------------------------
\* Lookups.

Begin(r, k) ==
    /\ pc[r] = "idle" /\ lookups < MaxLookups
    /\ lookups' = lookups + 1
    /\ key' = [key EXCEPT ![r] = k]
    /\ IF compressed
       THEN /\ pc' = [pc EXCEPT ![r] = "get"]
            /\ UNCHANGED result
       ELSE /\ pc' = [pc EXCEPT ![r] = "return"]
            /\ result' = [result EXCEPT ![r] = Verified(k, PieceAt(slotOf[k]))]
    /\ UNCHANGED <<fileVars, pool, content, buf>>

\* scratchPool.Get
GetScratch(r, b) ==
    /\ pc[r] = "get" /\ b \in pool
    /\ pool' = pool \ {b}
    /\ buf' = [buf EXCEPT ![r] = b]
    /\ pc' = [pc EXCEPT ![r] = "decode"]
    /\ UNCHANGED <<fileVars, content, key, result, lookups>>

\* mutant: the buffer goes back to the pool as soon as it is filled.
PutAtOnce(b) == {b}
PutLater(b) == {}

\* An LZ4 block is decompressed into the buffer, a stored one is read in the mapping.
BlockOf(r) == slotOf[key[r]] \div Per
DecodeBlock(r) ==
    /\ pc[r] = "decode"
    /\ content' = IF BlockOf(r) \in packs
                  THEN [content EXCEPT ![buf[r]] = Decode(PieceAt(BlockOf(r)))] ELSE content
    /\ pool' = pool \cup PutLater(buf[r])
    /\ pc' = [pc EXCEPT ![r] = "copy"]
    /\ UNCHANGED <<fileVars, key, buf, result, lookups>>

\* The record is copied out and its key compared.
CopyRecord(r) ==
    /\ pc[r] = "copy"
    /\ LET raw == IF BlockOf(r) \in packs THEN content[buf[r]] ELSE Decode(PieceAt(BlockOf(r)))
       IN result' = [result EXCEPT ![r] =
                        Verified(key[r], NthRecord(raw, InBlock(slotOf[key[r]])))]
    /\ pc' = [pc EXCEPT ![r] = "put"]
    /\ UNCHANGED <<fileVars, pool, content, key, buf, lookups>>

\* scratchPool.Put
PutScratch(r) ==
    /\ pc[r] = "put"
    /\ pool' = pool \cup {buf[r]}
    /\ pc' = [pc EXCEPT ![r] = "return"]
    /\ UNCHANGED <<fileVars, content, key, buf, result, lookups>>

Return(r) ==
    /\ pc[r] = "return"
    /\ pc' = [pc EXCEPT ![r] = "idle"]
    /\ UNCHANGED <<fileVars, pool, content, key, buf, result, lookups>>

----------------------------------------------------------------------------
\* What Scan passes, in order.

BlockRecords(b) ==
    LET raw == Decode(PieceAt(b))
    IN [i \in 1 .. Held(b) |-> RowOf(NthRecord(raw, i - 1))]
ScanResult ==
    IF compressed THEN Concat([b \in Blocks |-> BlockRecords(b)], NumBlocks)
    ELSE [i \in 1 .. NumRows |-> RowOf(PieceAt(i - 1))]

----------------------------------------------------------------------------
Next == \E r \in Readers :
            \/ \E k \in Keys : Begin(r, k)
            \/ \E b \in Buffers : GetScratch(r, b)
            \/ DecodeBlock(r) \/ CopyRecord(r) \/ PutScratch(r) \/ Return(r)

Spec == Init /\ [][Next]_vars

----------------------------------------------------------------------------
\* Properties.

TypeOK ==
    /\ entry \in [Slots -> Keys] /\ slotOf \in [Keys -> Slots]
    /\ compressed \in BOOLEAN /\ lean \in BOOLEAN /\ shift \in Shifts \cup {0}
    /\ pool \subseteq Buffers
    /\ pc \in [Readers -> {"idle", "get", "decode", "copy", "put", "return"}]
    /\ key \in [Readers -> Keys] /\ buf \in [Readers -> Buffers \cup {None}]
    /\ result \in [Readers -> RowKeys \cup {NotFound}]  \* an intact file is never "corrupted"
    /\ lookups \in 0 .. MaxLookups

\* Every lookup of a row returns that row, in every form of the file and although the
\* readers share decompression buffers; any other key is found only in a lean file, with
\* the fingerprint of the row it returns (entryV2, recordCompressed, compressBlocks).
ResultExact ==
    \A r \in Readers :
        pc[r] = "return" =>
            IF key[r] \in RowKeys THEN result[r] = key[r]
            ELSE result[r] = NotFound \/ (lean /\ print[result[r]] = print[key[r]])

\* Scan passes every row once, in slot order (scanV2, scanCompressed).  It depends on the
\* file alone, which no lookup changes, so that it is looked at before the first one.
ScanExact == lookups = 0 => ScanResult = [i \in 1 .. NumRows |-> entry[i - 1]]

\* The file answers lookups and scans with its rows and nothing else.
ReadsExact == TypeOK /\ ResultExact /\ ScanExact
=============================================================================
