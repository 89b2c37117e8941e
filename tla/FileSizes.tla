----------------------------- MODULE FileSizes -----------------------------
(****************************************************************************)
(* The sections of a file and what openMapping accepts.  A file is written  *)
(* from front to back (Compile writes in place, a download arrives in       *)
(* pieces), so any prefix of it may be opened; the counts in the header of  *)
(* a version 1 file may also be damaged.  parseHeader computes on unsigned  *)
(* words; the readers then read the index sections with loads that may be   *)
(* wider than the element (pthash getBits, mapping.off).                    *)
(*                                                                          *)
(* Sizes are in bytes.  The checksum of a file that is cut or damaged is    *)
(* wrong.                                                                   *)
(****************************************************************************)
EXTENDS Integers

CONSTANTS
    Word,          \* 2^64: uint64 arithmetic is modulo Word
    HeaderSize, HeaderSizeV2,
    FilesV1,       \* files of version 1: their counts, routing width and data bytes
    FilesV2,       \* files of version 2: table, widths and blob
    Counts         \* what a damaged count may read as

ASSUME WordAssumption ==
    /\ Word \in Nat /\ Word % 8 = 0 /\ Word > HeaderSize + 4
    /\ HeaderSize \in Nat /\ HeaderSizeV2 \in Nat
    /\ Counts \subseteq 0 .. Word - 1
ASSUME FilesV1Assumption ==
    \A f \in FilesV1 : /\ f.version = 1
                       /\ f.S \in Nat \ {0} /\ f.B \in Nat \ {0} /\ f.w \in {2, 4} /\ f.blob \in Nat
                       /\ HeaderSize + f.B * f.w + f.S * 8 + f.blob + 4 < Word
\* What BuildWith and CompileWithOptions put in the header; per is 1 << blockShift.
ASSUME FilesV2Assumption ==
    \A f \in FilesV2 : /\ f.version = 2
                       /\ f.N \in Nat \ {0} /\ f.M \in f.N .. 2 * f.N + 16
                       /\ f.NB \in Nat /\ f.P2 \in 1 .. f.NB - 1
                       /\ f.FW \in 1 .. 32 /\ f.BW \in 1 .. 32
                       /\ f.per \in Nat \ {0} /\ f.ow \in {4, 5} /\ f.blob \in Nat

VARIABLES
    file,      \* the file as its writer leaves it
    counts,    \* the counts its header reads as
    size,      \* bytes of it that are there
    status     \* "closed", "open" or "rejected"

sizeVars == <<file, counts, size, status>>

----------------------------------------------------------------------------
\* Sections.

\* Version 1: header, routing table, slot words, data, checksum.
RoutingBytes(f) == f.B * f.w
SizeV1(f) == HeaderSize + RoutingBytes(f) + f.S * 8 + f.blob + 4

\* pthash: pilots packed in words, and 8 bytes so that 8 can be read at any of them.
PackedSize(count, w) == ((count * w + 63) \div 64) * 8 + 8
FreeSize(n, m) == (((m - n) * 4 + 7) \div 8) * 8

\* mutant: no slack behind 5-byte offsets.
NoSlack(count, w) == ((count * w + 7) \div 8) * 8
OffsetsSize(count, w) == NoSlack(count, w) + (IF w = 5 THEN 8 ELSE 0)

\* One offset per record, or per block, and one past the last.
NumOffsets(f) == ((f.N + f.per - 1) \div f.per) + 1

\* Version 2: header, front and back pilots, free slots, offsets, blob, checksum.
DataV2(f) == HeaderSizeV2 + PackedSize(f.P2, f.FW) + PackedSize(f.NB - f.P2, f.BW)
                          + FreeSize(f.N, f.M) + OffsetsSize(NumOffsets(f), f.ow)
SizeV2(f) == DataV2(f) + f.blob + 4

FullSize(f) == IF f.version = 1 THEN SizeV1(f) ELSE SizeV2(f)

Intact == file.version = 1 => counts = [S |-> file.S, B |-> file.B]

SizesInit ==
    /\ file \in FilesV1 \cup FilesV2
    /\ counts \in IF file.version = 1
                  THEN [S : Counts, B : Counts] \cup {[S |-> file.S, B |-> file.B]}
                  ELSE {[S |-> 0, B |-> 0]}
    /\ size = 0
    /\ status = "closed"

----------------------------------------------------------------------------
\* parseHeader

Uint64(x) == x % Word
MaxUint64 == Word - 1

R == Uint64(HeaderSize + counts.B * file.w)
D == Uint64(R + counts.S * 8)

\* mutant: the counts are not compared with what a word can hold.
NotChecked == TRUE
NoOverflow ==
    /\ counts.B <= (MaxUint64 - HeaderSize) \div file.w
    /\ counts.S <= MaxUint64 \div 8
    /\ R <= Uint64(MaxUint64 - counts.S * 8 - 4)

AcceptsV1 ==
    /\ size >= HeaderSize
    /\ counts.S # 0 /\ counts.B # 0
    /\ NoOverflow
    /\ Uint64(D + 4) <= size

\* mutant: compression is left out of the number of offsets.
RowOffsets(f) == f.N + 1
OffsetsRead(f) == NumOffsets(f)

DataRead == HeaderSizeV2 + PackedSize(file.P2, file.FW) + PackedSize(file.NB - file.P2, file.BW)
                         + FreeSize(file.N, file.M) + OffsetsSize(OffsetsRead(file), file.ow)

\* mutant: the last offset, which is the length of the blob, is not compared with the size.
IndexThere == DataRead + 4 <= size
BlobThere == DataRead + file.blob + 4 <= size

AcceptsV2 ==
    /\ size >= HeaderSizeV2 + 4
    /\ file.M <= 2 * file.N + 16
    /\ IndexThere
    /\ BlobThere

ChecksumRight == size = FullSize(file) /\ Intact
Accepts(check) ==
    /\ IF file.version = 1 THEN AcceptsV1 ELSE AcceptsV2
    /\ check => ChecksumRight

----------------------------------------------------------------------------
LastSize == FullSize(file)

WriteUpTo(n) ==
    /\ status # "open" /\ n \in size + 1 .. LastSize
    /\ size' = n
    /\ status' = "closed"
    /\ UNCHANGED <<file, counts>>

\* openMapping, with or without the checksum.
OpenMapping(check) ==
    /\ status = "closed"
    /\ status' = IF Accepts(check) THEN "open" ELSE "rejected"
    /\ UNCHANGED <<file, counts, size>>

SizesNext ==
        \/ \E n \in size + 1 .. LastSize : WriteUpTo(n)
        \/ \E check \in BOOLEAN : OpenMapping(check)

SizesSpec == SizesInit /\ [][SizesNext]_sizeVars

----------------------------------------------------------------------------
\* The bytes a lookup reads of the index, relative to the section.

\* getBits reads 8 bytes from the byte the element begins in; setBits writes them.
BitsRead(i, w) == (i * w) \div 8 + 8
\* mapping.off reads 8 bytes for a 5-byte offset.
OffsetRead(i, w) == i * w + (IF w = 5 THEN 8 ELSE 4)

----------------------------------------------------------------------------
\* Properties.

SizesTypeOK ==
    /\ file \in FilesV1 \cup FilesV2
    /\ counts.S \in 0 .. Word - 1 /\ counts.B \in 0 .. Word - 1
    /\ size \in 0 .. FullSize(file)
    /\ status \in {"closed", "open", "rejected"}

\* The counts of an accepted version 1 header, damaged or not, give sections that lie one
\* after the other inside the mapping, although they are computed on words: what entry reads
\* of them is there.
SectionsInsideV1 ==
    status = "open" /\ file.version = 1 =>
        /\ \A b \in 0 .. counts.B - 1 : HeaderSize + b * file.w + file.w <= R
        /\ \A s \in 0 .. counts.S - 1 : R + s * 8 + 8 <= D
        /\ D + 4 <= size

\* No load or store of a pilot, a free slot or an offset leaves its section in a version 2
\* file, although it may be wider than the element (getBits, setBits, mapping.off).
LoadsInsideV2 ==
    status = "open" /\ file.version = 2 =>
        /\ \A i \in 0 .. file.P2 - 1 : BitsRead(i, file.FW) <= PackedSize(file.P2, file.FW)
        /\ \A i \in 0 .. file.NB - file.P2 - 1 :
               BitsRead(i, file.BW) <= PackedSize(file.NB - file.P2, file.BW)
        /\ \A q \in file.N .. file.M - 1 : (q - file.N) * 4 + 4 <= FreeSize(file.N, file.M)
        /\ \A i \in 0 .. OffsetsRead(file) - 1 :
               OffsetRead(i, file.ow) <= OffsetsSize(OffsetsRead(file), file.ow)

\* A version 2 file that is not complete is rejected even when its checksum is not verified
\* (the check of the last offset in parseHeaderV2).
OpenIsCompleteV2 == status = "open" /\ file.version = 2 => size = FullSize(file)

\* A complete file is never rejected.
CompleteAccepted == size = FullSize(file) /\ Intact => status # "rejected"

\* Whatever is accepted can be read without leaving the mapping, in both versions.
LoadsInside == SizesTypeOK /\ SectionsInsideV1 /\ LoadsInsideV2

\* Complete files are accepted, and of version 2 no others.
AcceptsExactly == OpenIsCompleteV2 /\ CompleteAccepted
=============================================================================
