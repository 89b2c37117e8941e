-------------------------------- MODULE Lz4 --------------------------------
(****************************************************************************)
(* The block codec of compressed files (internal/lz4): Compress searches    *)
(* matches greedily and emits sequences of literals and a match; Decompress *)
(* decodes them into a buffer that holds whatever it held before, with wide *)
(* copies that write past their element when the buffer has the capacity.   *)
(*                                                                          *)
(* The constants are the code's, scaled down.  The output is a sequence of  *)
(* bytes; a token is two halves of a byte.                                  *)
(****************************************************************************)
EXTENDS Integers, Sequences

CONSTANTS
    Bytes, Garbage,    \* byte values, and what an unused buffer holds
    SrcLengths,        \* lengths of src tried
    Damaged,           \* blocks no Compress wrote
    Slack, Spares,     \* spare capacity behind dst
    MinMatch, LastLits, MFLimit, MaxOffset,
    Hash(_),           \* hash4, of MinMatch bytes
    Nibble,              \* 15: a half of a token says that a length goes on
    Cont,              \* 255: so does a length byte
    Chunk,             \* 8: bytes a wide copy moves
    MaxFast            \* 32: the longest match copied in chunks

ASSUME BytesAssumption ==
    Bytes \subseteq Nat /\ Garbage \in Nat /\ Damaged \subseteq Seq(Nat)
ASSUME BuffersAssumption ==
    SrcLengths \subseteq Nat /\ Spares \subseteq Nat /\ {Slack, Chunk, MaxFast} \subseteq Nat
    /\ Chunk >= 1 /\ Chunk <= Slack + 1
ASSUME BlockAssumption ==
    {MinMatch, LastLits, MFLimit, MaxOffset, Nibble, Cont} \subseteq Nat
    /\ MinMatch >= 1 /\ Cont >= 1 /\ MinMatch + LastLits <= MFLimit + 1
    /\ MaxOffset < (Cont + 1) * (Cont + 1)

VARIABLES
    src, room,         \* the input; capacity of dst past its length
    written,           \* the block is the one Compress writes for src
    phase,             \* "compress", "sequence", "match", "pattern", "done" or "corrupt"
    anchor, si, table, \* Compress; si is also the position Decompress reads at
    out,               \* the compressed block
    di, full,          \* Decompress: position in, and content of, the buffer
    offset, ml, end    \* the match being copied

codecVars == <<src, room, written, phase, anchor, si, table, out, di, full, offset, ml, end>>
compressVars == <<anchor, table, out>>

srcLen == Len(src)
SrcAt(i) == src[i + 1]
Four(i) == [j \in 1 .. MinMatch |-> SrcAt(i + j - 1)]
HashValues == {Hash(v) : v \in [1 .. MinMatch -> Bytes]}

CodecInit ==
    /\ \/ /\ src \in UNION {[1 .. k -> Bytes] : k \in SrcLengths}
          /\ written = TRUE /\ phase = "compress" /\ out = <<>>
       \/ /\ src \in {[i \in 1 .. k |-> Garbage] : k \in SrcLengths}  \* only its length matters
          /\ written = FALSE /\ phase = "sequence" /\ out \in Damaged
    /\ room \in Spares
    /\ anchor = 0 /\ si = 0 /\ table = [h \in HashValues |-> -1]
    /\ di = 0 /\ full = [i \in 0 .. srcLen + room - 1 |-> Garbage]
    /\ offset = 0 /\ ml = 0 /\ end = 0

----------------------------------------------------------------------------
\* Compress

\* appendLen: length l in bytes.
LenBytes(l) == [i \in 1 .. l \div Cont |-> Cont] \o <<l % Cont>>
HalfOf(l) == IF l >= Nibble THEN Nibble ELSE l
RestBytes(l) == IF l >= Nibble THEN LenBytes(l - Nibble) ELSE <<>>

Token(lit, match) == lit * (Nibble + 1) + match

\* Two bytes hold the offset; what does not fit is lost.
OffsetBytes(off) == <<off % (Cont + 1), (off \div (Cont + 1)) % (Cont + 1)>>

\* emitSequence
TokenAndLiterals(from, to, half) ==
    <<Token(HalfOf(to - from), half)>> \o RestBytes(to - from) \o SubSeq(src, from + 1, to)
Sequence(from, to, off, len) ==
    TokenAndLiterals(from, to, HalfOf(len - MinMatch))
        \o OffsetBytes(off) \o RestBytes(len - MinMatch)

Searching == phase = "compress" /\ srcLen >= MFLimit + 1 /\ si < srcLen - MFLimit
Ref == table[Hash(Four(si))]
Matches == Ref >= 0 /\ si - Ref <= MaxOffset /\ Four(Ref) = Four(si)

\* The longest extension, which leaves the last bytes to literals.
MatchLength ==
    CHOOSE len \in MinMatch .. srcLen - LastLits - si :
        /\ \A j \in MinMatch .. len - 1 : SrcAt(Ref + j) = SrcAt(si + j)
        /\ si + len = srcLen - LastLits \/ SrcAt(Ref + len) # SrcAt(si + len)

Remember == table' = [table EXCEPT ![Hash(Four(si))] = si]

SkipByte ==
    /\ Searching /\ ~Matches
    /\ si' = si + 1
    /\ Remember
    /\ UNCHANGED <<src, room, written, phase, anchor, out, di, full, offset, ml, end>>

AfterMatch == si + MatchLength

EmitMatch ==
    /\ Searching /\ Matches
    /\ out' = out \o Sequence(anchor, si, si - Ref, MatchLength)
    /\ si' = si + MatchLength
    /\ anchor' = AfterMatch
    /\ Remember
    /\ UNCHANGED <<src, room, written, phase, di, full, offset, ml, end>>

FinalLiterals ==
    /\ phase = "compress" /\ ~Searching
    /\ out' = out \o TokenAndLiterals(anchor, srcLen, 0)
    /\ phase' = "sequence" /\ si' = 0
    /\ UNCHANGED <<src, room, written, anchor, table, di, full, offset, ml, end>>

----------------------------------------------------------------------------
\* Decompress

Byte(i) == out[i + 1]
Malformed == [len |-> srcLen + 1, next |-> Len(out) + 1]

\* The length that begins with half h and goes on at position i.
ReadLen(h, i) ==
    IF h < Nibble THEN [len |-> h, next |-> i]
    ELSE IF \A j \in i .. Len(out) - 1 : Byte(j) = Cont THEN Malformed
    ELSE LET last == CHOOSE j \in i .. Len(out) - 1 :
                         Byte(j) # Cont /\ \A k \in i .. j - 1 : Byte(k) = Cont
         IN [len |-> Nibble + (last - i) * Cont + Byte(last), next |-> last + 1]

\* The buffer after the cells are written to it, and cells from dist positions before.
Put(buffer, cells) ==
    [i \in DOMAIN buffer \cup DOMAIN cells |-> IF i \in DOMAIN cells THEN cells[i] ELSE buffer[i]]
Behind(buffer, at, len, dist) == [i \in at .. at + len - 1 |-> buffer[i - dist]]

Capacity == srcLen + room

\* Literals that begin at from, copied wide where both sides have room.
Literals(len, from) == [i \in di .. di + len - 1 |-> Byte(from + i - di)]
Wide(len, from) == len <= 2 * Chunk /\ from + 2 * Chunk <= Len(out) /\ di + 2 * Chunk <= Capacity
WithLiterals(len, from) ==
    Put(full, Literals(IF Wide(len, from) THEN 2 * Chunk ELSE len, from))

\* A token, its literals, and the offset and length of its match.
ReadSequence ==
    /\ phase = "sequence"
    /\ si < Len(out)
    /\ LET lit == ReadLen(Byte(si) \div (Nibble + 1), si + 1)
           next == lit.next + lit.len
           off == Byte(next) + Byte(next + 1) * (Cont + 1)
           match == ReadLen(Byte(si) % (Nibble + 1), next + 2)
           after == di + lit.len
       IN \/ /\ \/ next > Len(out) \/ lit.len > srcLen - di
                \/ next = Len(out) /\ after # srcLen
                \/ next + 1 = Len(out)
                \/ /\ next + 1 < Len(out)
                   /\ off = 0 \/ off > after \/ match.len + MinMatch > srcLen - after
             /\ phase' = "corrupt"
             /\ UNCHANGED <<si, di, full, offset, ml>>
          \/ /\ next = Len(out) /\ after = srcLen
             /\ phase' = "done"
             /\ full' = WithLiterals(lit.len, lit.next)
             /\ di' = after /\ si' = next
             /\ UNCHANGED <<offset, ml>>
          \/ /\ next + 1 < Len(out) /\ after <= srcLen
             /\ off # 0 /\ off <= after /\ match.len + MinMatch <= srcLen - after
             /\ phase' = "match"
             /\ full' = WithLiterals(lit.len, lit.next)
             /\ di' = after /\ si' = match.next
             /\ offset' = off /\ ml' = match.len + MinMatch
    /\ UNCHANGED <<src, room, written, compressVars, end>>

\* Chunks in order; the last may go past the match.
Chunks == (ml + Chunk - 1) \div Chunk
ChunkCopy ==
    LET copied[c \in 0 .. Chunks] ==
            IF c = 0 THEN full
            ELSE Put(copied[c - 1], Behind(copied[c - 1], di + (c - 1) * Chunk, Chunk, offset))
    IN copied[Chunks]

\* mutant: chunks although the match overlaps what they write.
AnyOffset == ml <= MaxFast /\ di + ml + Slack <= Capacity
MayChunk == offset >= Chunk /\ ml <= MaxFast /\ di + ml + Slack <= Capacity

CopyMatch ==
    /\ phase = "match"
    /\ \/ /\ MayChunk
          /\ full' = ChunkCopy /\ di' = di + ml /\ phase' = "sequence"
          /\ UNCHANGED end
       \/ /\ ~MayChunk /\ offset >= ml
          /\ full' = Put(full, Behind(full, di, ml, offset))
          /\ di' = di + ml /\ phase' = "sequence"
          /\ UNCHANGED end
       \/ /\ ~MayChunk /\ offset < ml
          /\ end' = di + ml /\ phase' = "pattern"
          /\ UNCHANGED <<full, di>>
    /\ UNCHANGED <<src, room, written, compressVars, si, offset, ml>>

\* An overlapping match: all that is there of the pattern, which doubles each time.  It
\* begins at from, ml before end and offset further back.
From == end - ml - offset
\* mutant: the copy is not cut at the end of the match.
PatternThere == di - From
PatternLength == IF di - From < end - di THEN di - From ELSE end - di

CopyPattern ==
    /\ phase = "pattern"
    /\ IF di < end
       THEN /\ full' = Put(full, Behind(full, di, PatternLength, di - From))
            /\ di' = di + PatternLength
            /\ UNCHANGED phase
       ELSE phase' = "sequence" /\ UNCHANGED <<full, di>>
    /\ UNCHANGED <<src, room, written, compressVars, si, offset, ml, end>>

\* The block ends where a token should be.
NoSequence ==
    /\ phase = "sequence" /\ si >= Len(out)
    /\ phase' = "corrupt"
    /\ UNCHANGED <<src, room, written, compressVars, si, di, full, offset, ml, end>>

----------------------------------------------------------------------------
CodecNext == SkipByte \/ EmitMatch \/ FinalLiterals \/ ReadSequence \/ NoSequence \/ CopyMatch \/ CopyPattern

CodecSpec == CodecInit /\ [][CodecNext]_codecVars

----------------------------------------------------------------------------
\* Properties.

\* No copy, however wide, writes past the capacity of the buffer, whatever the block.
CodecTypeOK ==
    /\ phase \in {"compress", "sequence", "match", "pattern", "done", "corrupt"}
    /\ anchor \in 0 .. srcLen /\ si \in 0 .. (srcLen + Len(out)) /\ di \in 0 .. srcLen
    /\ full \in [0 .. Capacity - 1 -> Nat]
    /\ offset \in 0 .. srcLen /\ ml \in 0 .. srcLen /\ end \in 0 .. srcLen

\* What is decoded of a block of Compress is the input, although wide copies leave other
\* bytes behind it and copy bytes not yet decoded (the fast paths of Decompress).
DecodedPrefix == written => \A i \in 0 .. di - 1 : full[i] = SrcAt(i)

\* Decompress never takes a block of Compress for a corrupted one.
NeverCorrupt == written => phase # "corrupt"

\* A file read back is the file written, and reading any file is safe for the buffers.
RoundTrip == CodecTypeOK /\ DecodedPrefix /\ NeverCorrupt
=============================================================================
