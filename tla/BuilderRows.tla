----------------------------- MODULE BuilderRows -----------------------------
(****************************************************************************)
(* The row store of a Builder (builder.go, spill.go): the arena of chunks   *)
(* or the spill file that holds the bytes of the rows, the index over them, *)
(* the cached key hashes, and the calls Add, BuildFrom, Compile and Reset   *)
(* that keep them consistent when an input fails half way.                  *)
(*                                                                          *)
(* A Builder is not safe for concurrent use: every call is one step.  A key *)
(* or value is a short sequence; a source is the rows its parser produces   *)
(* and how it ends.                                                         *)
(****************************************************************************)
EXTENDS Integers, Sequences, SequencesExt, FiniteSetsExt, Totals

CONSTANTS
    Keys, Values, Sources,   \* as in RowList
    MaxKeyLen, MaxValueLen,  \* limits of a row
    Hash,                    \* xxhash.Sum64: key -> <<high half, low half>>
    ArenaChunk,              \* arenaChunk
    BufferSize,              \* of the spill file's bufio.Writer
    MaxDataBlock,            \* maxDataBlock
    MaxRows                  \* bound: rows accepted

\* 64 MB against 64 KB and 1 MB: every row fits a chunk.
ASSUME ArenaAssumption == ArenaChunk >= MaxKeyLen + MaxValueLen
ASSUME HashAssumption == DOMAIN Hash = Keys
ASSUME LimitsAssumption == {MaxKeyLen, MaxValueLen, ArenaChunk, BufferSize, MaxRows} \subseteq Nat

Byte == 0 .. 255
Row == [key : Keys, val : Values]
ASSUME BytesAssumption == Keys \cup Values \subseteq Seq(Byte)
ASSUME SourcesAssumption ==
    \A src \in Sources : src.rows \in Seq(Row) /\ src.end \in {"eof", "malformed"}

VARIABLES
    b,         \* the Builder
    call,      \* history: the last call, with its argument
    result,    \* of the last call: [kind, line, first]
    emitted    \* the rows the last call wrote to a file
vars == <<b, call, result, emitted>>

NoFile == [on |-> FALSE, file |-> <<>>, buf |-> <<>>, mapped |-> 0]
NewFile == [NoFile EXCEPT !.on = TRUE]

\* The fields of Builder; mapped is the length of the spill file's mapping.
NewBuilder(spill) ==
    [chunks |-> <<>>, offs |-> <<>>, klens |-> <<>>, vlens |-> <<>>, lines |-> <<>>,
     hashes |-> <<>>, spill |-> spill, dataBytes |-> 0, checked |-> 0]

Rows(x) == Len(x.offs)
Result(kind, line, first) == [kind |-> kind, line |-> line, first |-> first]
Ok == Result("ok", 0, 0)

Init ==
    /\ \E spill \in {NoFile, NewFile} : b = NewBuilder(spill)
    /\ call = <<"none">>
    /\ result = Result("none", 0, 0)
    /\ emitted = <<>>

----------------------------------------------------------------------------
\* Row bytes.

Written(s) == s.file \o s.buf

\* bufio.Writer.Write: bytes that do not fit go to the file at once when the buffer is
\* empty; otherwise it is filled and flushed, and so is a rest that does not fit either.
Put(s, bytes) ==
    LET all == s.buf \o bytes
        out == IF Len(all) <= BufferSize THEN 0
               ELSE IF s.buf = <<>> \/ Len(all) > 2 * BufferSize THEN Len(all) ELSE BufferSize
    IN [s EXCEPT !.file = @ \o SubSeq(all, 1, out), !.buf = SubSeq(all, out + 1, Len(all))]

\* spillStore.append
Write(s, row) == Put(Put(s, row.key), row.val)

\* Flush, and a new mapping of the whole file.
Remap(s) == [s EXCEPT !.file = Written(s), !.buf = <<>>, !.mapped = Len(Written(s))]

\* mutant: the mapping survives the truncation.
StillMapped(s) == s.mapped
Unmapped(s) == 0

Truncate(s, size) ==
    [s EXCEPT !.file = SubSeq(Written(s), 1, size), !.buf = <<>>, !.mapped = Unmapped(s)]

\* view: bytes of the mapping, renewed when it is too short; a mapping that reaches past
\* the end of the file has no bytes there.
View(s, off, n) == SubSeq(IF off + n > s.mapped THEN Written(s) ELSE s.file, off + 1, off + n)

\* rowKey and rowValue.
RowBytes(x, i, from, n) ==
    IF x.spill.on THEN View(x.spill, x.offs[i][2] + from, n)
    ELSE SubSeq(x.chunks[x.offs[i][1]], x.offs[i][2] + from + 1, x.offs[i][2] + from + n)
RowKey(x, i) == RowBytes(x, i, 0, x.klens[i])
RowValue(x, i) == RowBytes(x, i, x.klens[i], x.vlens[i])

\* Reading the keys of some rows maps the spill file anew if the mapping is too short.
ReadKeys(x, some) ==
    [x EXCEPT !.spill = IF @.on /\ \E i \in some : x.offs[i][2] + x.klens[i] > @.mapped
                        THEN Remap(@) ELSE @]

\* A chunk has room for need more bytes.
Free(c, need) == Len(c) + need <= ArenaChunk

AppendRow(x, row, line) ==
    LET bytes == row.key \o row.val
        fresh == x.chunks = <<>> \/ ~Free(Last(x.chunks), Len(bytes))
        chunks == IF fresh THEN Append(x.chunks, <<>>) ELSE x.chunks
        off == IF x.spill.on THEN <<0, Len(Written(x.spill))>> ELSE <<Len(chunks), Len(Last(chunks))>>
        y == [x EXCEPT !.offs = Append(@, off), !.klens = Append(@, Len(row.key)),
                       !.vlens = Append(@, Len(row.val)), !.lines = Append(@, line),
                       !.dataBytes = @ + 2 + Len(bytes)]
    IN IF x.spill.on THEN [y EXCEPT !.spill = Write(@, row)]
       ELSE [y EXCEPT !.chunks = [chunks EXCEPT ![Len(chunks)] = @ \o bytes]]

----------------------------------------------------------------------------
\* mark and rollback.

\* The mark is the Builder itself; what rollback uses of it are the lengths.
\* mutant: the hashes of the rows taken back are kept.
HashesKept(x, n) == x.hashes
HashesCut(x, n) == SubSeq(x.hashes, 1, IF Len(x.hashes) > n THEN n ELSE Len(x.hashes))

Rollback(x, m) ==
    LET n == Rows(m)
        lastLen == IF m.chunks = <<>> THEN 0 ELSE Len(Last(m.chunks))
        cut == SubSeq(x.chunks, 1, Len(m.chunks))
    IN [x EXCEPT !.offs = SubSeq(@, 1, n), !.klens = SubSeq(@, 1, n), !.vlens = SubSeq(@, 1, n),
                 !.lines = SubSeq(@, 1, n), !.hashes = HashesCut(x, n),
                 !.chunks = IF cut = <<>> THEN cut
                            ELSE [cut EXCEPT ![Len(cut)] = SubSeq(@, 1, lastLen)],
                 !.dataBytes = m.dataBytes,
                 !.spill = IF @.on THEN Truncate(@, Len(Written(m.spill))) ELSE @,
                 !.checked = IF @ > n THEN n ELSE @]

----------------------------------------------------------------------------
\* Duplicates.

\* ensureHashes hashes the keys of the rows that are new.
EnsureHashes(x) ==
    LET old == Len(x.hashes)
    IN [ReadKeys(x, old + 1 .. Rows(x)) EXCEPT
           !.hashes = @ \o [i \in 1 .. Rows(x) - old |-> Hash[RowKey(x, old + i)]]]

SameKey(x, q, r) == x.hashes[q] = x.hashes[r] /\ RowKey(x, q) = RowKey(x, r)

\* The lowest row after the first from rows whose key an earlier row has, and the first
\* row that has it; x has its hashes.
FirstDuplicate(x, from) ==
    LET dups == {r \in from + 1 .. Rows(x) : \E q \in 1 .. r - 1 : SameKey(x, q, r)}
        best == Min(dups)
        bestFirst == Min({q \in 1 .. best - 1 : SameKey(x, q, best)})
    IN IF Rows(x) < 2 \/ dups = {} THEN Ok ELSE Result("dup", x.lines[best], x.lines[bestFirst])

\* The Builder after the search: hashes cached, and keys with equal hashes read.
Hashed(x, from) ==
    LET y == EnsureHashes(x)
    IN IF Rows(x) - from <= 0 \/ Rows(x) < 2 THEN x
       ELSE ReadKeys(y, {r \in from + 1 .. Rows(x) : \E q \in 1 .. r - 1 : y.hashes[q] = y.hashes[r]})

----------------------------------------------------------------------------
\* Add and BuildFrom.

TooLong(row) == Len(row.key) > MaxKeyLen \/ Len(row.val) > MaxValueLen

Add(row) ==
    /\ call' = <<"Add", row>>
    /\ Rows(b) < MaxRows
    /\ IF TooLong(row)
       THEN result' = Result("limit", 0, 0) /\ UNCHANGED b
       ELSE result' = Ok /\ b' = AppendRow(b, row, 0)
    /\ emitted' = <<>>

Stopped(sink) == sink.limit # Ok

\* rowSink.add of row n of the source.
SinkAdd(sink, src, n) ==
    IF Stopped(sink) THEN sink
    ELSE IF TooLong(src.rows[n]) THEN [sink EXCEPT !.limit = Result("limit", n, 0)]
    ELSE [sink EXCEPT !.b = AppendRow(@, src.rows[n], n)]

\* The sink after each number of rows of the source, from the first row on.
Sinks(x, src) ==
    LET sink[n \in 0 .. Len(src.rows)] ==
            IF n = 0 THEN [b |-> x, limit |-> Ok] ELSE SinkAdd(sink[n - 1], src, n)
    IN sink
Parse(x, src) == Sinks(x, src)[Len(src.rows)]

\* The earlier of the limit error and the first duplicate before it.
LimitOrDuplicate(limit, dup) == IF dup # Ok /\ dup.line < limit.line THEN dup ELSE limit

\* mutant: the rows of a failed input stay.
NotRolledBack(x, m) == x
RolledBack(x, m) == Rollback(x, m)

BuildFrom(src) ==
    /\ call' = <<"BuildFrom", src>>
    /\ Rows(b) + Len(src.rows) <= MaxRows
    /\ LET sink == Parse(b, src)
           y == IF src.end = "eof" THEN Hashed(sink.b, Rows(b)) ELSE sink.b
           dup == FirstDuplicate(y, Rows(b))
       IN /\ result' = IF src.end # "eof" THEN Result(src.end, 0, 0)
                       ELSE IF sink.limit # Ok THEN LimitOrDuplicate(sink.limit, dup)
                       ELSE dup
          /\ b' = IF result' = Ok THEN [y EXCEPT !.checked = Rows(y)] ELSE RolledBack(y, b)
    /\ emitted' = <<>>

----------------------------------------------------------------------------
\* Compiling.

IsPrime(n) == n > 1 /\ \A d \in 2 .. n - 1 : n % d # 0

\* tableSizes: the number of slots and of buckets for n rows.
TableSlots(n) == CHOOSE s \in 3 .. 4 * n + 3 : /\ IsPrime(s) /\ s >= (n * 12) \div 10
                                               /\ \A t \in 3 .. s - 1 : IsPrime(t) => t < (n * 12) \div 10
TableBuckets(n) == (TableSlots(n) * 6) \div 5

\* place fails for two rows of one bucket with the same low hash; otherwise it finds a
\* displacement for every bucket.
Placeable(x) ==
    \A i, j \in 1 .. Rows(x) :
        i < j => ~(/\ x.hashes[i][1] % TableBuckets(Rows(x)) = x.hashes[j][1] % TableBuckets(Rows(x))
                   /\ x.hashes[i][2] = x.hashes[j][2])

\* pthash.Build fails for two rows with the same hash.
Hashable(x) == \A i, j \in 1 .. Rows(x) : i < j => x.hashes[i] # x.hashes[j]

UpToDate(x) == x.checked >= Rows(x)

\* prepare's duplicate check, if rows were added since the last one.
Checked(x) == IF UpToDate(x) THEN x ELSE Hashed(x, x.checked)
Duplicate(x) == IF UpToDate(x) THEN Ok ELSE FirstDuplicate(Checked(x), x.checked)

Emitted(x) == [i \in 1 .. Rows(x) |-> [key |-> RowKey(x, i), val |-> RowValue(x, i), line |-> x.lines[i]]]

\* Writing the records reads every row, so the whole spill file is mapped.
AllRead(x) == [x EXCEPT !.spill = IF @.on /\ Len(Written(@)) > @.mapped THEN Remap(@) ELSE @]

\* CompileTo and CompileFile.
CompileV1 ==
    LET dup == Duplicate(b)
        y == EnsureHashes([Checked(b) EXCEPT !.checked = Rows(b)])
    IN /\ call' = <<"Compile">>
       /\ \/ /\ dup # Ok
             /\ result' = dup /\ b' = Checked(b) /\ emitted' = <<>>
          \/ /\ dup = Ok /\ ~Placeable(y)
             /\ result' = Result("unplaceable", 0, 0) /\ b' = y /\ emitted' = <<>>
          \/ /\ dup = Ok /\ Placeable(y) /\ y.dataBytes > MaxDataBlock
             /\ result' = Result("toolarge", 0, 0) /\ b' = y /\ emitted' = <<>>
          \/ /\ dup = Ok /\ Placeable(y) /\ y.dataBytes <= MaxDataBlock
             /\ result' = Ok /\ b' = AllRead(y) /\ emitted' = Emitted(y)

\* Compile and CompileWithOptions.
CompileV2 ==
    LET dup == Duplicate(b)
        y == EnsureHashes([Checked(b) EXCEPT !.checked = Rows(b)])
    IN /\ call' = <<"Compile">>
       /\ \/ /\ Rows(b) = 0
             /\ result' = Result("noentries", 0, 0) /\ emitted' = <<>> /\ UNCHANGED b
          \/ /\ Rows(b) > 0 /\ dup # Ok
             /\ result' = dup /\ b' = Checked(b) /\ emitted' = <<>>
          \/ /\ Rows(b) > 0 /\ dup = Ok /\ ~Hashable(y)
             /\ result' = Result("unplaceable", 0, 0) /\ b' = y /\ emitted' = <<>>
          \/ /\ Rows(b) > 0 /\ dup = Ok /\ Hashable(y)
             /\ result' = Ok /\ b' = AllRead(y) /\ emitted' = Emitted(y)

\* A spilling Builder gets a new file, or becomes an ordinary one if that fails.
Reset ==
    /\ call' = <<"Reset">>
    /\ \E spill \in IF b.spill.on THEN {NewFile, NoFile} ELSE {NoFile} : b' = NewBuilder(spill)
    /\ result' = Ok /\ emitted' = <<>>

Next == \/ \E k \in Keys, v \in Values : Add([key |-> k, val |-> v])
        \/ \E src \in Sources : BuildFrom(src)
        \/ CompileV1 \/ CompileV2 \/ Reset

Spec == Init /\ [][Next]_vars

----------------------------------------------------------------------------
\* Properties.

TypeOK ==
    /\ \A f \in {b.klens, b.vlens, b.lines} : f \in Seq(Nat) /\ Len(f) = Rows(b)
    /\ Len(b.hashes) <= Rows(b) /\ b.checked \in 0 .. Rows(b) /\ Rows(b) <= MaxRows
    /\ \A c \in Range(b.chunks) : Len(c) <= ArenaChunk
    /\ b.dataBytes = SumOf([i \in 1 .. Rows(b) |-> 2 + b.klens[i] + b.vlens[i]])

\* A cached hash is the hash of the key its row has now, also after a failed input was
\* rolled back and other rows took the place of its rows (rollback, ensureHashes).
HashesFresh == \A i \in DOMAIN b.hashes \cap DOMAIN b.offs : b.hashes[i] = Hash[RowKey(b, i)]

\* The mapping of the spill file never reaches past its end, where reading faults, and
\* ends between two rows: while a row's key is in use, neither its value nor an earlier
\* row makes view map the file anew (view, remap, truncate).
MappingSound ==
    LET s == b.spill
    IN s.on => /\ s.mapped <= Len(s.file)
               /\ s.mapped \in {0, Len(Written(s))} \cup {b.offs[i][2] : i \in 1 .. Rows(b)}

\* Row index, bytes, cached hashes and mapping of the spill file agree after every call,
\* the failed ones included (BuildFrom, rollback, firstDuplicate).
StoreSound == TypeOK /\ HashesFresh /\ MappingSound

\* The Builder keeps its promises: it is a list of rows, and a call that fails leaves it
\* as it was and reports the error the precedence rule names.
List == INSTANCE RowList WITH rows <- Emitted(b)
ImplementsRowList == List!Spec
=============================================================================
