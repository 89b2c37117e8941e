----------------------------- MODULE InputRows -----------------------------
(****************************************************************************)
(* The parsers of Builder.BuildFrom (parse, parseCSV, parseNDJSON and their *)
(* rowSink): from the records of a CSV or NDJSON source to rows, or to the  *)
(* error reported.                                                          *)
(*                                                                          *)
(* A column or field name is a number in the order of the names.  A cell is *)
(* a sequence of characters, 0 for NUL, or NotScalar for a JSON value that  *)
(* is no string and no number.  The tokens of CSV and JSON are the standard *)
(* library's: a line it rejects is BadLine.                                 *)
(****************************************************************************)
EXTENDS Integers, Sequences, SequencesExt, FiniteSets

CONSTANTS
    ValueColumn, KeyField, ValueField,   \* the names attos_value, key and value
    NotScalar,
    Headers,        \* first records of a CSV tried: sequences of names
    Records,        \* further records: sequences of cells
    Objects,        \* JSON objects: functions from names to cells
    MaxKeyLen, MaxValueLen,
    MaxLines        \* bound: lines of a source after its header

ASSUME NamesAssumption == {ValueColumn, KeyField, ValueField} \subseteq Nat /\ KeyField # ValueField
                          /\ ValueColumn \notin {KeyField, ValueField}
ASSUME LimitsOfRows == MaxKeyLen \in Nat /\ MaxValueLen \in Nat /\ MaxLines \in Nat
ASSUME RecordsAssumption == Headers \subseteq Seq(Nat) /\ Records \subseteq Seq(Seq(Nat))
ASSUME ObjectsAssumption ==
    /\ NotScalar \notin Seq(Nat)
    /\ \A o \in Objects : /\ DOMAIN o \subseteq Nat /\ IsFiniteSet(DOMAIN o)
                         /\ \A f \in DOMAIN o : o[f] \in Seq(Nat) \cup {NotScalar}

VARIABLES
    format,         \* "csv" or "ndjson"
    line,           \* lines read
    header,         \* the CSV header
    dims,           \* CSV: the positions, NDJSON: the names of the dimensions, in key order
    legacy,         \* the source has the fields key and value
    stored,         \* rows stored in the Builder
    limitErr,       \* line of the limit violation, 0 for none
    recs,           \* records so far: their line, and the name and cell at each place
    result          \* how parse ended, and the line it reports

sourceVars == <<format, line, header, dims, legacy, stored, limitErr, recs, result>>

Reading == result.kind = "reading"
MoreLines == line < MaxLines + (IF format = "csv" THEN 1 ELSE 0)
Failed(kind) == result' = [kind |-> kind, line |-> line + 1]

SourceInit ==
    /\ format \in {"csv", "ndjson"}
    /\ line = 0 /\ header = <<>> /\ dims = <<>> /\ legacy = FALSE
    /\ stored = <<>> /\ limitErr = 0 /\ recs = <<>>
    /\ result = [kind |-> "reading", line |-> 0]

----------------------------------------------------------------------------
\* Keys.

\* One place before another: by name, equal names as they come.
Precedes(names, x, y) == names[x] < names[y] \/ (names[x] = names[y] /\ x < y)
\* The places of a set in that order (sort.SliceStable, sort.Strings).
InOrder(names, places) ==
    CHOOSE s \in SetToSeqs(places) : \A i, j \in DOMAIN s : i < j => Precedes(names, s[i], s[j])

DimPlaces(names) == {j \in DOMAIN names : names[j] # ValueColumn}
\* mutant: dimensions keep the order of the header.
SourceOrder(names) == InOrder([j \in DOMAIN names |-> 0], DimPlaces(names))
SortedDims(names) == InOrder(names, DimPlaces(names))

\* mutant: a NUL byte in a value is let through.
NeverNul(cell) == FALSE
HasNul(cell) == \E i \in DOMAIN cell : cell[i] = 0

KeyOf(cells) ==
    LET key[i \in 0 .. Len(cells)] ==
            IF i = 0 THEN <<>>
            ELSE (IF i = 1 THEN <<>> ELSE Append(key[i - 1], 0)) \o cells[i]
    IN key[Len(cells)]

----------------------------------------------------------------------------
\* rowSink.add

TooLong(key, val) == Len(key) > MaxKeyLen \/ Len(val) > MaxValueLen
\* mutant: rows are stored after a violation too.
NeverStops == FALSE
Stopped == limitErr # 0

SinkAdd(key, val) ==
    IF Stopped THEN UNCHANGED <<stored, limitErr>>
    ELSE IF TooLong(key, val) THEN limitErr' = line + 1 /\ UNCHANGED stored
    ELSE stored' = Append(stored, [key |-> key, val |-> val, line |-> line + 1]) /\ UNCHANGED limitErr

Note(rec) == recs' = Append(recs, [line |-> line + 1, rec |-> rec])

----------------------------------------------------------------------------
\* parseCSV

ValuePositions(h) == {i \in DOMAIN h : h[i] = ValueColumn}

ReadHeader(h) ==
    /\ Reading /\ format = "csv" /\ line = 0
    /\ line' = 1 /\ header' = h
    /\ IF Cardinality(ValuePositions(h)) > 1 THEN Failed("malformed") /\ UNCHANGED dims
       ELSE IF ValuePositions(h) = {} THEN Failed("novalue") /\ UNCHANGED dims
       ELSE IF Len(h) = 1 THEN Failed("nodims") /\ UNCHANGED dims
       ELSE dims' = SortedDims(h) /\ UNCHANGED result
    /\ UNCHANGED <<format, legacy, stored, limitErr, recs>>

\* A record has as many cells as the header, or it is a BadLine.
ReadRecord(cells) ==
    /\ Reading /\ format = "csv" /\ line >= 1 /\ MoreLines
    /\ Len(cells) = Len(header)
    /\ line' = line + 1
    /\ IF \E i \in DOMAIN dims : HasNul(cells[dims[i]])
       THEN Failed("malformed") /\ UNCHANGED <<stored, limitErr, recs>>
       ELSE /\ SinkAdd(KeyOf([i \in DOMAIN dims |-> cells[dims[i]]]),
                       cells[CHOOSE i \in ValuePositions(header) : TRUE])
            /\ Note([i \in DOMAIN cells |-> [name |-> header[i], cell |-> cells[i]]])
            /\ UNCHANGED result
    /\ UNCHANGED <<format, header, dims, legacy>>

----------------------------------------------------------------------------
\* parseNDJSON

BlankLine ==
    /\ Reading /\ format = "ndjson" /\ MoreLines
    /\ line' = line + 1
    /\ UNCHANGED <<format, header, dims, legacy, stored, limitErr, recs, result>>

\* The names of the dimensions of the first object, and whether it is of the legacy form.
IsLegacy(o) == ValueColumn \notin DOMAIN o /\ DOMAIN o = {KeyField, ValueField}
NamesOf(o) == IF IsLegacy(o) THEN {KeyField} ELSE DOMAIN o \ {ValueColumn}

\* mutant: a line may have other fields beside the first one's.
NoneMissing(o, ds, old) == ToSet(ds) \cup {IF old THEN ValueField ELSE ValueColumn} \subseteq DOMAIN o
SameFields(o, ds, old) ==
    NoneMissing(o, ds, old) /\ Cardinality(DOMAIN o) = Len(ds) + 1

ReadObject(o) ==
    /\ Reading /\ format = "ndjson" /\ MoreLines
    /\ line' = line + 1
    /\ LET first == dims = <<>>
           ds == IF first THEN InOrder([f \in NamesOf(o) |-> f], NamesOf(o)) ELSE dims
           old == IF first THEN IsLegacy(o) ELSE legacy
           valField == IF old THEN ValueField ELSE ValueColumn
       IN IF first /\ ValueColumn \notin DOMAIN o /\ ~old
          THEN Failed("novalue") /\ UNCHANGED <<dims, legacy, stored, limitErr, recs>>
          ELSE IF ds = <<>>
          THEN Failed("nodims") /\ UNCHANGED <<dims, legacy, stored, limitErr, recs>>
          ELSE /\ dims' = ds /\ legacy' = old
               /\ IF \/ ~SameFields(o, ds, old)
                     \/ \E i \in DOMAIN ds : o[ds[i]] = NotScalar \/ HasNul(o[ds[i]])
                     \/ o[valField] = NotScalar
                  THEN Failed("malformed") /\ UNCHANGED <<stored, limitErr, recs>>
                  ELSE /\ SinkAdd(KeyOf([i \in DOMAIN ds |-> o[ds[i]]]), o[valField])
                       /\ Note([f \in DOMAIN o |-> [name |-> IF f = valField THEN ValueColumn ELSE f,
                                                 cell |-> o[f]]])
                       /\ UNCHANGED result
    /\ UNCHANGED <<format, header>>

----------------------------------------------------------------------------
BadLine ==
    /\ Reading /\ MoreLines
    /\ line' = line + 1
    /\ Failed("malformed")
    /\ UNCHANGED <<format, header, dims, legacy, stored, limitErr, recs>>

\* The context is done (looked at before a line is read), or the source cannot be read.
SourceCancelled ==
    /\ Reading
    /\ result' = [kind |-> "cancelled", line |-> 0]
    /\ UNCHANGED <<format, line, header, dims, legacy, stored, limitErr, recs>>

\* firstDuplicate: the line of the first row whose key an earlier row has.
Duplicates == {j \in DOMAIN stored : \E i \in 1 .. j - 1 : stored[i].key = stored[j].key}
FirstDuplicate == stored[CHOOSE j \in Duplicates : \A k \in Duplicates : j <= k].line

\* limitOrDuplicate, when there was a violation.
EndOfSource ==
    /\ Reading
    /\ result' = IF limitErr = 0 THEN [kind |-> "ok", line |-> 0]
                 ELSE IF Duplicates # {} /\ FirstDuplicate < limitErr
                 THEN [kind |-> "duplicate", line |-> FirstDuplicate]
                 ELSE [kind |-> "limit", line |-> limitErr]
    /\ UNCHANGED <<format, line, header, dims, legacy, stored, limitErr, recs>>

SourceNext ==
    \/ \E h \in Headers : ReadHeader(h)
    \/ \E cells \in Records : ReadRecord(cells)
    \/ \E o \in Objects : ReadObject(o)
    \/ BlankLine \/ BadLine \/ SourceCancelled \/ EndOfSource

SourceSpec == SourceInit /\ [][SourceNext]_sourceVars

----------------------------------------------------------------------------
\* Properties.

\* Every stored row keeps the limits a file can represent.
SourceTypeOK ==
    /\ format \in {"csv", "ndjson"} /\ line \in 0 .. MaxLines + 1 /\ legacy \in BOOLEAN
    /\ \A i \in DOMAIN stored : /\ Len(stored[i].key) <= MaxKeyLen
                              /\ Len(stored[i].val) <= MaxValueLen
                              /\ stored[i].line \in 1 .. line
    /\ limitErr \in 0 .. line
    /\ result.kind \in {"reading", "ok", "malformed", "novalue", "nodims", "limit", "duplicate", "cancelled"}

\* The row a record means, whatever its format and the order of its fields: the values of
\* the dimensions, each behind those whose names precede its own, and attos_value.
Meaning(rec) ==
    LET names == [i \in DOMAIN rec |-> rec[i].name]
        ahead(i) == {j \in DimPlaces(names) : Precedes(names, j, i)}
    IN [dims |-> [m \in 1 .. Cardinality(DimPlaces(names)) |->
                      rec[CHOOSE i \in DimPlaces(names) : Cardinality(ahead(i)) = m - 1].cell],
        val |-> rec[CHOOSE i \in DOMAIN rec : rec[i].name = ValueColumn].cell]
Keeps(rec) == ~TooLong(KeyOf(Meaning(rec).dims), Meaning(rec).val)

\* The records read before any violation are the rows stored, in both formats the same row
\* for the same record, and two rows have one key only if all their dimensions are equal: the
\* separator cannot be part of a value.
RowsFaithful ==
    /\ \A i \in DOMAIN stored : /\ stored[i].line = recs[i].line
                              /\ stored[i].key = KeyOf(Meaning(recs[i].rec).dims)
                              /\ stored[i].val = Meaning(recs[i].rec).val
    /\ limitErr = 0 => Len(stored) = Len(recs)
KeysInjective ==
    \A i, j \in DOMAIN stored :
        stored[i].key = stored[j].key => Meaning(recs[i].rec).dims = Meaning(recs[j].rec).dims

\* What the Builder holds is what the source says, within the limits of a file.
RowsSound == SourceTypeOK /\ RowsFaithful /\ KeysInjective

\* The violation reported is the earliest in the source, a record too long or a key that an
\* earlier record has; only a malformed line further on takes precedence (rowSink,
\* limitOrDuplicate).
EarliestReported ==
    LET before == {i \in DOMAIN recs : recs[i].line < result.line}
        sameKey(i, j) == Meaning(recs[i].rec).dims = Meaning(recs[j].rec).dims
    IN /\ result.kind \in {"limit", "duplicate"} =>
              /\ \A i \in before : Keeps(recs[i].rec)
              /\ \A i, j \in before : sameKey(i, j) => i = j
              /\ \E i \in DOMAIN recs :
                    /\ recs[i].line = result.line
                    /\ IF result.kind = "limit" THEN ~Keeps(recs[i].rec)
                       ELSE \E j \in before : sameKey(i, j)
       /\ result.kind = "ok" => \A i \in DOMAIN recs : Keeps(recs[i].rec)
=============================================================================
