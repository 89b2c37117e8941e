------------------------- MODULE BuilderRowsProofs -------------------------
(****************************************************************************)
(* The row store of BuilderRows is sound after every call and implements    *)
(* the list of rows of RowList.                                             *)
(*                                                                          *)
(* The argument: what a Builder x holds is Entries(x), the rows cut from    *)
(* the bytes its offsets name.  Sound(x) says that the offsets lie in the   *)
(* bytes and that hashes, counters and mapping are true of them.  Reading,  *)
(* hashing and remapping keep the rows where they are (SameRows); appending *)
(* keeps them and adds behind them (Grows), so that whatever a failed input *)
(* added can be cut off again (RollbackSound).  What parse leaves is an     *)
(* invariant over the rows of the source (ParseSound), and the first        *)
(* duplicate among them decides the error the same way the list of rows     *)
(* does (Precedence).                                                       *)
(****************************************************************************)
EXTENDS BuilderRows, SequenceTheorems, TotalsProofs

----------------------------------------------------------------------------
\* Sequences of bytes.

Begins(p, s) == Len(p) <= Len(s) /\ \A j \in 1 .. Len(p) : s[j] = p[j]

\* A slice that lies in a sequence has the elements it names.
LEMMA Slice ==
    ASSUME NEW S, NEW s \in Seq(S), NEW a \in Nat, NEW n \in Nat, a + n <= Len(s)
    PROVE  /\ SubSeq(s, a + 1, a + n) \in Seq(S)
           /\ Len(SubSeq(s, a + 1, a + n)) = n
           /\ \A j \in 1 .. n : SubSeq(s, a + 1, a + n)[j] = s[a + j]
  <1>1. \A i \in a + 1 .. a + n : s[i] \in S
    OBVIOUS
  <1> QED
    BY <1>1, SubSeqProperties

LEMMA PrefixSlice ==
    ASSUME NEW S, NEW s \in Seq(S), NEW p \in Seq(S), Begins(p, s),
           NEW a \in Nat, NEW n \in Nat, a + n <= Len(p)
    PROVE  SubSeq(s, a + 1, a + n) = SubSeq(p, a + 1, a + n)
  <1>1. a + n <= Len(s) /\ \A j \in 1 .. n : s[a + j] = p[a + j]
    BY DEF Begins
  <1> DEFINE x == SubSeq(s, a + 1, a + n)
             y == SubSeq(p, a + 1, a + n)
  <1>2. x \in Seq(S) /\ Len(x) = n /\ \A j \in 1 .. n : x[j] = s[a + j]
    BY <1>1, Slice
  <1>3. y \in Seq(S) /\ Len(y) = n /\ \A j \in 1 .. n : y[j] = p[a + j]
    BY <1>1, Slice
  <1> HIDE DEF x, y
  <1>4. x = y
    BY <1>1, <1>2, <1>3, SeqEqual
  <1> QED
    BY <1>4 DEF x, y

LEMMA PrefixCut ==
    ASSUME NEW S, NEW s \in Seq(S), NEW p \in Seq(S), Begins(p, s)
    PROVE  SubSeq(s, 1, Len(p)) = p
  <1>0. 0 \in Nat /\ Len(p) \in Nat /\ 0 + Len(p) <= Len(p) /\ 0 + 1 = 1 /\ 0 + Len(p) = Len(p)
    OBVIOUS
  <1>1. SubSeq(s, 0 + 1, 0 + Len(p)) = SubSeq(p, 0 + 1, 0 + Len(p))
    BY <1>0, PrefixSlice
  <1>2. SubSeq(p, 1, Len(p)) = p
    BY SubSeqFull
  <1> QED
    BY <1>0, <1>1, <1>2

LEMMA PrefixConcat ==
    ASSUME NEW S, NEW p \in Seq(S), NEW q \in Seq(S)
    PROVE  Begins(p, p \o q)
  BY ConcatProperties DEF Begins

LEMMA PrefixAppend ==
    ASSUME NEW S, NEW p \in Seq(S), NEW e \in S
    PROVE  Begins(p, Append(p, e))
  BY AppendProperties DEF Begins

\* The last element of a sequence after Append.
LEMMA AppendLast ==
    ASSUME NEW S, NEW s \in Seq(S), NEW e \in S, NEW n, n = Len(s) + 1
    PROVE  Append(s, e)[n] = e /\ Len(Append(s, e)) = n
  BY AppendProperties

LEMMA PrefixTransitive ==
    ASSUME NEW S, NEW p \in Seq(S), NEW q \in Seq(S), NEW r \in Seq(S),
           Begins(p, q), Begins(q, r)
    PROVE  Begins(p, r)
  BY DEF Begins

\* The two parts of what was put behind a sequence.
LEMMA Behind ==
    ASSUME NEW S, NEW p \in Seq(S), NEW k \in Seq(S), NEW v \in Seq(S)
    PROVE  LET s == p \o (k \o v)
           IN  /\ Len(s) = Len(p) + Len(k) + Len(v)
               /\ SubSeq(s, Len(p) + 1, Len(p) + Len(k)) = k
               /\ SubSeq(s, Len(p) + Len(k) + 1, Len(p) + Len(k) + Len(v)) = v
  <1> DEFINE s == p \o (k \o v)
             x == SubSeq(s, Len(p) + 1, Len(p) + Len(k))
             a == Len(p) + Len(k)
             y == SubSeq(s, a + 1, a + Len(v))
  <1>1. /\ k \o v \in Seq(S) /\ Len(k \o v) = Len(k) + Len(v)
        /\ \A i \in 1 .. Len(k) : (k \o v)[i] = k[i]
        /\ \A i \in 1 .. Len(v) : (k \o v)[Len(k) + i] = v[i]
    BY ConcatProperties
  <1>2. /\ s \in Seq(S) /\ Len(s) = Len(p) + Len(k \o v)
        /\ \A i \in 1 .. Len(k \o v) : s[Len(p) + i] = (k \o v)[i]
    BY <1>1, ConcatProperties
  <1>3. Len(p) \in Nat /\ Len(k) \in Nat /\ Len(v) \in Nat /\ a \in Nat
    OBVIOUS
  <1> HIDE DEF s
  <1>4. x \in Seq(S) /\ Len(x) = Len(k) /\ \A j \in 1 .. Len(k) : x[j] = s[Len(p) + j]
    BY <1>1, <1>2, <1>3, Slice
  <1>5. y \in Seq(S) /\ Len(y) = Len(v) /\ \A j \in 1 .. Len(v) : y[j] = s[a + j]
    <2>1. a + Len(v) <= Len(s)
      BY <1>1, <1>2, <1>3
    <2> HIDE DEF a
    <2> QED
      BY <1>2, <1>3, <2>1, Slice
  <1>6. \A j \in 1 .. Len(k) : x[j] = k[j]
    <2> SUFFICES ASSUME NEW j \in 1 .. Len(k) PROVE x[j] = k[j]
      OBVIOUS
    <2>1. x[j] = s[Len(p) + j]
      <3> HIDE DEF x
      <3> QED
        BY <1>4
    <2>2. s[Len(p) + j] = (k \o v)[j]
      BY <1>1, <1>2, <1>3
    <2> QED
      BY <1>1, <2>1, <2>2
  <1>7. \A j \in 1 .. Len(v) : y[j] = v[j]
    <2> SUFFICES ASSUME NEW j \in 1 .. Len(v) PROVE y[j] = v[j]
      OBVIOUS
    <2>1. y[j] = s[Len(p) + (Len(k) + j)]
      <3> HIDE DEF y
      <3> QED
        BY <1>3, <1>5
    <2>2. s[Len(p) + (Len(k) + j)] = (k \o v)[Len(k) + j]
      BY <1>1, <1>2, <1>3
    <2> QED
      BY <1>1, <2>1, <2>2
  <1> HIDE DEF x, y
  <1>8. x = k
    BY <1>4, <1>6, SeqEqual
  <1>9. y = v
    BY <1>5, <1>7, SeqEqual
  <1> QED
    BY <1>1, <1>2, <1>8, <1>9 DEF s, x, y

LEMMA CutAnywhere ==
    ASSUME NEW S, NEW s \in Seq(S), NEW n \in 0 .. Len(s)
    PROVE  /\ SubSeq(s, 1, n) \in Seq(S) /\ Len(SubSeq(s, 1, n)) = n
           /\ SubSeq(s, n + 1, Len(s)) \in Seq(S)
           /\ SubSeq(s, 1, n) \o SubSeq(s, n + 1, Len(s)) = s
  <1>0. n \in Nat /\ Len(s) \in Nat /\ n <= Len(s)
    OBVIOUS
  <1>1. SubSeq(s, 1, n) \in Seq(S) /\ Len(SubSeq(s, 1, n)) = n
    <2>1. 0 + n <= Len(s) /\ 0 \in Nat /\ 0 + 1 = 1 /\ 0 + n = n
      BY <1>0
    <2>2. SubSeq(s, 0 + 1, 0 + n) \in Seq(S) /\ Len(SubSeq(s, 0 + 1, 0 + n)) = n
      BY <1>0, <2>1, Slice
    <2> QED
      BY <2>1, <2>2
  <1>2. SubSeq(s, n + 1, Len(s)) \in Seq(S)
    <2>1. \A i \in n + 1 .. Len(s) : s[i] \in S
      BY <1>0
    <2> QED
      BY <1>0, <2>1, SubSeqProperties
  <1>3. SubSeq(s, 1, n) \o SubSeq(s, n + 1, Len(s)) = SubSeq(s, 1, Len(s))
    <2>1. 1 \in 1 .. Len(s) + 1 /\ n \in 1 - 1 .. Len(s) /\ Len(s) \in n .. Len(s)
      BY <1>0
    <2> QED
      BY <2>1, ConcatAdjacentSubSeq
  <1> QED
    BY <1>1, <1>2, <1>3, SubSeqFull

LEMMA FunctionSeq ==
    ASSUME NEW S, NEW n \in Nat, NEW f \in [1 .. n -> S]
    PROVE  f \in Seq(S) /\ Len(f) = n
  <1>1. f \in Seq(S)
    BY SeqDef
  <1> QED
    BY <1>1, LenProperties

----------------------------------------------------------------------------
\* The spill file.

Spill == [on : BOOLEAN, file : Seq(Byte), buf : Seq(Byte), mapped : Nat]

LEMMA Associative ==
    ASSUME NEW s \in Seq(Byte), NEW t \in Seq(Byte), NEW u \in Seq(Byte)
    PROVE  (s \o t) \o u = s \o (t \o u)
  BY ConcatAssociative

LEMMA WrittenBytes ==
    ASSUME NEW s \in Spill
    PROVE  Written(s) \in Seq(Byte) /\ Len(Written(s)) = Len(s.file) + Len(s.buf) /\ Begins(s.file, Written(s))
  BY ConcatProperties, PrefixConcat DEF Written, Spill

\* What is put into the file is behind what was written, in the file or in the buffer.
LEMMA PutBytes ==
    ASSUME NEW s \in Spill, NEW bytes \in Seq(Byte)
    PROVE  /\ Put(s, bytes) \in Spill
           /\ Put(s, bytes).on = s.on /\ Put(s, bytes).mapped = s.mapped
           /\ Len(s.file) <= Len(Put(s, bytes).file)
           /\ Written(Put(s, bytes)) = Written(s) \o bytes
  <1> DEFINE all == s.buf \o bytes
             out == IF Len(all) <= BufferSize THEN 0
                    ELSE IF s.buf = <<>> \/ Len(all) > 2 * BufferSize THEN Len(all) ELSE BufferSize
             x == SubSeq(all, 1, out)
             y == SubSeq(all, out + 1, Len(all))
             f == s.file
             g == s.buf
             t == Put(s, bytes)
  <1>1. f \in Seq(Byte) /\ g \in Seq(Byte)
    BY DEF Spill
  <1>2. all \in Seq(Byte) /\ Len(all) \in Nat
    BY <1>1, ConcatProperties
  <1>3. t = [s EXCEPT !.file = f \o x, !.buf = y]
    BY DEF Put
  <1> HIDE DEF all
  <1>4. out \in 0 .. Len(all)
    BY <1>2, LimitsAssumption
  <1> HIDE DEF out
  <1>5. x \in Seq(Byte) /\ Len(x) = out /\ y \in Seq(Byte) /\ x \o y = all
    BY <1>2, <1>4, CutAnywhere
  <1> HIDE DEF x, y, f, g, t
  <1>6. f \o x \in Seq(Byte) /\ Len(f \o x) = Len(f) + Len(x)
    BY <1>1, <1>5, ConcatProperties
  <1>7. t \in Spill /\ t.on = s.on /\ t.file = f \o x /\ t.buf = y /\ t.mapped = s.mapped
    <2> DEFINE fx == f \o x
    <2>1. fx \in Seq(Byte) /\ t = [s EXCEPT !.file = fx, !.buf = y]
      BY <1>3, <1>6
    <2> HIDE DEF fx
    <2>2. t \in Spill /\ t.on = s.on /\ t.file = fx /\ t.buf = y /\ t.mapped = s.mapped
      BY <1>5, <2>1 DEF Spill
    <2> QED
      BY <2>2 DEF fx
  <1>8. Written(t) = Written(s) \o bytes
    <2>1. (f \o x) \o y = f \o (x \o y)
      BY <1>1, <1>5, Associative
    <2>2. (f \o g) \o bytes = f \o (g \o bytes)
      BY <1>1, Associative
    <2>3. x \o y = g \o bytes
      BY <1>5 DEF all, g
    <2>4. Written(t) = (f \o x) \o y /\ Written(s) = f \o g
      BY <1>7 DEF Written, f, g
    <2> QED
      BY <2>1, <2>2, <2>3, <2>4
  <1>9. Len(s.file) <= Len(t.file)
    BY <1>1, <1>4, <1>5, <1>6, <1>7 DEF f
  <1> QED
    BY <1>7, <1>8, <1>9 DEF t

LEMMA WriteBytes ==
    ASSUME NEW s \in Spill, NEW row \in Row
    PROVE  /\ Write(s, row) \in Spill
           /\ Write(s, row).on = s.on /\ Write(s, row).mapped = s.mapped
           /\ Len(s.file) <= Len(Write(s, row).file)
           /\ Written(Write(s, row)) = Written(s) \o (row.key \o row.val)
  <1> DEFINE p == Put(s, row.key)
             q == Put(p, row.val)
             k == row.key
             v == row.val
             w == Written(s)
  <1>1. k \in Seq(Byte) /\ v \in Seq(Byte) /\ w \in Seq(Byte)
    BY BytesAssumption, WrittenBytes DEF Row
  <1>2. /\ p \in Spill /\ p.on = s.on /\ p.mapped = s.mapped /\ Len(s.file) <= Len(p.file)
        /\ Written(p) = w \o k
    BY <1>1, PutBytes
  <1> HIDE DEF p
  <1>3. /\ q \in Spill /\ q.on = p.on /\ q.mapped = p.mapped /\ Len(p.file) <= Len(q.file)
        /\ Written(q) = Written(p) \o v
    BY <1>1, <1>2, PutBytes
  <1> HIDE DEF q, k, v, w
  <1>4. Written(q) = w \o (k \o v)
    BY <1>1, <1>2, <1>3, Associative
  <1>5. Len(s.file) \in Nat /\ Len(p.file) \in Nat /\ Len(q.file) \in Nat
    BY <1>2, <1>3 DEF Spill
  <1>6. Write(s, row) = q
    BY DEF Write, p, q
  <1>7. Len(s.file) <= Len(q.file) /\ q.on = s.on /\ q.mapped = s.mapped
    BY <1>2, <1>3, <1>5
  <1> QED
    BY <1>3, <1>4, <1>6, <1>7 DEF k, v, w

LEMMA RemapBytes ==
    ASSUME NEW s \in Spill
    PROVE  LET t == Remap(s)
           IN  /\ t \in Spill /\ t.on = s.on /\ t.mapped = Len(t.file)
               /\ Written(t) = Written(s) /\ t.file = Written(s)
  <1> DEFINE t == Remap(s)
             w == Written(s)
             none == <<>>
             n == Len(w)
  <1>0. none \in Seq(Byte)
    BY EmptySeq
  <1>1. w \in Seq(Byte) /\ n \in Nat
    <2>1. w \in Seq(Byte)
      BY WrittenBytes
    <2> HIDE DEF w
    <2> QED
      BY <2>1
  <1>2. t = [s EXCEPT !.file = w, !.buf = none, !.mapped = n]
    BY DEF Remap
  <1>3. w \o none = w
    <2> HIDE DEF w
    <2> QED
      BY <1>1, ConcatEmptySeq
  <1>4. n = Len(w)
    OBVIOUS
  <1> HIDE DEF t, w, none, n
  <1>5. t \in Spill /\ t.on = s.on /\ t.file = w /\ t.buf = none /\ t.mapped = n
    BY <1>0, <1>1, <1>2 DEF Spill
  <1>6. Written(t) = w
    BY <1>3, <1>5 DEF Written
  <1> QED
    BY <1>4, <1>5, <1>6 DEF t, w

\* What is kept of the file is what was written before.
LEMMA TruncateBytes ==
    ASSUME NEW s \in Spill, NEW p \in Seq(Byte), Begins(p, Written(s))
    PROVE  LET t == Truncate(s, Len(p))
           IN  t \in Spill /\ t.on = s.on /\ t.mapped = 0 /\ Written(t) = p
  <1> DEFINE t == Truncate(s, Len(p))
             none == <<>>
             cut == SubSeq(Written(s), 1, Len(p))
  <1>1. cut = p
    BY WrittenBytes, PrefixCut
  <1>2. t = [s EXCEPT !.file = cut, !.buf = none, !.mapped = 0]
    BY DEF Truncate, Unmapped
  <1>3. none \in Seq(Byte) /\ p \o none = p
    BY EmptySeq, ConcatEmptySeq
  <1> HIDE DEF t, none, cut
  <1>4. t \in Spill /\ t.on = s.on /\ t.file = cut /\ t.buf = none /\ t.mapped = 0
    BY <1>1, <1>2, <1>3 DEF Spill
  <1>5. Written(t) = p
    BY <1>1, <1>3, <1>4 DEF Written
  <1> QED
    BY <1>4, <1>5 DEF t

\* A view of bytes that were written shows them, if the mapping does not reach past the file.
LEMMA ViewBytes ==
    ASSUME NEW s \in Spill, s.mapped <= Len(s.file),
           NEW off \in Nat, NEW n \in Nat, off + n <= Len(Written(s))
    PROVE  View(s, off, n) = SubSeq(Written(s), off + 1, off + n)
  <1>1. CASE off + n > s.mapped
    BY <1>1 DEF View
  <1>2. CASE off + n <= s.mapped
    <2>1. off + n <= Len(s.file) /\ s.file \in Seq(Byte) /\ ~(off + n > s.mapped)
      BY <1>2 DEF Spill
    <2>2. SubSeq(Written(s), off + 1, off + n) = SubSeq(s.file, off + 1, off + n)
      BY <2>1, WrittenBytes, PrefixSlice
    <2> QED
      BY <2>1, <2>2 DEF View
  <1> QED
    BY <1>1, <1>2 DEF Spill

----------------------------------------------------------------------------
\* The builder.

HashWords == {Hash[k] : k \in Keys}

Builder ==
    [chunks : Seq(Seq(Byte)), offs : Seq(Nat \X Nat), klens : Seq(Nat), vlens : Seq(Nat),
     lines : Seq(Nat), hashes : Seq(HashWords), spill : Spill, dataBytes : Nat, checked : Nat]

\* The bytes rows are cut from: what was written to the spill file, or chunk c of the arena.
Bytes(x, c) == IF x.spill.on THEN Written(x.spill) ELSE x.chunks[c]
KeyOf(x, i) == SubSeq(Bytes(x, x.offs[i][1]), x.offs[i][2] + 1, x.offs[i][2] + x.klens[i])
ValueOf(x, i) == SubSeq(Bytes(x, x.offs[i][1]), x.offs[i][2] + x.klens[i] + 1,
                        x.offs[i][2] + x.klens[i] + x.vlens[i])
Entry(x, i) == [key |-> KeyOf(x, i), val |-> ValueOf(x, i), line |-> x.lines[i]]
Entries(x) == [i \in 1 .. Rows(x) |-> Entry(x, i)]

\* The bytes of row i are there.
Inside(x, i) ==
    /\ ~x.spill.on => x.offs[i][1] \in 1 .. Len(x.chunks)
    /\ x.offs[i][2] + x.klens[i] + x.vlens[i] <= Len(Bytes(x, x.offs[i][1]))

DataBytes(x) == SumOf([i \in 1 .. Rows(x) |-> 2 + x.klens[i] + x.vlens[i]])

\* The index over the rows fits the bytes.
Stored(x) ==
    /\ x \in Builder
    /\ Len(x.klens) = Rows(x) /\ Len(x.vlens) = Rows(x) /\ Len(x.lines) = Rows(x)
    /\ \A c \in 1 .. Len(x.chunks) : Len(x.chunks[c]) <= ArenaChunk
    /\ \A i \in 1 .. Rows(x) : Inside(x, i) /\ KeyOf(x, i) \in Keys /\ ValueOf(x, i) \in Values
    /\ x.dataBytes = DataBytes(x)

\* The mapping of the spill file ends in the file, between two rows.
Mapped(x) ==
    x.spill.on => /\ x.spill.mapped <= Len(x.spill.file)
                  /\ \/ x.spill.mapped \in {0, Len(Written(x.spill))}
                     \/ \E i \in 1 .. Rows(x) : x.spill.mapped = x.offs[i][2]

\* What is cached about the rows is true of them.
Cached(x) ==
    /\ Len(x.hashes) <= Rows(x) /\ x.checked <= Rows(x)
    /\ \A i \in 1 .. Len(x.hashes) : x.hashes[i] = Hash[KeyOf(x, i)]
    /\ Mapped(x)

Sound(x) == Stored(x) /\ Cached(x)

\* y holds the rows of x in the same places.
SameRows(y, x) ==
    /\ y.offs = x.offs /\ y.klens = x.klens /\ y.vlens = x.vlens /\ y.lines = x.lines
    /\ y.chunks = x.chunks /\ y.dataBytes = x.dataBytes
    /\ y.spill.on = x.spill.on
    /\ IF x.spill.on THEN Written(y.spill) = Written(x.spill) ELSE y.spill = x.spill

LEMMA RowFields ==
    ASSUME NEW x, Stored(x), NEW i \in 1 .. Rows(x)
    PROVE  /\ Rows(x) \in Nat
           /\ x.offs[i][1] \in Nat /\ x.offs[i][2] \in Nat
           /\ x.klens[i] \in Nat /\ x.vlens[i] \in Nat /\ x.lines[i] \in Nat
           /\ Bytes(x, x.offs[i][1]) \in Seq(Byte)
           /\ x.offs[i][2] + x.klens[i] + x.vlens[i] <= Len(Bytes(x, x.offs[i][1]))
  <1>1. /\ x.offs \in Seq(Nat \X Nat) /\ x.klens \in Seq(Nat) /\ x.vlens \in Seq(Nat)
        /\ x.lines \in Seq(Nat) /\ x.chunks \in Seq(Seq(Byte)) /\ x.spill \in Spill
    BY DEF Stored, Builder
  <1>2. /\ i \in 1 .. Len(x.offs) /\ i \in 1 .. Len(x.klens)
        /\ i \in 1 .. Len(x.vlens) /\ i \in 1 .. Len(x.lines)
    BY DEF Stored, Rows
  <1>3. x.offs[i] \in Nat \X Nat /\ x.klens[i] \in Nat /\ x.vlens[i] \in Nat /\ x.lines[i] \in Nat
    BY <1>1, <1>2, ElementOfSeq
  <1>4. Inside(x, i)
    BY DEF Stored
  <1>5. Bytes(x, x.offs[i][1]) \in Seq(Byte)
    <2>1. CASE x.spill.on
      BY <1>1, <2>1, WrittenBytes DEF Bytes
    <2>2. CASE ~x.spill.on
      <3>1. x.offs[i][1] \in 1 .. Len(x.chunks)
        BY <1>4, <2>2 DEF Inside
      <3> QED
        BY <1>1, <2>2, <3>1, ElementOfSeq DEF Bytes
    <2> QED
      BY <2>1, <2>2
  <1>6. Rows(x) \in Nat
    BY <1>1 DEF Rows
  <1> QED
    BY <1>3, <1>4, <1>5, <1>6 DEF Inside

\* What is read of a row are its bytes.
LEMMA ReadRow ==
    ASSUME NEW x, Stored(x), Mapped(x), NEW i \in 1 .. Rows(x)
    PROVE  RowKey(x, i) = KeyOf(x, i) /\ RowValue(x, i) = ValueOf(x, i)
  <1> DEFINE o == x.offs[i][2]
             k == x.klens[i]
             v == x.vlens[i]
             s == x.spill
  <1>1. /\ o \in Nat /\ k \in Nat /\ v \in Nat
        /\ o + k + v <= Len(Bytes(x, x.offs[i][1])) /\ Bytes(x, x.offs[i][1]) \in Seq(Byte)
    BY RowFields
  <1>2. s \in Spill
    BY DEF Stored, Builder
  <1>3. CASE s.on
    <2>1. s.mapped <= Len(s.file)
      BY <1>3 DEF Mapped
    <2>2. Bytes(x, x.offs[i][1]) = Written(s)
      BY <1>3 DEF Bytes
    <2>3. RowKey(x, i) = View(s, o + 0, k) /\ RowValue(x, i) = View(s, o + k, v)
      BY <1>3 DEF RowKey, RowValue, RowBytes
    <2>4. KeyOf(x, i) = SubSeq(Written(s), o + 1, o + k)
      BY <2>2 DEF KeyOf
    <2>5. ValueOf(x, i) = SubSeq(Written(s), o + k + 1, o + k + v)
      BY <2>2 DEF ValueOf
    <2> HIDE DEF o, k, v, s
    <2>6. o + 0 = o /\ o + k \in Nat /\ o + k <= Len(Written(s)) /\ o + k + v <= Len(Written(s))
      <3>1. Len(Written(s)) \in Nat
        BY <1>1, <2>2
      <3> QED
        BY <1>1, <2>2, <3>1
    <2>7. View(s, o, k) = SubSeq(Written(s), o + 1, o + k)
      BY <1>1, <1>2, <2>1, <2>6, ViewBytes
    <2>8. View(s, o + k, v) = SubSeq(Written(s), o + k + 1, o + k + v)
      BY <1>1, <1>2, <2>1, <2>6, ViewBytes
    <2> QED
      BY <2>3, <2>4, <2>5, <2>6, <2>7, <2>8
  <1>4. CASE ~s.on
    <2>1. /\ RowKey(x, i) = SubSeq(x.chunks[x.offs[i][1]], o + 0 + 1, o + 0 + k)
          /\ RowValue(x, i) = SubSeq(x.chunks[x.offs[i][1]], o + k + 1, o + k + v)
      BY <1>4 DEF RowKey, RowValue, RowBytes
    <2>2. /\ KeyOf(x, i) = SubSeq(x.chunks[x.offs[i][1]], o + 1, o + k)
          /\ ValueOf(x, i) = SubSeq(x.chunks[x.offs[i][1]], o + k + 1, o + k + v)
      BY <1>4 DEF KeyOf, ValueOf, Bytes
    <2> HIDE DEF o, k, v, s
    <2>3. o + 0 = o
      BY <1>1
    <2> QED
      BY <2>1, <2>2, <2>3
  <1> QED
    BY <1>3, <1>4

LEMMA EmittedEntries ==
    ASSUME NEW x, Sound(x)
    PROVE  Emitted(x) = Entries(x)
  <1>1. \A i \in 1 .. Rows(x) : RowKey(x, i) = KeyOf(x, i) /\ RowValue(x, i) = ValueOf(x, i)
    BY ReadRow DEF Sound, Cached
  <1> QED
    BY <1>1 DEF Emitted, Entries, Entry

LEMMA SameRowsKept ==
    ASSUME NEW x, Stored(x), NEW y \in Builder, SameRows(y, x)
    PROVE  /\ Stored(y) /\ Rows(y) = Rows(x) /\ Entries(y) = Entries(x)
           /\ \A i \in 1 .. Rows(x) : KeyOf(y, i) = KeyOf(x, i)
  <1>1. Rows(y) = Rows(x)
    BY DEF SameRows, Rows
  <1>2. \A c : Bytes(y, c) = Bytes(x, c)
    BY DEF SameRows, Bytes
  <1>3. \A i \in 1 .. Rows(x) : /\ KeyOf(y, i) = KeyOf(x, i) /\ ValueOf(y, i) = ValueOf(x, i)
                                /\ Entry(y, i) = Entry(x, i)
    BY <1>2 DEF SameRows, KeyOf, ValueOf, Entry
  <1>4. \A i \in 1 .. Rows(x) : Inside(y, i)
    BY <1>2 DEF SameRows, Inside, Stored
  <1>5. DataBytes(y) = DataBytes(x)
    BY <1>1 DEF SameRows, DataBytes
  <1>6. Entries(y) = Entries(x)
    BY <1>1, <1>3 DEF Entries
  <1>7. Stored(y)
    BY <1>1, <1>3, <1>4, <1>5 DEF Stored, SameRows
  <1> QED
    BY <1>1, <1>3, <1>6, <1>7

\* What is cached stays true of the same rows, with a mapping of all that was written or
\* none, and hashes of the keys.
LEMMA SameRowsSound ==
    ASSUME NEW x, Sound(x), NEW y \in Builder, SameRows(y, x), y.checked <= Rows(x),
           \/ y.spill = x.spill
           \/ y.spill.mapped = 0
           \/ y.spill.mapped = Len(y.spill.file) /\ y.spill.file = Written(y.spill),
           Len(y.hashes) <= Rows(x), \A i \in 1 .. Len(y.hashes) : y.hashes[i] = Hash[KeyOf(x, i)]
    PROVE  Sound(y) /\ Rows(y) = Rows(x) /\ Entries(y) = Entries(x)
  <1>1. /\ Stored(y) /\ Rows(y) = Rows(x) /\ Entries(y) = Entries(x)
        /\ \A i \in 1 .. Rows(x) : KeyOf(y, i) = KeyOf(x, i)
    BY SameRowsKept DEF Sound
  <1>2. Rows(x) \in Nat /\ Len(y.hashes) \in Nat
    BY DEF Rows, Sound, Stored, Builder
  <1>3. \A i \in 1 .. Len(y.hashes) : y.hashes[i] = Hash[KeyOf(y, i)]
    BY <1>1, <1>2
  <1>4. Mapped(y)
    <2> SUFFICES ASSUME y.spill.on PROVE Mapped(y)
      BY DEF Mapped
    <2>1. CASE y.spill = x.spill
      BY <1>1, <2>1 DEF Mapped, Sound, Cached, SameRows
    <2>2. CASE y.spill.mapped = 0
      <3>1. Len(y.spill.file) \in Nat
        BY DEF Builder, Spill
      <3> QED
        BY <2>2, <3>1 DEF Mapped
    <2>3. CASE y.spill.mapped = Len(y.spill.file) /\ y.spill.file = Written(y.spill)
      <3>1. Len(y.spill.file) \in Nat
        BY DEF Builder, Spill
      <3> QED
        BY <2>3, <3>1 DEF Mapped
    <2> QED
      BY <2>1, <2>2, <2>3
  <1> QED
    BY <1>1, <1>3, <1>4 DEF Sound, Cached

\* Reading rows renews the mapping or leaves it.
LEMMA ReadSound ==
    ASSUME NEW x, Sound(x), NEW s, s = x.spill \/ (x.spill.on /\ s = Remap(x.spill))
    PROVE  LET y == [x EXCEPT !.spill = s]
           IN  /\ Sound(y) /\ SameRows(y, x) /\ Rows(y) = Rows(x) /\ Entries(y) = Entries(x)
               /\ y.hashes = x.hashes /\ y.checked = x.checked
  <1> DEFINE y == [x EXCEPT !.spill = s]
  <1>1. x \in Builder /\ x.spill \in Spill
    BY DEF Sound, Stored, Builder
  <1>2. /\ s \in Spill /\ s.on = x.spill.on /\ Written(s) = Written(x.spill)
        /\ s = x.spill \/ (s.mapped = Len(s.file) /\ s.file = Written(s))
        /\ ~x.spill.on => s = x.spill
    BY <1>1, RemapBytes
  <1>3. /\ y \in Builder /\ y.spill = s /\ y.offs = x.offs /\ y.klens = x.klens
        /\ y.vlens = x.vlens /\ y.lines = x.lines /\ y.chunks = x.chunks
        /\ y.dataBytes = x.dataBytes /\ y.hashes = x.hashes /\ y.checked = x.checked
    BY <1>1, <1>2 DEF Builder
  <1> HIDE DEF y
  <1>4. SameRows(y, x)
    BY <1>2, <1>3 DEF SameRows
  <1>5. Sound(y) /\ Rows(y) = Rows(x) /\ Entries(y) = Entries(x)
    BY <1>2, <1>3, <1>4, SameRowsSound DEF Sound, Cached
  <1> QED
    BY <1>3, <1>4, <1>5 DEF y

LEMMA ReadKeysSound ==
    ASSUME NEW x, Sound(x), NEW some
    PROVE  LET y == ReadKeys(x, some)
           IN  /\ Sound(y) /\ SameRows(y, x) /\ Rows(y) = Rows(x) /\ Entries(y) = Entries(x)
               /\ y.hashes = x.hashes /\ y.checked = x.checked
  <1> DEFINE short == \E i \in some : x.offs[i][2] + x.klens[i] > x.spill.mapped
             s == IF x.spill.on /\ short THEN Remap(x.spill) ELSE x.spill
  <1>1. s = x.spill \/ (x.spill.on /\ s = Remap(x.spill))
    <2> HIDE DEF short
    <2> QED
      OBVIOUS
  <1>2. ReadKeys(x, some) = [x EXCEPT !.spill = s]
    BY DEF ReadKeys
  <1> HIDE DEF s
  <1> DEFINE y == [x EXCEPT !.spill = s]
  <1>3. /\ Sound(y) /\ SameRows(y, x) /\ Rows(y) = Rows(x) /\ Entries(y) = Entries(x)
        /\ y.hashes = x.hashes /\ y.checked = x.checked
    BY <1>1, ReadSound
  <1> HIDE DEF y
  <1>4. ReadKeys(x, some) = y
    BY <1>2 DEF y
  <1> QED
    BY <1>3, <1>4

LEMMA AllReadSound ==
    ASSUME NEW x, Sound(x)
    PROVE  LET y == AllRead(x)
           IN  /\ Sound(y) /\ SameRows(y, x) /\ Rows(y) = Rows(x) /\ Entries(y) = Entries(x)
               /\ y.hashes = x.hashes /\ y.checked = x.checked
  <1> DEFINE short == Len(Written(x.spill)) > x.spill.mapped
             s == IF x.spill.on /\ short THEN Remap(x.spill) ELSE x.spill
  <1>1. s = x.spill \/ (x.spill.on /\ s = Remap(x.spill))
    <2> HIDE DEF short
    <2> QED
      OBVIOUS
  <1>2. AllRead(x) = [x EXCEPT !.spill = s]
    BY DEF AllRead
  <1> HIDE DEF s
  <1> DEFINE y == [x EXCEPT !.spill = s]
  <1>3. /\ Sound(y) /\ SameRows(y, x) /\ Rows(y) = Rows(x) /\ Entries(y) = Entries(x)
        /\ y.hashes = x.hashes /\ y.checked = x.checked
    BY <1>1, ReadSound
  <1> HIDE DEF y
  <1>4. AllRead(x) = y
    BY <1>2 DEF y
  <1> QED
    BY <1>3, <1>4

LEMMA CheckedSound ==
    ASSUME NEW x, Sound(x), NEW n \in 0 .. Rows(x)
    PROVE  LET y == [x EXCEPT !.checked = n]
           IN  Sound(y) /\ SameRows(y, x) /\ Rows(y) = Rows(x) /\ Entries(y) = Entries(x)
  <1> DEFINE y == [x EXCEPT !.checked = n]
  <1>1. x \in Builder /\ Rows(x) \in Nat /\ n \in Nat /\ n <= Rows(x)
    BY DEF Sound, Stored, Builder, Rows
  <1>2. /\ y \in Builder /\ y.spill = x.spill /\ y.offs = x.offs /\ y.klens = x.klens
        /\ y.vlens = x.vlens /\ y.lines = x.lines /\ y.chunks = x.chunks
        /\ y.dataBytes = x.dataBytes /\ y.hashes = x.hashes /\ y.checked = n
    BY <1>1 DEF Builder
  <1> HIDE DEF y
  <1>3. SameRows(y, x)
    BY <1>2 DEF SameRows
  <1>4. Sound(y) /\ Rows(y) = Rows(x) /\ Entries(y) = Entries(x)
    BY <1>1, <1>2, <1>3, SameRowsSound DEF Sound, Cached
  <1> QED
    BY <1>3, <1>4 DEF y

\* Hashing the new rows gives every row the hash of its key.
LEMMA EnsureHashesSound ==
    ASSUME NEW x, Sound(x)
    PROVE  LET y == EnsureHashes(x)
           IN  /\ Sound(y) /\ SameRows(y, x) /\ Rows(y) = Rows(x) /\ Entries(y) = Entries(x)
               /\ y.checked = x.checked /\ Len(y.hashes) = Rows(x)
  <1> DEFINE old == Len(x.hashes)
             n == Rows(x) - old
             more == [i \in 1 .. n |-> Hash[RowKey(x, old + i)]]
             z == ReadKeys(x, old + 1 .. Rows(x))
             h == x.hashes \o more
             y == EnsureHashes(x)
  <1>1. /\ x.hashes \in Seq(HashWords) /\ old \in Nat /\ Rows(x) \in Nat /\ old <= Rows(x)
        /\ n \in Nat
    BY DEF Sound, Stored, Cached, Builder, Rows
  <1>2. \A i \in 1 .. Rows(x) : RowKey(x, i) = KeyOf(x, i) /\ KeyOf(x, i) \in Keys
    BY ReadRow DEF Sound, Cached, Stored
  <1>3. more \in Seq(HashWords) /\ Len(more) = n
    <2>1. ASSUME NEW i \in 1 .. n PROVE Hash[RowKey(x, old + i)] \in HashWords
      <3>1. old + i \in 1 .. Rows(x)
        BY <1>1
      <3> QED
        BY <1>2, <3>1 DEF HashWords
    <2>2. more \in [1 .. n -> HashWords]
      BY <2>1
    <2> HIDE DEF more, n
    <2> QED
      BY <1>1, <2>2, FunctionSeq
  <1>4. /\ Sound(z) /\ SameRows(z, x) /\ Rows(z) = Rows(x) /\ Entries(z) = Entries(x)
        /\ z.hashes = x.hashes /\ z.checked = x.checked
    BY ReadKeysSound
  <1>5. y = [z EXCEPT !.hashes = z.hashes \o more]
    BY DEF EnsureHashes
  <1>6. h \in Seq(HashWords) /\ Len(h) = Rows(x)
    <2>1. h \in Seq(HashWords) /\ Len(h) = Len(x.hashes) + Len(more)
      <3> HIDE DEF more
      <3> QED
        BY <1>1, <1>3, ConcatProperties
    <2> HIDE DEF more, h
    <2> QED
      BY <1>1, <1>3, <2>1
  <1>7. ASSUME NEW i \in 1 .. Rows(x) PROVE h[i] = Hash[KeyOf(x, i)]
    <2>1. h[i] = IF i <= old THEN x.hashes[i] ELSE more[i - old]
      <3> HIDE DEF more
      <3>1. i \in 1 .. Len(x.hashes) + Len(more)
        BY <1>1, <1>3
      <3> QED
        BY <1>1, <1>3, <3>1, ConcatProperties
    <2>2. CASE i <= old
      <3>1. i \in 1 .. Len(x.hashes)
        BY <1>1, <2>2
      <3> QED
        BY <2>1, <2>2, <3>1 DEF Sound, Cached
    <2>3. CASE ~(i <= old)
      <3>1. i - old \in 1 .. n /\ old + (i - old) = i
        BY <1>1, <2>3
      <3>2. more[i - old] = Hash[RowKey(x, i)]
        BY <3>1
      <3> HIDE DEF more, h
      <3> QED
        BY <1>2, <2>1, <2>3, <3>2
    <2> QED
      BY <2>2, <2>3
  <1> HIDE DEF more, h, z, y
  <1>8. y = [z EXCEPT !.hashes = h]
    BY <1>4, <1>5 DEF h
  <1>9. z \in Builder
    BY <1>4 DEF Sound, Stored
  <1>10. /\ y \in Builder /\ y.spill = z.spill /\ y.offs = z.offs /\ y.klens = z.klens
         /\ y.vlens = z.vlens /\ y.lines = z.lines /\ y.chunks = z.chunks
         /\ y.dataBytes = z.dataBytes /\ y.hashes = h /\ y.checked = z.checked
    BY <1>6, <1>8, <1>9 DEF Builder
  <1>11. SameRows(y, z) /\ SameRows(y, x)
    BY <1>4, <1>10 DEF SameRows
  <1>12. \A i \in 1 .. Rows(x) : KeyOf(z, i) = KeyOf(x, i)
    BY <1>4, <1>9, SameRowsKept DEF Sound
  <1>13. \A i \in 1 .. Len(y.hashes) : y.hashes[i] = Hash[KeyOf(z, i)]
    BY <1>6, <1>7, <1>10, <1>12
  <1>14. Len(y.hashes) <= Rows(z) /\ y.checked <= Rows(z)
    BY <1>1, <1>4, <1>6, <1>10 DEF Sound, Cached
  <1>15. Sound(y) /\ Rows(y) = Rows(z) /\ Entries(y) = Entries(z)
    BY <1>4, <1>10, <1>11, <1>13, <1>14, SameRowsSound
  <1>16. Len(y.hashes) = Rows(x) /\ y.checked = x.checked
    BY <1>4, <1>6, <1>10
  <1> QED
    BY <1>4, <1>11, <1>15, <1>16 DEF y

LEMMA HashedSound ==
    ASSUME NEW x, Sound(x), NEW from \in Nat
    PROVE  LET y == Hashed(x, from)
           IN  /\ Sound(y) /\ SameRows(y, x) /\ Rows(y) = Rows(x) /\ Entries(y) = Entries(x)
               /\ y.checked = x.checked
               /\ Rows(x) > from /\ Rows(x) >= 2 => Len(y.hashes) = Rows(x)
  <1> DEFINE y == EnsureHashes(x)
             some == {r \in from + 1 .. Rows(x) : \E q \in 1 .. r - 1 : y.hashes[q] = y.hashes[r]}
             z == ReadKeys(y, some)
  <1>0. Rows(x) \in Nat
    BY DEF Sound, Stored, Builder, Rows
  <1>1. CASE Rows(x) > from /\ Rows(x) >= 2
    <2>1. Hashed(x, from) = z
      <3>1. ~(Rows(x) - from <= 0 \/ Rows(x) < 2)
        BY <1>0, <1>1
      <3> QED
        BY <3>1 DEF Hashed
    <2>2. /\ Sound(y) /\ SameRows(y, x) /\ Rows(y) = Rows(x) /\ Entries(y) = Entries(x)
          /\ y.checked = x.checked /\ Len(y.hashes) = Rows(x)
      BY EnsureHashesSound
    <2> HIDE DEF y, some
    <2>3. /\ Sound(z) /\ SameRows(z, y) /\ Rows(z) = Rows(y) /\ Entries(z) = Entries(y)
          /\ z.hashes = y.hashes /\ z.checked = y.checked
      BY <2>2, ReadKeysSound
    <2> HIDE DEF z
    <2>4. SameRows(z, x)
      BY <2>2, <2>3 DEF SameRows
    <2> QED
      BY <2>1, <2>2, <2>3, <2>4
  <1>2. CASE ~(Rows(x) > from /\ Rows(x) >= 2)
    <2>1. Hashed(x, from) = x
      BY <1>0, <1>2 DEF Hashed
    <2>2. SameRows(x, x)
      BY DEF SameRows
    <2> QED
      BY <1>2, <2>1, <2>2
  <1> QED
    BY <1>1, <1>2

----------------------------------------------------------------------------
\* Rows that are added, and taken back.

\* y holds the rows of x in the same places, and perhaps more behind them.
Grows(x, y) ==
    /\ y.spill.on = x.spill.on
    /\ Begins(x.offs, y.offs) /\ Begins(x.klens, y.klens)
    /\ Begins(x.vlens, y.vlens) /\ Begins(x.lines, y.lines)
    /\ Len(x.chunks) <= Len(y.chunks)
    /\ \A c \in 1 .. Len(x.chunks) : Begins(x.chunks[c], y.chunks[c])
    /\ \A c \in 1 .. Len(x.chunks) - 1 : y.chunks[c] = x.chunks[c]
    /\ IF x.spill.on THEN Begins(Written(x.spill), Written(y.spill)) ELSE y.spill = x.spill
    /\ y.checked = x.checked

LEMMA BeginsSelf == ASSUME NEW p PROVE Len(p) \in Nat => Begins(p, p)
  BY DEF Begins

LEMMA GrowsSelf ==
    ASSUME NEW x \in Builder
    PROVE  Grows(x, x)
  <1>1. /\ Len(x.offs) \in Nat /\ Len(x.klens) \in Nat /\ Len(x.vlens) \in Nat
        /\ Len(x.lines) \in Nat /\ Len(x.chunks) \in Nat /\ x.spill \in Spill
        /\ \A c \in 1 .. Len(x.chunks) : Len(x.chunks[c]) \in Nat
    BY DEF Builder
  <1>2. Len(Written(x.spill)) \in Nat
    BY <1>1, WrittenBytes
  <1> QED
    BY <1>1, <1>2, BeginsSelf DEF Grows

LEMMA GrowsTransitive ==
    ASSUME NEW x \in Builder, NEW y \in Builder, NEW z \in Builder, Grows(x, y), Grows(y, z)
    PROVE  Grows(x, z)
  <1>1. /\ x.spill \in Spill /\ y.spill \in Spill /\ z.spill \in Spill
        /\ x.chunks \in Seq(Seq(Byte)) /\ y.chunks \in Seq(Seq(Byte)) /\ z.chunks \in Seq(Seq(Byte))
    BY DEF Builder
  <1>2. /\ Begins(x.offs, z.offs) /\ Begins(x.klens, z.klens)
        /\ Begins(x.vlens, z.vlens) /\ Begins(x.lines, z.lines)
    <2>1. /\ Begins(x.offs, y.offs) /\ Begins(x.klens, y.klens)
          /\ Begins(x.vlens, y.vlens) /\ Begins(x.lines, y.lines)
          /\ Begins(y.offs, z.offs) /\ Begins(y.klens, z.klens)
          /\ Begins(y.vlens, z.vlens) /\ Begins(y.lines, z.lines)
      BY DEF Grows
    <2>2. /\ x.offs \in Seq(Nat \X Nat) /\ y.offs \in Seq(Nat \X Nat) /\ z.offs \in Seq(Nat \X Nat)
          /\ x.klens \in Seq(Nat) /\ y.klens \in Seq(Nat) /\ z.klens \in Seq(Nat)
          /\ x.vlens \in Seq(Nat) /\ y.vlens \in Seq(Nat) /\ z.vlens \in Seq(Nat)
          /\ x.lines \in Seq(Nat) /\ y.lines \in Seq(Nat) /\ z.lines \in Seq(Nat)
      BY DEF Builder
    <2>3. Begins(x.offs, z.offs)
      BY <2>1, <2>2, PrefixTransitive
    <2>4. Begins(x.klens, z.klens) /\ Begins(x.vlens, z.vlens) /\ Begins(x.lines, z.lines)
      BY <2>1, <2>2, PrefixTransitive
    <2> QED
      BY <2>3, <2>4
  <1>3. Len(x.chunks) \in Nat /\ Len(y.chunks) \in Nat /\ Len(z.chunks) \in Nat
    BY <1>1
  <1>4. Len(x.chunks) <= Len(y.chunks) /\ Len(y.chunks) <= Len(z.chunks)
    BY DEF Grows
  <1>5. ASSUME NEW c \in 1 .. Len(x.chunks) PROVE Begins(x.chunks[c], z.chunks[c])
    <2>1. c \in 1 .. Len(y.chunks) /\ c \in 1 .. Len(z.chunks)
      BY <1>3, <1>4
    <2>2. x.chunks[c] \in Seq(Byte) /\ y.chunks[c] \in Seq(Byte) /\ z.chunks[c] \in Seq(Byte)
      BY <1>1, <2>1
    <2>3. Begins(x.chunks[c], y.chunks[c]) /\ Begins(y.chunks[c], z.chunks[c])
      BY <2>1 DEF Grows
    <2> QED
      BY <2>2, <2>3, PrefixTransitive
  <1>6. ASSUME NEW c \in 1 .. Len(x.chunks) - 1 PROVE z.chunks[c] = x.chunks[c]
    <2>1. c \in 1 .. Len(y.chunks) - 1
      BY <1>3, <1>4
    <2> QED
      BY <2>1 DEF Grows
  <1>7. IF x.spill.on THEN Begins(Written(x.spill), Written(z.spill)) ELSE z.spill = x.spill
    <2>1. CASE x.spill.on
      <3>1. Begins(Written(x.spill), Written(y.spill)) /\ Begins(Written(y.spill), Written(z.spill))
        BY <2>1 DEF Grows
      <3>2. /\ Written(x.spill) \in Seq(Byte) /\ Written(y.spill) \in Seq(Byte)
            /\ Written(z.spill) \in Seq(Byte)
        BY <1>1, WrittenBytes
      <3> QED
        BY <2>1, <3>1, <3>2, PrefixTransitive
    <2>2. CASE ~x.spill.on
      BY <2>2 DEF Grows
    <2> QED
      BY <2>1, <2>2
  <1>8. z.spill.on = x.spill.on /\ z.checked = x.checked /\ Len(x.chunks) <= Len(z.chunks)
    BY <1>3, <1>4 DEF Grows
  <1> QED
    BY <1>2, <1>5, <1>6, <1>7, <1>8 DEF Grows

LEMMA GrowsSame ==
    ASSUME NEW x, NEW y, NEW z, Grows(x, y), SameRows(z, y), z.checked = y.checked
    PROVE  Grows(x, z)
  BY DEF Grows, SameRows

\* The rows of x are in y what they were.
LEMMA GrowsRows ==
    ASSUME NEW x, Stored(x), NEW y \in Builder, Grows(x, y), NEW i \in 1 .. Rows(x)
    PROVE  /\ i \in 1 .. Rows(y)
           /\ y.offs[i] = x.offs[i] /\ y.klens[i] = x.klens[i]
           /\ y.vlens[i] = x.vlens[i] /\ y.lines[i] = x.lines[i]
           /\ Inside(y, i) /\ KeyOf(y, i) = KeyOf(x, i) /\ ValueOf(y, i) = ValueOf(x, i)
  <1>0. x.chunks \in Seq(Seq(Byte)) /\ y.chunks \in Seq(Seq(Byte))
    BY DEF Stored, Builder
  <1>1. /\ Rows(x) \in Nat /\ Rows(y) \in Nat
        /\ Len(x.klens) = Rows(x) /\ Len(x.vlens) = Rows(x) /\ Len(x.lines) = Rows(x)
    BY DEF Stored, Builder, Rows
  <1>2. /\ i \in 1 .. Rows(y)
        /\ y.offs[i] = x.offs[i] /\ y.klens[i] = x.klens[i]
        /\ y.vlens[i] = x.vlens[i] /\ y.lines[i] = x.lines[i]
    BY <1>1 DEF Grows, Begins, Rows
  <1> DEFINE c == x.offs[i][1]
             o == x.offs[i][2]
             k == x.klens[i]
             v == x.vlens[i]
             p == Bytes(x, c)
             s == Bytes(y, c)
  <1>3. o \in Nat /\ k \in Nat /\ v \in Nat /\ p \in Seq(Byte) /\ o + k + v <= Len(p)
    BY RowFields
  <1>4. s \in Seq(Byte) /\ Begins(p, s)
    <2>1. CASE x.spill.on
      <3>1. y.spill \in Spill /\ y.spill.on = x.spill.on
        BY DEF Grows, Builder
      <3> QED
        BY <2>1, <3>1, WrittenBytes DEF Bytes, Grows
    <2>2. CASE ~x.spill.on
      <3>1. c \in 1 .. Len(x.chunks) /\ ~y.spill.on
        BY <2>2 DEF Stored, Inside, Grows
      <3>2. /\ Len(x.chunks) \in Nat /\ Len(y.chunks) \in Nat /\ Len(x.chunks) <= Len(y.chunks)
            /\ y.chunks \in Seq(Seq(Byte))
        BY <1>0 DEF Grows
      <3>3. c \in 1 .. Len(y.chunks)
        <4> HIDE DEF c
        <4> QED
          BY <3>1, <3>2
      <3>4. s = y.chunks[c] /\ p = x.chunks[c]
        BY <2>2, <3>1 DEF Bytes
      <3> HIDE DEF c, s, p
      <3>5. y.chunks[c] \in Seq(Byte)
        BY <3>2, <3>3
      <3>6. Begins(x.chunks[c], y.chunks[c])
        BY <3>1 DEF Grows
      <3> QED
        BY <3>4, <3>5, <3>6
    <2> QED
      BY <2>1, <2>2
  <1>5. /\ KeyOf(x, i) = SubSeq(p, o + 1, o + k) /\ KeyOf(y, i) = SubSeq(s, o + 1, o + k)
        /\ ValueOf(x, i) = SubSeq(p, o + k + 1, o + k + v)
        /\ ValueOf(y, i) = SubSeq(s, o + k + 1, o + k + v)
    BY <1>2 DEF KeyOf, ValueOf
  <1>6. Inside(y, i)
    <2>1. Len(p) <= Len(s)
      BY <1>4 DEF Begins
    <2>2. o + k + v <= Len(s)
      <3> HIDE DEF o, k, v, p, s
      <3> QED
        BY <1>3, <1>4, <2>1
    <2>3. ~y.spill.on => c \in 1 .. Len(y.chunks)
      <3> SUFFICES ASSUME ~y.spill.on PROVE c \in 1 .. Len(y.chunks)
        OBVIOUS
      <3>1. c \in 1 .. Len(x.chunks)
        BY DEF Stored, Inside, Grows
      <3>2. Len(x.chunks) \in Nat /\ Len(y.chunks) \in Nat /\ Len(x.chunks) <= Len(y.chunks)
        BY <1>0 DEF Grows
      <3> HIDE DEF c
      <3> QED
        BY <3>1, <3>2
    <2> QED
      BY <1>2, <2>2, <2>3 DEF Inside
  <1> HIDE DEF o, k, v, p, s
  <1>7. SubSeq(s, o + 1, o + k) = SubSeq(p, o + 1, o + k)
    <2>1. o + k <= Len(p)
      BY <1>3
    <2> QED
      BY <1>3, <1>4, <2>1, PrefixSlice
  <1>8. SubSeq(s, o + k + 1, o + k + v) = SubSeq(p, o + k + 1, o + k + v)
    <2>1. o + k \in Nat
      BY <1>3
    <2> QED
      BY <1>3, <1>4, <2>1, PrefixSlice, ZenonT(60)
  <1> QED
    BY <1>2, <1>5, <1>6, <1>7, <1>8

\* The arena is cut back to its chunks and the bytes of the last one.
LEMMA ChunksCut ==
    ASSUME NEW p \in Seq(Seq(Byte)), NEW s \in Seq(Seq(Byte)), Len(p) <= Len(s),
           \A c \in 1 .. Len(p) : Begins(p[c], s[c]), \A c \in 1 .. Len(p) - 1 : s[c] = p[c]
    PROVE  LET cut == SubSeq(s, 1, Len(p))
               lastLen == IF p = <<>> THEN 0 ELSE Len(Last(p))
           IN  (IF cut = <<>> THEN cut ELSE [cut EXCEPT ![Len(cut)] = SubSeq(@, 1, lastLen)]) = p
  <1> DEFINE n == Len(p)
             cut == SubSeq(s, 1, n)
             lastLen == IF p = <<>> THEN 0 ELSE Len(Last(p))
  <1>1. n \in Nat /\ n \in 0 .. Len(s)
    OBVIOUS
  <1>2. cut \in Seq(Seq(Byte)) /\ Len(cut) = n
    BY <1>1, CutAnywhere
  <1>3. \A c \in 1 .. n : cut[c] = s[c]
    <2>1. 0 + n <= Len(s) /\ 0 \in Nat /\ 0 + 1 = 1 /\ 0 + n = n
      BY <1>1
    <2>2. \A c \in 1 .. n : SubSeq(s, 0 + 1, 0 + n)[c] = s[0 + c]
      BY <1>1, <2>1, Slice
    <2>3. \A c \in 1 .. n : 0 + c = c
      OBVIOUS
    <2> QED
      BY <2>1, <2>2, <2>3
  <1>4. CASE p = <<>>
    <2>1. cut = <<>>
      BY <1>2, <1>4, EmptySeq
    <2> QED
      BY <1>4, <2>1
  <1>5. CASE p # <<>>
    <2>1. n \in 1 .. n /\ cut # <<>>
      <3>1. n \in Nat \ {0}
        BY <1>5, EmptySeq
      <3> HIDE DEF cut, n
      <3> QED
        BY <1>2, <3>1, EmptySeq
    <2>2. lastLen = Len(p[n])
      BY <1>5 DEF Last
    <2>3. p[n] \in Seq(Byte) /\ s[n] \in Seq(Byte) /\ Begins(p[n], s[n])
      BY <1>1, <2>1
    <2>4. SubSeq(s[n], 1, lastLen) = p[n]
      <3> HIDE DEF lastLen, n
      <3> QED
        BY <2>2, <2>3, PrefixCut
    <2> DEFINE e == SubSeq(cut[n], 1, lastLen)
               t == [cut EXCEPT ![n] = e]
    <2>5. e = p[n]
      BY <1>3, <2>1, <2>4
    <2> HIDE DEF e, cut
    <2>6. t \in Seq(Seq(Byte)) /\ Len(t) = n /\ \A j \in 1 .. n : t[j] = IF j = n THEN e ELSE cut[j]
      BY <1>2, <2>1, <2>3, <2>5, ExceptSeq
    <2>7. \A j \in 1 .. n : t[j] = p[j]
      <3> SUFFICES ASSUME NEW j \in 1 .. n PROVE t[j] = p[j]
        OBVIOUS
      <3>1. CASE j = n
        BY <2>5, <2>6, <3>1
      <3>2. CASE j # n
        <4>1. j \in 1 .. Len(p) - 1
          BY <1>1, <3>2
        <4> QED
          BY <1>3, <2>6, <3>2, <4>1
      <3> QED
        BY <3>1, <3>2
    <2>8. t = p
      <3> HIDE DEF t
      <3> QED
        BY <2>6, <2>7, SeqEqual
    <2>9. t = [cut EXCEPT ![Len(cut)] = SubSeq(@, 1, lastLen)]
      BY <1>2, <2>1 DEF e
    <2> HIDE DEF t
    <2> QED
      BY <2>1, <2>8, <2>9 DEF cut
  <1> QED
    BY <1>4, <1>5

\* Taking back what was added leaves the rows there were, and a sound store.
LEMMA RollbackSound ==
    ASSUME NEW x, Sound(x), NEW y, Sound(y), Grows(x, y)
    PROVE  LET r == Rollback(y, x) IN Sound(r) /\ Rows(r) = Rows(x) /\ Entries(r) = Entries(x)
  <1> DEFINE n == Rows(x)
             lastLen == IF x.chunks = <<>> THEN 0 ELSE Len(Last(x.chunks))
             cut == SubSeq(y.chunks, 1, Len(x.chunks))
             chunks == IF cut = <<>> THEN cut ELSE [cut EXCEPT ![Len(cut)] = SubSeq(@, 1, lastLen)]
             offs == SubSeq(y.offs, 1, n)
             klens == SubSeq(y.klens, 1, n)
             vlens == SubSeq(y.vlens, 1, n)
             lines == SubSeq(y.lines, 1, n)
             hashes == HashesCut(y, n)
             spill == IF y.spill.on THEN Truncate(y.spill, Len(Written(x.spill))) ELSE y.spill
             checked == IF y.checked > n THEN n ELSE y.checked
             r == Rollback(y, x)
  <1>1. /\ x \in Builder /\ y \in Builder /\ n \in Nat
        /\ Len(x.klens) = n /\ Len(x.vlens) = n /\ Len(x.lines) = n
    BY DEF Sound, Stored, Builder, Rows
  <1>2. /\ x.offs \in Seq(Nat \X Nat) /\ x.klens \in Seq(Nat) /\ x.vlens \in Seq(Nat)
        /\ x.lines \in Seq(Nat) /\ x.chunks \in Seq(Seq(Byte)) /\ x.spill \in Spill
        /\ x.dataBytes \in Nat
        /\ y.offs \in Seq(Nat \X Nat) /\ y.klens \in Seq(Nat) /\ y.vlens \in Seq(Nat)
        /\ y.lines \in Seq(Nat) /\ y.chunks \in Seq(Seq(Byte)) /\ y.spill \in Spill
        /\ y.hashes \in Seq(HashWords) /\ y.checked \in Nat
    BY <1>1 DEF Builder
  <1>3. offs = x.offs /\ klens = x.klens /\ vlens = x.vlens /\ lines = x.lines
    <2>1. /\ Begins(x.offs, y.offs) /\ Begins(x.klens, y.klens)
          /\ Begins(x.vlens, y.vlens) /\ Begins(x.lines, y.lines)
      BY DEF Grows
    <2>2. offs = x.offs
      BY <1>2, <2>1, PrefixCut DEF Rows
    <2>3. klens = x.klens /\ vlens = x.vlens /\ lines = x.lines
      <3>1. /\ SubSeq(y.klens, 1, Len(x.klens)) = x.klens
            /\ SubSeq(y.vlens, 1, Len(x.vlens)) = x.vlens
            /\ SubSeq(y.lines, 1, Len(x.lines)) = x.lines
        BY <1>2, <2>1, PrefixCut
      <3> QED
        BY <1>1, <3>1
    <2> QED
      BY <2>2, <2>3
  <1>4. chunks = x.chunks
    <2>1. /\ Len(x.chunks) <= Len(y.chunks)
          /\ \A c \in 1 .. Len(x.chunks) : Begins(x.chunks[c], y.chunks[c])
          /\ \A c \in 1 .. Len(x.chunks) - 1 : y.chunks[c] = x.chunks[c]
      BY DEF Grows
    <2> QED
      BY <1>2, <2>1, ChunksCut
  <1>5. /\ hashes \in Seq(HashWords) /\ Len(hashes) <= n
        /\ \A i \in 1 .. Len(hashes) : hashes[i] = Hash[KeyOf(x, i)]
    <2> DEFINE h == y.hashes
               len == IF Len(h) > n THEN n ELSE Len(h)
    <2>1. Len(h) \in Nat /\ len \in 0 .. Len(h) /\ len <= n
      BY <1>1, <1>2
    <2>2. hashes = SubSeq(h, 1, len)
      BY DEF HashesCut
    <2> HIDE DEF len
    <2>3. hashes \in Seq(HashWords) /\ Len(hashes) = len
      BY <1>2, <2>1, <2>2, CutAnywhere
    <2>4. \A i \in 1 .. len : hashes[i] = h[i]
      <3>1. 0 + len <= Len(h) /\ 0 \in Nat /\ 0 + 1 = 1 /\ 0 + len = len /\ len \in Nat
        BY <2>1
      <3>2. \A i \in 1 .. len : SubSeq(h, 0 + 1, 0 + len)[i] = h[0 + i]
        BY <1>2, <3>1, Slice
      <3>3. \A i \in 1 .. len : 0 + i = i
        BY <3>1
      <3> QED
        BY <2>2, <3>1, <3>2, <3>3
    <2>5. ASSUME NEW i \in 1 .. len PROVE hashes[i] = Hash[KeyOf(x, i)]
      <3>1. i \in 1 .. Len(h) /\ i \in 1 .. Rows(x)
        BY <1>1, <2>1
      <3>2. h[i] = Hash[KeyOf(y, i)]
        BY <3>1 DEF Sound, Cached
      <3>3. KeyOf(y, i) = KeyOf(x, i)
        BY <1>1, <3>1, GrowsRows DEF Sound
      <3> QED
        BY <2>4, <3>2, <3>3
    <2> QED
      BY <2>1, <2>3, <2>5
  <1>6. /\ spill \in Spill /\ spill.on = x.spill.on
        /\ IF x.spill.on THEN Written(spill) = Written(x.spill) ELSE spill = x.spill
        /\ spill = x.spill \/ spill.mapped = 0
    <2>1. CASE x.spill.on
      <3>1. y.spill.on /\ Begins(Written(x.spill), Written(y.spill))
        BY <2>1 DEF Grows
      <3>2. spill = Truncate(y.spill, Len(Written(x.spill)))
        BY <3>1
      <3> HIDE DEF spill
      <3>3. Written(x.spill) \in Seq(Byte)
        BY <1>2, WrittenBytes
      <3>4. /\ spill \in Spill /\ spill.on = y.spill.on /\ spill.mapped = 0
            /\ Written(spill) = Written(x.spill)
        BY <1>2, <3>1, <3>2, <3>3, TruncateBytes
      <3> QED
        BY <2>1, <3>1, <3>4
    <2>2. CASE ~x.spill.on
      <3>1. ~y.spill.on /\ y.spill = x.spill
        BY <2>2 DEF Grows
      <3> QED
        BY <1>2, <2>2, <3>1
    <2> QED
      BY <2>1, <2>2
  <1>7. checked \in Nat /\ checked <= n
    BY <1>1, <1>2
  <1>8. r = [y EXCEPT !.offs = offs, !.klens = klens, !.vlens = vlens, !.lines = lines,
                      !.hashes = hashes, !.chunks = chunks, !.dataBytes = x.dataBytes,
                      !.spill = spill, !.checked = checked]
    BY DEF Rollback
  <1> HIDE DEF n, lastLen, cut, chunks, offs, klens, vlens, lines, hashes, spill, checked, r
  <1>9. /\ r.offs = offs /\ r.klens = klens /\ r.vlens = vlens /\ r.lines = lines
        /\ r.hashes = hashes /\ r.chunks = chunks /\ r.dataBytes = x.dataBytes
        /\ r.spill = spill /\ r.checked = checked
        /\ r \in Builder
    BY <1>1, <1>2, <1>3, <1>4, <1>5, <1>6, <1>7, <1>8 DEF Builder
  <1>10. SameRows(r, x)
    BY <1>3, <1>4, <1>6, <1>9 DEF SameRows
  <1>11. Sound(r) /\ Rows(r) = Rows(x) /\ Entries(r) = Entries(x)
    BY <1>5, <1>6, <1>7, <1>9, <1>10, SameRowsSound DEF n
  <1> QED
    BY <1>11 DEF r

\* The row's bytes are behind those in the spill file, and its offset says so.
AppendedToSpill(x, y, row) ==
    /\ y.chunks = x.chunks /\ y.spill = Write(x.spill, row)
    /\ y.offs = Append(x.offs, <<0, Len(Written(x.spill))>>)

\* The row's bytes are behind old, which is the last chunk or an empty one, and its offset
\* says so.
AppendedToChunk(x, y, row, c, old) ==
    /\ y.offs = Append(x.offs, <<c, Len(old)>>)
    /\ y.chunks[c] = old \o (row.key \o row.val)
    /\ Len(y.chunks[c]) <= ArenaChunk
    /\ c = Len(y.chunks) /\ Len(x.chunks) <= c /\ c <= Len(x.chunks) + 1
    /\ c = Len(x.chunks) => old = x.chunks[c]
    /\ \A d \in 1 .. Len(x.chunks) : d # c => y.chunks[d] = x.chunks[d]

AppendedToArena(x, y, row) ==
    /\ y.spill = x.spill
    /\ \E c \in 1 .. Len(y.chunks), old \in Seq(Byte) : AppendedToChunk(x, y, row, c, old)

\* The fields of a Builder after a row was appended.
LEMMA AppendFields ==
    ASSUME NEW x, Stored(x), NEW row \in Row, ~TooLong(row), NEW line \in Nat
    PROVE  LET y == AppendRow(x, row, line)
           IN  /\ y \in Builder
               /\ y.klens = Append(x.klens, Len(row.key)) /\ y.vlens = Append(x.vlens, Len(row.val))
               /\ y.lines = Append(x.lines, line) /\ y.hashes = x.hashes /\ y.checked = x.checked
               /\ y.dataBytes = x.dataBytes + 2 + Len(row.key \o row.val)
               /\ y.spill.on = x.spill.on
               /\ x.spill.on => AppendedToSpill(x, y, row)
               /\ ~x.spill.on => AppendedToArena(x, y, row)
  <1> DEFINE bytes == row.key \o row.val
             n == Len(bytes)
             fresh == x.chunks = <<>> \/ ~Free(Last(x.chunks), n)
             chunks == IF fresh THEN Append(x.chunks, <<>>) ELSE x.chunks
             c == Len(chunks)
             off == IF x.spill.on THEN <<0, Len(Written(x.spill))>> ELSE <<c, Len(Last(chunks))>>
             offs == Append(x.offs, off)
             klens == Append(x.klens, Len(row.key))
             vlens == Append(x.vlens, Len(row.val))
             lines == Append(x.lines, line)
             data == x.dataBytes + 2 + n
             z == [x EXCEPT !.offs = offs, !.klens = klens, !.vlens = vlens, !.lines = lines,
                            !.dataBytes = data]
             y == AppendRow(x, row, line)
  <1>1. /\ x \in Builder /\ x.offs \in Seq(Nat \X Nat) /\ x.klens \in Seq(Nat)
        /\ x.vlens \in Seq(Nat) /\ x.lines \in Seq(Nat) /\ x.chunks \in Seq(Seq(Byte))
        /\ x.spill \in Spill /\ x.dataBytes \in Nat
    BY DEF Stored, Builder
  <1>2. /\ row.key \in Seq(Byte) /\ row.val \in Seq(Byte)
        /\ Len(row.key) \in Nat /\ Len(row.val) \in Nat
    BY BytesAssumption DEF Row
  <1>3. bytes \in Seq(Byte) /\ n = Len(row.key) + Len(row.val)
    BY <1>2, ConcatProperties
  <1>4. n \in Nat /\ n <= ArenaChunk
    <2>1. MaxKeyLen \in Nat /\ MaxValueLen \in Nat /\ ArenaChunk \in Nat
      BY LimitsAssumption
    <2>2. Len(row.key) <= MaxKeyLen /\ Len(row.val) <= MaxValueLen
      BY <1>2, <2>1 DEF TooLong
    <2> DEFINE k == Len(row.key)
               v == Len(row.val)
    <2>3. n = k + v /\ k \in Nat /\ v \in Nat /\ k <= MaxKeyLen /\ v <= MaxValueLen
      BY <1>2, <1>3, <2>2
    <2> HIDE DEF n, k, v
    <2> QED
      BY <2>1, <2>3, ArenaAssumption
  <1>5. /\ chunks \in Seq(Seq(Byte)) /\ c \in Nat \ {0} /\ Last(chunks) = chunks[c]
        /\ chunks[c] \in Seq(Byte) /\ Len(chunks[c]) + n <= ArenaChunk
        /\ Len(x.chunks) <= c /\ c <= Len(x.chunks) + 1
        /\ \A d \in 1 .. Len(x.chunks) : chunks[d] = x.chunks[d]
    <2>1. CASE fresh
      <3> DEFINE none == <<>>
      <3>1. none \in Seq(Byte) /\ Len(none) = 0
        BY EmptySeq
      <3>2. chunks = Append(x.chunks, none)
        BY <2>1
      <3> HIDE DEF none, chunks, fresh, n
      <3>3. /\ chunks \in Seq(Seq(Byte)) /\ c = Len(x.chunks) + 1 /\ chunks[c] = none
            /\ \A d \in 1 .. Len(x.chunks) : chunks[d] = x.chunks[d]
        BY <1>1, <3>1, <3>2, AppendProperties
      <3>4. Len(x.chunks) \in Nat
        BY <1>1
      <3> QED
        BY <1>4, <3>1, <3>3, <3>4, LimitsAssumption DEF Last
    <2>2. CASE ~fresh
      <3>1. chunks = x.chunks /\ x.chunks # <<>> /\ Len(Last(x.chunks)) + n <= ArenaChunk
        BY <2>2 DEF Free
      <3>2. Len(x.chunks) \in Nat \ {0}
        BY <1>1, <3>1, EmptySeq
      <3> HIDE DEF chunks, fresh, n
      <3>3. Last(chunks) = chunks[c] /\ c \in 1 .. Len(x.chunks)
        BY <3>1, <3>2 DEF Last
      <3>4. chunks[c] \in Seq(Byte)
        BY <1>1, <3>1, <3>3, ElementOfSeq
      <3> QED
        BY <1>1, <3>1, <3>2, <3>3, <3>4
    <2> QED
      BY <2>1, <2>2
  <1>6. off \in Nat \X Nat
    <2>1. Len(Written(x.spill)) \in Nat
      <3>1. Written(x.spill) \in Seq(Byte)
        BY <1>1, WrittenBytes
      <3> QED
        BY <3>1
    <2> HIDE DEF chunks
    <2>2. Len(Last(chunks)) \in Nat /\ c \in Nat
      BY <1>5
    <2> HIDE DEF c
    <2> QED
      BY <2>1, <2>2
  <1>7. y = IF x.spill.on THEN [z EXCEPT !.spill = Write(x.spill, row)]
            ELSE [z EXCEPT !.chunks = [chunks EXCEPT ![c] = @ \o bytes]]
    <2> HIDE DEF chunks, bytes
    <2>1. z.spill = x.spill
      BY <1>1 DEF Builder
    <2> QED
      BY <2>1 DEF AppendRow, chunks, bytes
  <1> HIDE DEF bytes, n, fresh, chunks, c, off, y
  <1>8. /\ offs \in Seq(Nat \X Nat) /\ klens \in Seq(Nat) /\ vlens \in Seq(Nat) /\ lines \in Seq(Nat)
        /\ data \in Nat
    BY <1>1, <1>2, <1>4, <1>6, AppendProperties
  <1> HIDE DEF offs, klens, vlens, lines, data
  <1>9. /\ z \in Builder /\ z.offs = offs /\ z.klens = klens /\ z.vlens = vlens /\ z.lines = lines
        /\ z.dataBytes = data /\ z.hashes = x.hashes /\ z.checked = x.checked
        /\ z.chunks = x.chunks /\ z.spill = x.spill
    BY <1>1, <1>8 DEF Builder
  <1> HIDE DEF z
  <1>10. CASE x.spill.on
    <2> DEFINE s == Write(x.spill, row)
    <2>1. s \in Spill /\ s.on = x.spill.on
      BY <1>1, WriteBytes
    <2>2. y = [z EXCEPT !.spill = s]
      BY <1>7, <1>10
    <2>3. off = <<0, Len(Written(x.spill))>>
      BY <1>10 DEF off
    <2> HIDE DEF s
    <2>4. /\ y \in Builder /\ y.offs = offs /\ y.klens = klens /\ y.vlens = vlens /\ y.lines = lines
          /\ y.dataBytes = data /\ y.hashes = x.hashes /\ y.checked = x.checked
          /\ y.chunks = x.chunks /\ y.spill = s
      BY <1>9, <2>1, <2>2 DEF Builder
    <2> QED
      BY <1>10, <2>1, <2>3, <2>4
      DEF s, y, offs, klens, vlens, lines, data, n, bytes, AppendedToSpill
  <1>11. CASE ~x.spill.on
    <2> DEFINE old == chunks[c]
               new == old \o bytes
               t == [chunks EXCEPT ![c] = new]
    <2>1. y = [z EXCEPT !.chunks = t]
      BY <1>7, <1>11
    <2>2. off = <<c, Len(old)>>
      BY <1>5, <1>11 DEF off
    <2>3. old \in Seq(Byte)
      BY <1>5
    <2> HIDE DEF old
    <2>4. new \in Seq(Byte) /\ Len(new) = Len(old) + n
      BY <1>3, <2>3, ConcatProperties DEF n
    <2>5. c \in 1 .. Len(chunks)
      BY <1>5 DEF c
    <2> HIDE DEF new
    <2>6. /\ t \in Seq(Seq(Byte)) /\ Len(t) = Len(chunks)
          /\ \A d \in 1 .. Len(chunks) : t[d] = IF d = c THEN new ELSE chunks[d]
      BY <1>5, <2>4, <2>5, ExceptSeq
    <2> HIDE DEF t
    <2>7. /\ y \in Builder /\ y.offs = offs /\ y.klens = klens /\ y.vlens = vlens /\ y.lines = lines
          /\ y.dataBytes = data /\ y.hashes = x.hashes /\ y.checked = x.checked
          /\ y.chunks = t /\ y.spill = x.spill
      BY <1>9, <2>1, <2>6 DEF Builder
    <2>8. y.offs = Append(x.offs, <<c, Len(old)>>)
      BY <2>2, <2>7 DEF offs
    <2>9. t[c] = old \o (row.key \o row.val) /\ Len(t[c]) <= ArenaChunk
      BY <1>5, <2>4, <2>5, <2>6 DEF new, bytes, old
    <2>10. c = Len(t) /\ c \in 1 .. Len(t)
      BY <2>5, <2>6 DEF c
    <2>11. ASSUME c = Len(x.chunks) PROVE old = x.chunks[c]
      <3>1. c \in 1 .. Len(x.chunks)
        BY <1>5, <2>11
      <3> QED
        BY <1>5, <3>1 DEF old
    <2>12. ASSUME NEW d \in 1 .. Len(x.chunks), d # c PROVE t[d] = x.chunks[d]
      <3>1. d \in 1 .. Len(chunks)
        <4>1. Len(x.chunks) \in Nat /\ Len(chunks) \in Nat /\ Len(x.chunks) <= Len(chunks)
          BY <1>1, <1>5 DEF c
        <4> QED
          BY <4>1
      <3> QED
        BY <1>5, <2>6, <2>12, <3>1
    <2>13. AppendedToChunk(x, y, row, c, old)
      BY <1>5, <2>7, <2>8, <2>9, <2>10, <2>11, <2>12 DEF AppendedToChunk
    <2>14. AppendedToArena(x, y, row)
      BY <2>3, <2>7, <2>10, <2>13 DEF AppendedToArena
    <2> QED
      BY <1>11, <2>7, <2>14 DEF y, klens, vlens, lines, data, n, bytes
  <1> QED
    BY <1>10, <1>11 DEF y

AllEntries == [key : Keys, val : Values, line : Nat]

LEMMA EntriesSeq ==
    ASSUME NEW x, Stored(x)
    PROVE  Entries(x) \in Seq(AllEntries) /\ Len(Entries(x)) = Rows(x) /\ Rows(x) \in Nat
  <1>1. Rows(x) \in Nat
    BY DEF Stored, Builder, Rows
  <1>2. \A i \in 1 .. Rows(x) : Entry(x, i) \in AllEntries
    <2> TAKE i \in 1 .. Rows(x)
    <2>1. KeyOf(x, i) \in Keys /\ ValueOf(x, i) \in Values
      BY DEF Stored
    <2>2. x.lines[i] \in Nat
      BY RowFields
    <2> QED
      BY <2>1, <2>2 DEF Entry, AllEntries
  <1>3. Entries(x) \in [1 .. Rows(x) -> AllEntries]
    BY <1>2 DEF Entries
  <1> QED
    BY <1>1, <1>3, FunctionSeq

\* The store holds the rows it held and the new one.
LEMMA AppendGrows ==
    ASSUME NEW x, Stored(x), NEW row \in Row, ~TooLong(row), NEW line \in Nat
    PROVE  LET y == AppendRow(x, row, line)
           IN  /\ Grows(x, y) /\ Rows(y) = Rows(x) + 1
               /\ \A c \in 1 .. Len(y.chunks) : Len(y.chunks[c]) <= ArenaChunk
  <1> DEFINE y == AppendRow(x, row, line)
             w == Written(x.spill)
             bytes == row.key \o row.val
  <1>1. /\ x.offs \in Seq(Nat \X Nat) /\ x.klens \in Seq(Nat) /\ x.vlens \in Seq(Nat)
        /\ x.lines \in Seq(Nat) /\ x.chunks \in Seq(Seq(Byte)) /\ x.spill \in Spill
        /\ \A c \in 1 .. Len(x.chunks) : Len(x.chunks[c]) <= ArenaChunk
    BY DEF Stored, Builder
  <1>2. /\ w \in Seq(Byte) /\ Len(w) \in Nat
    <2>1. w \in Seq(Byte)
      BY <1>1, WrittenBytes
    <2> HIDE DEF w
    <2> QED
      BY <2>1
  <1>3. bytes \in Seq(Byte) /\ Len(row.key) \in Nat /\ Len(row.val) \in Nat
    <2>1. row.key \in Seq(Byte) /\ row.val \in Seq(Byte)
      BY BytesAssumption DEF Row
    <2> QED
      BY <2>1, ConcatProperties
  <1>4. /\ y \in Builder
        /\ y.klens = Append(x.klens, Len(row.key)) /\ y.vlens = Append(x.vlens, Len(row.val))
        /\ y.lines = Append(x.lines, line) /\ y.checked = x.checked /\ y.spill.on = x.spill.on
        /\ x.spill.on => AppendedToSpill(x, y, row)
        /\ ~x.spill.on => AppendedToArena(x, y, row)
    BY AppendFields
  <1> HIDE DEF bytes
  <1>5. /\ Begins(x.klens, y.klens) /\ Begins(x.vlens, y.vlens) /\ Begins(x.lines, y.lines)
    <2> HIDE DEF y
    <2> QED
      BY <1>1, <1>3, <1>4, PrefixAppend
  <1>6. CASE x.spill.on
    <2>1. y.chunks = x.chunks /\ y.spill = Write(x.spill, row) /\ y.offs = Append(x.offs, <<0, Len(w)>>)
      BY <1>4, <1>6 DEF AppendedToSpill
    <2> HIDE DEF y
    <2>2. Written(y.spill) = w \o bytes
      BY <1>1, <2>1, WriteBytes DEF bytes
    <2> HIDE DEF w
    <2>3. Begins(w, Written(y.spill))
      BY <1>2, <1>3, <2>2, PrefixConcat
    <2>4. <<0, Len(w)>> \in Nat \X Nat
      BY <1>2
    <2>5. Begins(x.offs, y.offs) /\ Len(y.offs) = Len(x.offs) + 1
      BY <1>1, <2>1, <2>4, PrefixAppend, AppendProperties
    <2>6. \A c \in 1 .. Len(x.chunks) : Begins(x.chunks[c], y.chunks[c])
      <3>1. \A c \in 1 .. Len(x.chunks) : Len(x.chunks[c]) \in Nat
        BY <1>1
      <3> QED
        BY <2>1, <3>1, BeginsSelf
    <2>7. Len(x.chunks) <= Len(y.chunks)
      <3>1. Len(x.chunks) \in Nat
        BY <1>1
      <3> QED
        BY <2>1, <3>1
    <2> QED
      BY <1>1, <1>4, <1>5, <1>6, <2>1, <2>3, <2>5, <2>6, <2>7 DEF Grows, Rows, w, y
  <1>7. CASE ~x.spill.on
    <2> HIDE DEF y
    <2>1. y.spill = x.spill
      BY <1>4, <1>7 DEF AppendedToArena
    <2>a. PICK c \in 1 .. Len(y.chunks), old \in Seq(Byte) : AppendedToChunk(x, y, row, c, old)
      BY <1>4, <1>7 DEF AppendedToArena
    <2>2. /\ y.offs = Append(x.offs, <<c, Len(old)>>)
          /\ y.chunks[c] = old \o bytes
          /\ Len(y.chunks[c]) <= ArenaChunk
          /\ c = Len(y.chunks) /\ Len(x.chunks) <= c /\ c <= Len(x.chunks) + 1
          /\ c = Len(x.chunks) => old = x.chunks[c]
          /\ \A d \in 1 .. Len(x.chunks) : d # c => y.chunks[d] = x.chunks[d]
      BY <2>a DEF AppendedToChunk, bytes
    <2>0. y.chunks \in Seq(Seq(Byte))
      BY <1>4 DEF Builder
    <2>3. Len(x.chunks) \in Nat /\ Len(y.chunks) \in Nat
      BY <1>1, <2>0
    <2>4. <<c, Len(old)>> \in Nat \X Nat
      BY <2>3
    <2>5. Begins(x.offs, y.offs) /\ Len(y.offs) = Len(x.offs) + 1
      BY <1>1, <2>2, <2>4, PrefixAppend, AppendProperties
    <2>6. ASSUME NEW d \in 1 .. Len(x.chunks) PROVE Begins(x.chunks[d], y.chunks[d])
      <3>1. x.chunks[d] \in Seq(Byte) /\ Len(x.chunks[d]) \in Nat
        BY <1>1
      <3>2. CASE d # c
        BY <2>2, <3>1, <3>2, BeginsSelf
      <3>3. CASE d = c
        <4>1. c = Len(x.chunks)
          BY <2>2, <2>3, <3>3
        <4>2. old = x.chunks[d] /\ y.chunks[d] = old \o bytes
          BY <2>2, <3>3, <4>1
        <4> QED
          BY <1>3, <4>2, PrefixConcat
      <3> QED
        BY <3>2, <3>3
    <2>7. \A d \in 1 .. Len(x.chunks) - 1 : y.chunks[d] = x.chunks[d]
      <3> TAKE d \in 1 .. Len(x.chunks) - 1
      <3>1. d # c /\ d \in 1 .. Len(x.chunks)
        BY <2>2, <2>3
      <3> QED
        BY <2>2, <3>1
    <2>8. ASSUME NEW d \in 1 .. Len(y.chunks) PROVE Len(y.chunks[d]) <= ArenaChunk
      <3>1. CASE d = c
        BY <2>2, <3>1
      <3>2. CASE d # c
        <4>1. d \in 1 .. Len(x.chunks)
          BY <2>2, <2>3, <3>2
        <4> QED
          BY <1>1, <2>2, <3>2, <4>1
      <3> QED
        BY <3>1, <3>2
    <2>9. Len(x.chunks) <= Len(y.chunks)
      BY <2>2
    <2>10. Grows(x, y)
      BY <1>4, <1>5, <1>7, <2>1, <2>5, <2>6, <2>7, <2>9 DEF Grows
    <2> QED
      BY <2>5, <2>8, <2>10 DEF Rows, y
  <1> QED
    BY <1>6, <1>7

\* The new row is the last one, with its key and its value.
LEMMA AppendedRow ==
    ASSUME NEW x, Stored(x), NEW row \in Row, ~TooLong(row), NEW line \in Nat
    PROVE  LET y == AppendRow(x, row, line)
               n == Rows(x) + 1
           IN  /\ y.klens[n] = Len(row.key) /\ y.vlens[n] = Len(row.val) /\ y.lines[n] = line
               /\ Len(y.klens) = n /\ Len(y.vlens) = n /\ Len(y.lines) = n
               /\ x.spill.on => y.offs[n][2] = Len(Written(x.spill))
               /\ Inside(y, n) /\ KeyOf(y, n) = row.key /\ ValueOf(y, n) = row.val
  <1> DEFINE y == AppendRow(x, row, line)
             n == Rows(x) + 1
             key == row.key
             val == row.val
             bytes == key \o val
  <1>1. /\ x.offs \in Seq(Nat \X Nat) /\ x.klens \in Seq(Nat) /\ x.vlens \in Seq(Nat)
        /\ x.lines \in Seq(Nat) /\ x.spill \in Spill
        /\ Len(x.klens) = Rows(x) /\ Len(x.vlens) = Rows(x) /\ Len(x.lines) = Rows(x)
        /\ Rows(x) = Len(x.offs) /\ Rows(x) \in Nat
    BY DEF Stored, Builder, Rows
  <1>2. key \in Seq(Byte) /\ val \in Seq(Byte) /\ Len(key) \in Nat /\ Len(val) \in Nat
    BY BytesAssumption DEF Row
  <1>3. /\ y \in Builder
        /\ y.klens = Append(x.klens, Len(key)) /\ y.vlens = Append(x.vlens, Len(val))
        /\ y.lines = Append(x.lines, line) /\ y.spill.on = x.spill.on
        /\ x.spill.on => AppendedToSpill(x, y, row)
        /\ ~x.spill.on => AppendedToArena(x, y, row)
    BY AppendFields
  <1>4. PICK c \in Nat, p \in Seq(Byte) :
           /\ y.offs = Append(x.offs, <<c, Len(p)>>) /\ Bytes(y, c) = p \o bytes
           /\ ~y.spill.on => c \in 1 .. Len(y.chunks)
           /\ x.spill.on => p = Written(x.spill)
    <2>1. CASE x.spill.on
      <3>1. y.spill = Write(x.spill, row) /\ y.offs = Append(x.offs, <<0, Len(Written(x.spill))>>)
        BY <1>3, <2>1 DEF AppendedToSpill
      <3> HIDE DEF y
      <3>2. Written(y.spill) = Written(x.spill) \o bytes /\ Written(x.spill) \in Seq(Byte)
        BY <1>1, <3>1, WriteBytes, WrittenBytes
      <3> HIDE DEF bytes
      <3>3. Bytes(y, 0) = Written(x.spill) \o bytes
        BY <1>3, <2>1, <3>2 DEF Bytes
      <3> QED
        BY <1>3, <2>1, <3>1, <3>2, <3>3
    <2>2. CASE ~x.spill.on
      <3> HIDE DEF y
      <3>a. PICK c \in 1 .. Len(y.chunks), old \in Seq(Byte) : AppendedToChunk(x, y, row, c, old)
        BY <1>3, <2>2 DEF AppendedToArena
      <3>1. y.offs = Append(x.offs, <<c, Len(old)>>) /\ y.chunks[c] = old \o bytes
        BY <3>a DEF AppendedToChunk
      <3> HIDE DEF bytes
      <3>2. Bytes(y, c) = old \o bytes
        BY <1>3, <2>2, <3>1 DEF Bytes
      <3>3. c \in Nat
        BY <1>3 DEF Builder
      <3> QED
        BY <1>3, <2>2, <3>1, <3>2, <3>3
    <2> QED
      BY <2>1, <2>2
  <1> HIDE DEF y, key, val
  <1>5. Len(p) \in Nat /\ <<c, Len(p)>> \in Nat \X Nat
    BY <1>4
  <1>6. /\ y.klens[n] = Len(key) /\ y.vlens[n] = Len(val) /\ y.lines[n] = line
        /\ Len(y.klens) = n /\ Len(y.vlens) = n /\ Len(y.lines) = n
    <2>1. y.klens[n] = Len(key) /\ Len(y.klens) = n
      <3>1. /\ x.klens \in Seq(Nat) /\ n = Len(x.klens) + 1 /\ Len(key) \in Nat
            /\ y.klens = Append(x.klens, Len(key))
        BY <1>1, <1>2, <1>3
      <3> HIDE DEF n
      <3> QED
        BY <3>1, AppendLast
    <2>2. y.vlens[n] = Len(val) /\ Len(y.vlens) = n
      <3>1. /\ x.vlens \in Seq(Nat) /\ n = Len(x.vlens) + 1 /\ Len(val) \in Nat
            /\ y.vlens = Append(x.vlens, Len(val))
        BY <1>1, <1>2, <1>3
      <3> HIDE DEF n
      <3> QED
        BY <3>1, AppendLast
    <2>3. y.lines[n] = line /\ Len(y.lines) = n
      <3>1. x.lines \in Seq(Nat) /\ n = Len(x.lines) + 1 /\ y.lines = Append(x.lines, line)
        BY <1>1, <1>3
      <3> HIDE DEF n
      <3> QED
        BY <3>1, AppendLast
    <2> QED
      BY <2>1, <2>2, <2>3
  <1>7. y.offs[n] = <<c, Len(p)>>
    BY <1>1, <1>4, <1>5, AppendProperties
  <1>8. y.offs[n][1] = c /\ y.offs[n][2] = Len(p)
    BY <1>7
  <1> DEFINE s == p \o (key \o val)
             l == Len(p)
             k == Len(key)
             v == Len(val)
  <1>9. Len(s) = l + k + v /\ SubSeq(s, l + 1, l + k) = key /\ SubSeq(s, l + k + 1, l + k + v) = val
    BY <1>2, <1>4, Behind
  <1>10. Bytes(y, y.offs[n][1]) = s /\ y.offs[n][2] = l /\ y.klens[n] = k /\ y.vlens[n] = v
    BY <1>4, <1>6, <1>8
  <1> HIDE DEF n, s, l, k, v
  <1>11. KeyOf(y, n) = key /\ ValueOf(y, n) = val
    BY <1>9, <1>10 DEF KeyOf, ValueOf
  <1>12. Inside(y, n)
    <2>1. l + k + v <= Len(s)
      BY <1>2, <1>5, <1>9 DEF l, k, v
    <2> QED
      BY <1>4, <1>8, <1>10, <2>1 DEF Inside
  <1>13. x.spill.on => y.offs[n][2] = Len(Written(x.spill))
    BY <1>4, <1>8
  <1> QED
    BY <1>6, <1>11, <1>12, <1>13 DEF y, n, key, val

\* Appending a row keeps the store sound and puts the row behind the others.
LEMMA AppendSound ==
    ASSUME NEW x, Sound(x), NEW row \in Row, ~TooLong(row), NEW line \in Nat
    PROVE  LET y == AppendRow(x, row, line)
           IN  /\ Sound(y) /\ Grows(x, y) /\ Rows(y) = Rows(x) + 1
               /\ Entries(y) = Append(Entries(x), [key |-> row.key, val |-> row.val, line |-> line])
  <1> DEFINE y == AppendRow(x, row, line)
             m == Rows(x)
             n == m + 1
             e == [key |-> row.key, val |-> row.val, line |-> line]
  <1>1. Stored(x) /\ Cached(x) /\ x \in Builder /\ m \in Nat /\ x.spill \in Spill
    BY DEF Sound, Stored, Builder, Rows
  <1>2. /\ y \in Builder /\ y.hashes = x.hashes /\ y.checked = x.checked
        /\ y.dataBytes = x.dataBytes + 2 + Len(row.key \o row.val)
        /\ y.spill.on = x.spill.on
        /\ x.spill.on => AppendedToSpill(x, y, row)
    BY <1>1, AppendFields
  <1>3. /\ Grows(x, y) /\ Rows(y) = n
        /\ \A c \in 1 .. Len(y.chunks) : Len(y.chunks[c]) <= ArenaChunk
    BY <1>1, AppendGrows
  <1>4. /\ y.klens[n] = Len(row.key) /\ y.vlens[n] = Len(row.val) /\ y.lines[n] = line
        /\ Len(y.klens) = n /\ Len(y.vlens) = n /\ Len(y.lines) = n
        /\ x.spill.on => y.offs[n][2] = Len(Written(x.spill))
        /\ Inside(y, n) /\ KeyOf(y, n) = row.key /\ ValueOf(y, n) = row.val
    BY <1>1, AppendedRow
  <1>5. row.key \in Keys /\ row.val \in Values /\ row.key \in Seq(Byte) /\ row.val \in Seq(Byte)
    BY BytesAssumption DEF Row
  <1> HIDE DEF y
  <1>6. \A i \in 1 .. m :
           /\ y.klens[i] = x.klens[i] /\ y.vlens[i] = x.vlens[i] /\ y.lines[i] = x.lines[i]
           /\ y.offs[i] = x.offs[i]
           /\ Inside(y, i) /\ KeyOf(y, i) = KeyOf(x, i) /\ ValueOf(y, i) = ValueOf(x, i)
    BY <1>1, <1>2, <1>3, GrowsRows
  <1>7. \A i \in 1 .. n : i \in 1 .. m \/ i = n
    BY <1>1
  <1>8. \A i \in 1 .. n : Inside(y, i) /\ KeyOf(y, i) \in Keys /\ ValueOf(y, i) \in Values
    <2>1. \A i \in 1 .. m : KeyOf(x, i) \in Keys /\ ValueOf(x, i) \in Values
      BY <1>1 DEF Stored
    <2> HIDE DEF n
    <2> QED
      BY <1>4, <1>5, <1>6, <1>7, <2>1
  <1>9. y.dataBytes = DataBytes(y)
    <2> DEFINE f == [i \in 1 .. m |-> 2 + x.klens[i] + x.vlens[i]]
               g == [i \in 1 .. n |-> 2 + y.klens[i] + y.vlens[i]]
    <2>1. \A i \in 1 .. m : x.klens[i] \in Nat /\ x.vlens[i] \in Nat
      BY <1>1, RowFields
    <2>2. f \in [1 .. m -> Nat] /\ \A i \in 1 .. m : f[i] = 2 + x.klens[i] + x.vlens[i]
      BY <2>1
    <2>3. Len(row.key) \in Nat /\ Len(row.val) \in Nat
      BY <1>5
    <2>4. \A i \in 1 .. n : y.klens[i] \in Nat /\ y.vlens[i] \in Nat
      <3> HIDE DEF n
      <3> QED
        BY <1>4, <1>6, <1>7, <2>1, <2>3
    <2>5. g \in [1 .. n -> Nat] /\ \A i \in 1 .. n : g[i] = 2 + y.klens[i] + y.vlens[i]
      BY <2>4
    <2>6. n \in 1 .. n /\ \A i \in 1 .. m : i \in 1 .. n
      BY <1>1
    <2> HIDE DEF f, g
    <2>7. \A i \in 1 .. m : g[i] = f[i]
      BY <1>6, <2>2, <2>5, <2>6
    <2>8. SumOf(g) = SumOf(f) + g[n]
      BY <1>1, <2>2, <2>5, <2>7, SumExtend
    <2>9. g[n] = 2 + Len(row.key) + Len(row.val)
      BY <1>4, <2>5, <2>6
    <2>10. Len(row.key \o row.val) = Len(row.key) + Len(row.val)
      BY <1>5, ConcatProperties
    <2>11. x.dataBytes = SumOf(f) /\ x.dataBytes \in Nat
      BY <1>1 DEF Stored, DataBytes, Builder, f
    <2>12. DataBytes(y) = SumOf(g)
      BY <1>3 DEF DataBytes, g
    <2> DEFINE a == SumOf(f)
               c == SumOf(g)
               k == Len(row.key)
               v == Len(row.val)
    <2>13. y.dataBytes = x.dataBytes + 2 + (k + v)
      BY <1>2, <2>10
    <2>14. k \in Nat /\ v \in Nat /\ a \in Nat /\ x.dataBytes = a /\ c = a + (2 + k + v) /\ DataBytes(y) = c
      BY <2>3, <2>8, <2>9, <2>11, <2>12
    <2> HIDE DEF a, c, k, v
    <2> QED
      BY <2>13, <2>14
  <1>10. Stored(y)
    BY <1>2, <1>3, <1>4, <1>8, <1>9 DEF Stored
  <1>11. Mapped(y)
    <2> SUFFICES ASSUME y.spill.on PROVE Mapped(y)
      BY DEF Mapped
    <2>1. x.spill.on /\ y.spill = Write(x.spill, row)
      BY <1>2 DEF AppendedToSpill
    <2>2. y.spill.mapped = x.spill.mapped /\ Len(x.spill.file) <= Len(y.spill.file)
      BY <1>1, <2>1, WriteBytes, ZenonT(60)
    <2>3. /\ x.spill.mapped <= Len(x.spill.file)
          /\ \/ x.spill.mapped \in {0, Len(Written(x.spill))}
             \/ \E i \in 1 .. m : x.spill.mapped = x.offs[i][2]
      BY <1>1, <2>1 DEF Cached, Mapped
    <2>4. y.spill.mapped <= Len(y.spill.file)
      <3>1. /\ y.spill.mapped \in Nat /\ Len(x.spill.file) \in Nat /\ Len(y.spill.file) \in Nat
        <4>1. y.spill \in Spill
          BY <1>2 DEF Builder
        <4> QED
          BY <1>1, <4>1 DEF Spill
      <3> QED
        BY <2>2, <2>3, <3>1
    <2>5. \/ y.spill.mapped = 0
          \/ \E i \in 1 .. n : y.spill.mapped = y.offs[i][2]
      <3>1. CASE x.spill.mapped = 0
        BY <2>2, <3>1
      <3>2. CASE x.spill.mapped = Len(Written(x.spill))
        <4>1. n \in 1 .. n
          BY <1>1
        <4> HIDE DEF n
        <4> QED
          BY <1>4, <2>1, <2>2, <3>2, <4>1
      <3>3. CASE \E i \in 1 .. m : x.spill.mapped = x.offs[i][2]
        <4>1. PICK i \in 1 .. m : x.spill.mapped = x.offs[i][2]
          BY <3>3
        <4>2. i \in 1 .. n
          BY <1>1
        <4> HIDE DEF n
        <4> QED
          BY <1>6, <2>2, <4>1, <4>2
      <3> QED
        BY <2>3, <3>1, <3>2, <3>3
    <2> HIDE DEF n
    <2> QED
      BY <1>3, <2>4, <2>5 DEF Mapped
  <1>12. Cached(y)
    <2>1. Len(x.hashes) \in Nat /\ Len(x.hashes) <= m /\ x.checked <= m /\ x.checked \in Nat
      BY <1>1 DEF Cached, Builder
    <2>2. Len(y.hashes) <= Rows(y) /\ y.checked <= Rows(y)
      BY <1>1, <1>2, <1>3, <2>1
    <2>3. \A i \in 1 .. Len(x.hashes) : i \in 1 .. m /\ x.hashes[i] = Hash[KeyOf(x, i)]
      BY <1>1, <2>1 DEF Cached
    <2>4. \A i \in 1 .. Len(y.hashes) : y.hashes[i] = Hash[KeyOf(y, i)]
      BY <1>2, <1>6, <2>3
    <2> QED
      BY <1>11, <2>2, <2>4 DEF Cached
  <1>13. Entries(y) = Append(Entries(x), e)
    <2> DEFINE s == Entries(x)
               t == Entries(y)
               u == Append(s, e)
    <2>1. s \in Seq(AllEntries) /\ Len(s) = m /\ t \in Seq(AllEntries) /\ Len(t) = n
      BY <1>1, <1>3, <1>10, EntriesSeq
    <2>2. e \in AllEntries
      BY <1>5 DEF AllEntries
    <2>3. \A i \in 1 .. m : s[i] = Entry(x, i)
      BY DEF Entries
    <2>4. \A i \in 1 .. n : t[i] = Entry(y, i)
      BY <1>3 DEF Entries
    <2>5. \A i \in 1 .. m : Entry(y, i) = Entry(x, i)
      BY <1>6 DEF Entry
    <2>6. Entry(y, n) = e
      BY <1>4 DEF Entry
    <2>7. n \in 1 .. n /\ \A i \in 1 .. m : i \in 1 .. n
      BY <1>1
    <2> HIDE DEF s, t, e
    <2>8. u \in Seq(AllEntries) /\ Len(u) = n /\ u[n] = e /\ \A i \in 1 .. m : u[i] = s[i]
      BY <2>1, <2>2, AppendProperties
    <2> HIDE DEF u, n
    <2>9. \A i \in 1 .. n : t[i] = u[i]
      BY <1>7, <2>3, <2>4, <2>5, <2>6, <2>7, <2>8
    <2>10. t = u
      BY <2>1, <2>8, <2>9, SeqEqual
    <2> QED
      BY <2>10 DEF t, u, s
  <1> QED
    BY <1>3, <1>10, <1>12, <1>13 DEF Sound, y, e

----------------------------------------------------------------------------
\* The rows of a source.

\* The sink after the first m rows, as a function of their number.
SinksTo(x, src, g, m) ==
    g = [n \in 0 .. m |-> IF n = 0 THEN [b |-> x, limit |-> Ok] ELSE SinkAdd(g[n - 1], src, n)]

\* There is a sink after every number of rows.
LEMMA SinksExist ==
    ASSUME NEW x, NEW src, NEW len \in Nat
    PROVE  \E g : SinksTo(x, src, g, len)
  <1> DEFINE base == [b |-> x, limit |-> Ok]
             Missing == {m \in Nat : ~\E g : SinksTo(x, src, g, m)}
  <1> HIDE DEF base
  <1>1. SUFFICES ASSUME Missing # {} PROVE FALSE
    OBVIOUS
  <1>2. PICK m \in Missing : \A k \in Missing : m <= k
    <2> HIDE DEF Missing
    <2>1. Missing \in SUBSET Nat
      BY DEF Missing
    <2> QED
      BY <1>1, <2>1, LeastNatural
  <1>3. m \in Nat /\ ~\E g : SinksTo(x, src, g, m)
    OBVIOUS
  <1>4. CASE m = 0
    <2> DEFINE g == [n \in 0 .. 0 |-> base]
    <2>1. SinksTo(x, src, g, 0)
      BY DEF SinksTo, base
    <2> QED
      BY <1>3, <1>4, <2>1
  <1>5. CASE m # 0
    <2>1. m - 1 \in Nat /\ ~(m <= m - 1)
      BY <1>3, <1>5
    <2>2. \E g : SinksTo(x, src, g, m - 1)
      BY <1>2, <2>1
    <2>3. PICK g : SinksTo(x, src, g, m - 1)
      BY <2>2
    <2> DEFINE h == [n \in 0 .. m |-> IF n = m THEN SinkAdd(g[m - 1], src, m) ELSE g[n]]
    <2>4. \A n \in 0 .. m - 1 : g[n] = IF n = 0 THEN base ELSE SinkAdd(g[n - 1], src, n)
      BY <2>3 DEF SinksTo, base
    <2>5. \A n \in 0 .. m : h[n] = IF n = m THEN SinkAdd(g[m - 1], src, m) ELSE g[n]
      OBVIOUS
    <2>6. ASSUME NEW n \in 0 .. m PROVE h[n] = IF n = 0 THEN base ELSE SinkAdd(h[n - 1], src, n)
      <3>1. CASE n = m
        <4>1. h[n] = SinkAdd(g[m - 1], src, m) /\ n # 0
          BY <1>5, <2>5, <3>1
        <4>2. h[n - 1] = g[m - 1]
          <5>1. n - 1 \in 0 .. m /\ n - 1 # m /\ n - 1 = m - 1
            BY <1>3, <1>5, <3>1
          <5> QED
            BY <2>5, <5>1
        <4> QED
          BY <3>1, <4>1, <4>2
      <3>2. CASE n # m
        <4>1. n \in 0 .. m - 1 /\ h[n] = g[n]
          BY <1>3, <2>5, <3>2
        <4>2. n # 0 => h[n - 1] = g[n - 1]
          <5>1. n # 0 => n - 1 \in 0 .. m /\ n - 1 # m
            BY <1>3
          <5> QED
            BY <2>5, <5>1
        <4> HIDE DEF h
        <4> QED
          BY <2>4, <4>1, <4>2
      <3> QED
        BY <3>1, <3>2
    <2>7. h = [n \in 0 .. m |-> h[n]]
      OBVIOUS
    <2> HIDE DEF h
    <2>8. SinksTo(x, src, h, m)
      BY <2>6, <2>7 DEF SinksTo, base
    <2> QED
      BY <1>3, <2>8
  <1> QED
    BY <1>4, <1>5

\* The sink after n rows is the one before with row n added.
LEMMA SinksStep ==
    ASSUME NEW x, NEW src, Len(src.rows) \in Nat
    PROVE  /\ Sinks(x, src)[0] = [b |-> x, limit |-> Ok]
           /\ \A n \in 1 .. Len(src.rows) :
                 Sinks(x, src)[n] = SinkAdd(Sinks(x, src)[n - 1], src, n)
  <1> DEFINE len == Len(src.rows)
             f == Sinks(x, src)
  <1>1. \E g : SinksTo(x, src, g, len)
    BY SinksExist
  <1>2. f = CHOOSE g : SinksTo(x, src, g, len)
    BY DEF Sinks, SinksTo
  <1> HIDE DEF f, len
  <1>3. SinksTo(x, src, f, len)
    BY <1>1, <1>2
  <1>4. \A n \in 0 .. len : f[n] = IF n = 0 THEN [b |-> x, limit |-> Ok] ELSE SinkAdd(f[n - 1], src, n)
    BY <1>3 DEF SinksTo
  <1>5. len \in Nat
    BY DEF len
  <1>6. 0 \in 0 .. len /\ \A n \in 1 .. len : n \in 0 .. len /\ n # 0
    BY <1>5
  <1>7. f[0] = [b |-> x, limit |-> Ok] /\ \A n \in 1 .. len : f[n] = SinkAdd(f[n - 1], src, n)
    BY <1>4, <1>6
  <1> QED
    BY <1>7 DEF f, len

----------------------------------------------------------------------------
\* The first duplicate.

\* With hashes of all keys, two rows have the same key for the code if they have it.
LEMMA SameKeyMeans ==
    ASSUME NEW x, Sound(x), Len(x.hashes) = Rows(x), NEW q \in 1 .. Rows(x), NEW r \in 1 .. Rows(x)
    PROVE  SameKey(x, q, r) <=> Entries(x)[q].key = Entries(x)[r].key
  <1>1. Stored(x) /\ Mapped(x) /\ \A i \in 1 .. Rows(x) : x.hashes[i] = Hash[KeyOf(x, i)]
    BY DEF Sound, Cached
  <1>2. RowKey(x, q) = KeyOf(x, q) /\ RowKey(x, r) = KeyOf(x, r)
    BY <1>1, ReadRow
  <1>3. Entries(x)[q].key = KeyOf(x, q) /\ Entries(x)[r].key = KeyOf(x, r)
    BY DEF Entries, Entry
  <1> QED
    BY <1>1, <1>2, <1>3 DEF SameKey

\* Row r is the first behind from that repeats a key of list, and q the first that has it.
FirstRepeat(list, from, r, q) ==
    /\ r \in from + 1 .. Len(list) /\ List!Repeats(list, r)
    /\ \A k \in from + 1 .. r - 1 : ~List!Repeats(list, k)
    /\ q \in 1 .. r - 1 /\ list[q].key = list[r].key
    /\ \A k \in 1 .. q - 1 : list[k].key # list[r].key

Duplicated(list, from, outcome) ==
    \/ /\ \A r \in from + 1 .. Len(list) : ~List!Repeats(list, r)
       /\ outcome = Ok
    \/ \E r, q \in Nat : /\ FirstRepeat(list, from, r, q)
                         /\ outcome = Result("dup", list[r].line, list[q].line)

\* The least of a nonempty set of numbers.
LEMMA LeastChosen ==
    ASSUME NEW S \in SUBSET Nat, S # {}
    PROVE  /\ Min(S) \in S /\ \A k \in S : Min(S) <= k
           /\ \A k \in Nat : k < Min(S) => k \notin S
  <1>1. Min(S) \in S /\ \A k \in S : Min(S) <= k
    <2>1. \E n \in S : \A k \in S : n <= k
      BY LeastNatural
    <2> QED
      BY <2>1 DEF Min
  <1> DEFINE m == Min(S)
  <1>2. m \in Nat /\ \A k \in S : m <= k /\ k \in Nat
    BY <1>1
  <1> HIDE DEF m
  <1>3. \A k \in Nat : k < m => k \notin S
    BY <1>2
  <1> QED
    BY <1>1, <1>3 DEF m

\* firstDuplicate reports the first row that repeats a key, and the first row that has it.
LEMMA DuplicateFound ==
    ASSUME NEW x, Sound(x), NEW from \in Nat,
           (Rows(x) > from /\ Rows(x) >= 2) => Len(x.hashes) = Rows(x)
    PROVE  Duplicated(Entries(x), from, FirstDuplicate(x, from))
  <1> DEFINE E == Entries(x)
             n == Rows(x)
             dups == {r \in from + 1 .. n : \E q \in 1 .. r - 1 : SameKey(x, q, r)}
             best == Min(dups)
             firsts == {q \in 1 .. best - 1 : SameKey(x, q, best)}
             first == Min(firsts)
  <1>1. n \in Nat /\ Len(E) = n
    BY EntriesSeq DEF Sound
  <1>2. FirstDuplicate(x, from) = IF n < 2 \/ dups = {} THEN Ok
                                  ELSE Result("dup", x.lines[best], x.lines[first])
    BY DEF FirstDuplicate
  <1>3. CASE ~(n > from /\ n >= 2)
    <2>1. \A r \in from + 1 .. n : ~\E q \in 1 .. r - 1 : TRUE
      BY <1>1, <1>3
    <2>2. dups = {}
      BY <2>1
    <2>3. \A r \in from + 1 .. Len(E) : ~List!Repeats(E, r)
      BY <1>1, <2>1 DEF List!Repeats
    <2> QED
      BY <1>2, <2>2, <2>3 DEF Duplicated
  <1>4. CASE n > from /\ n >= 2
    <2>1. \A q, r \in 1 .. n : SameKey(x, q, r) <=> E[q].key = E[r].key
      BY <1>4, SameKeyMeans
    <2>2. \A r \in from + 1 .. n : r \in 1 .. n /\ \A q \in 1 .. r - 1 : q \in 1 .. n
      BY <1>1
    <2> HIDE DEF n, E
    <2>3. \A r \in from + 1 .. n : r \in dups <=> List!Repeats(E, r)
      BY <2>1, <2>2 DEF List!Repeats
    <2>4. CASE dups = {}
      BY <1>1, <1>2, <2>3, <2>4 DEF Duplicated, E
    <2>5. CASE dups # {}
      <3>1. dups \in SUBSET Nat
        BY <1>1
      <3>2. best \in dups /\ \A k \in Nat : k < best => k \notin dups
        <4> HIDE DEF dups
        <4> QED
          BY <2>5, <3>1, LeastChosen
      <3>3. best \in from + 1 .. n /\ best \in Nat
        BY <1>1, <3>2
      <3> HIDE DEF best
      <3>4. \A q \in 1 .. best - 1 : SameKey(x, q, best) <=> E[q].key = E[best].key
        BY <2>1, <2>2, <3>3
      <3>5. firsts \in SUBSET Nat /\ firsts # {}
        BY <3>2, <3>3
      <3>6. first \in firsts /\ \A k \in Nat : k < first => k \notin firsts
        <4> HIDE DEF firsts
        <4> QED
          BY <3>5, LeastChosen
      <3>7. first \in 1 .. best - 1 /\ first \in Nat /\ E[first].key = E[best].key
        BY <3>3, <3>4, <3>6
      <3>8. \A k \in 1 .. first - 1 : E[k].key # E[best].key
        <4> TAKE k \in 1 .. first - 1
        <4> HIDE DEF first
        <4>1. k \in Nat /\ k < first /\ k \in 1 .. best - 1
          BY <3>3, <3>7
        <4>2. k \notin firsts
          BY <3>6, <4>1
        <4> QED
          BY <3>4, <4>1, <4>2
      <3>9. \A k \in from + 1 .. best - 1 : ~List!Repeats(E, k)
        <4> TAKE k \in from + 1 .. best - 1
        <4>1. k \in Nat /\ k < best /\ k \in from + 1 .. n
          BY <1>1, <3>3
        <4>2. k \notin dups
          BY <3>2, <4>1
        <4> QED
          BY <2>3, <4>1, <4>2
      <3> HIDE DEF first
      <3>10. FirstRepeat(E, from, best, first)
        BY <1>1, <2>3, <3>2, <3>3, <3>7, <3>8, <3>9 DEF FirstRepeat
      <3>11. E[best].line = x.lines[best] /\ E[first].line = x.lines[first]
        <4>1. best \in 1 .. n /\ first \in 1 .. n
          BY <2>2, <3>3, <3>7
        <4> QED
          BY <4>1 DEF E, n, Entries, Entry
      <3>12. FirstDuplicate(x, from) = Result("dup", E[best].line, E[first].line)
        BY <1>2, <1>4, <2>5, <3>11 DEF best, first, n
      <3> QED
        BY <3>3, <3>7, <3>10, <3>12 DEF Duplicated, E
    <2> QED
      BY <2>4, <2>5
  <1> QED
    BY <1>3, <1>4

\* The error of the row list for row r, if q is the first row with its key.
LEMMA DuplicateErrorIs ==
    ASSUME NEW list, NEW from \in Nat, NEW r \in Nat, NEW q \in Nat, FirstRepeat(list, from, r, q)
    PROVE  List!DuplicateError(list, r) = Result("dup", list[r].line, list[q].line)
  <1> DEFINE P(m) == /\ list[m].key = list[r].key
                     /\ \A k \in 1 .. m - 1 : list[k].key # list[r].key
  <1>1. q \in 1 .. r - 1 /\ P(q)
    BY DEF FirstRepeat
  <1>2. \A m \in 1 .. r - 1 : P(m) => m = q
    <2> SUFFICES ASSUME NEW m \in 1 .. r - 1, P(m) PROVE m = q
      OBVIOUS
    <2>1. ~(m < q)
      <3> SUFFICES ASSUME m < q PROVE FALSE
        OBVIOUS
      <3>1. m \in 1 .. q - 1
        BY <1>1
      <3> QED
        BY <1>1, <3>1
    <2>2. ~(q < m)
      <3> SUFFICES ASSUME q < m PROVE FALSE
        OBVIOUS
      <3>1. q \in 1 .. m - 1
        BY <1>1
      <3> QED
        BY <1>1, <3>1
    <2> QED
      BY <1>1, <2>1, <2>2
  <1>3. (CHOOSE m \in 1 .. r - 1 : P(m)) = q
    <2> HIDE DEF P
    <2> QED
      BY <1>1, <1>2
  <1> QED
    BY <1>3 DEF List!DuplicateError, List!Result, Result

\* The precedence rule: the first row behind from that is too long or repeats a key.
BadRow(list, n) == List!TooLong(list[n]) \/ List!Repeats(list, n)

LEMMA FirstErrorIs ==
    ASSUME NEW list, NEW from \in Nat, Len(list) \in Nat
    PROVE  /\ (\A n \in from + 1 .. Len(list) : ~BadRow(list, n)) => List!FirstError(list, from) = Ok
           /\ \A n \in from + 1 .. Len(list) :
                 BadRow(list, n) /\ (\A k \in from + 1 .. n - 1 : ~BadRow(list, k))
                 => List!FirstError(list, from) = IF List!TooLong(list[n])
                                                  THEN Result("limit", list[n].line, 0)
                                                  ELSE List!DuplicateError(list, n)
  <1> DEFINE bad == {n \in from + 1 .. Len(list) : List!TooLong(list[n]) \/ List!Repeats(list, n)}
             first == CHOOSE m \in bad : \A k \in bad : m <= k
  <1>1. List!FirstError(list, from) =
            IF bad = {} THEN Ok
            ELSE IF List!TooLong(list[first]) THEN Result("limit", list[first].line, 0)
                 ELSE List!DuplicateError(list, first)
    BY DEF List!FirstError, List!Ok, List!Result, Ok, Result
  <1>2. \A n : n \in bad <=> n \in from + 1 .. Len(list) /\ BadRow(list, n)
    BY DEF BadRow
  <1>3. ASSUME NEW n \in from + 1 .. Len(list), BadRow(list, n),
               \A k \in from + 1 .. n - 1 : ~BadRow(list, k)
        PROVE  bad # {} /\ first = n
    <2>1. n \in bad
      BY <1>2, <1>3
    <2>2. \A k \in bad : k \in Nat /\ n <= k
      <3> TAKE k \in bad
      <3>1. k \in from + 1 .. Len(list) /\ BadRow(list, k)
        BY <1>2
      <3>2. k \notin from + 1 .. n - 1
        BY <1>3, <3>1
      <3> QED
        BY <3>1, <3>2
    <2>3. \A m \in bad : (\A k \in bad : m <= k) => m = n
      <3> SUFFICES ASSUME NEW m \in bad, \A k \in bad : m <= k PROVE m = n
        OBVIOUS
      <3>1. m <= n /\ n <= m /\ m \in Nat /\ n \in Nat
        BY <2>1, <2>2
      <3> QED
        BY <3>1
    <2> HIDE DEF bad
    <2> QED
      BY <2>1, <2>2, <2>3
  <1> HIDE DEF bad, first
  <1>4. (\A n \in from + 1 .. Len(list) : ~BadRow(list, n)) => bad = {}
    BY <1>2
  <1> QED
    BY <1>1, <1>3, <1>4

----------------------------------------------------------------------------
\* What a source leaves in the store.

\* The list of rows when every row of the source is accepted.
SourceRows(src) == [n \in 1 .. Len(src.rows) |->
                       [key |-> src.rows[n].key, val |-> src.rows[n].val, line |-> n]]
AllRows(x, src) == Entries(x) \o SourceRows(src)

LEMMA AllRowsFields ==
    ASSUME NEW x, Stored(x), NEW src, src.rows \in Seq(Row)
    PROVE  LET all == AllRows(x, src)
           IN  /\ all \in Seq(AllEntries) /\ Len(src.rows) \in Nat /\ Rows(x) \in Nat
               /\ Len(all) = Rows(x) + Len(src.rows)
               /\ \A i \in 1 .. Rows(x) : all[i] = Entries(x)[i]
               /\ \A n \in 1 .. Len(src.rows) :
                     /\ src.rows[n] \in Row
                     /\ all[Rows(x) + n] = [key |-> src.rows[n].key, val |-> src.rows[n].val, line |-> n]
  <1> DEFINE s == Entries(x)
             t == SourceRows(src)
             len == Len(src.rows)
             all == s \o t
             e(n) == [key |-> src.rows[n].key, val |-> src.rows[n].val, line |-> n]
  <1>1. s \in Seq(AllEntries) /\ Len(s) = Rows(x) /\ Rows(x) \in Nat
    BY EntriesSeq
  <1>2. len \in Nat /\ \A n \in 1 .. len : src.rows[n] \in Row
    BY ElementOfSeq
  <1>3. t = [n \in 1 .. len |-> e(n)]
    BY DEF SourceRows
  <1> HIDE DEF len
  <1>4. \A n \in 1 .. len : e(n) \in AllEntries
    BY <1>2 DEF Row, AllEntries
  <1> HIDE DEF e
  <1>5. t \in [1 .. len -> AllEntries]
    BY <1>3, <1>4
  <1>6. t \in Seq(AllEntries) /\ Len(t) = len /\ \A n \in 1 .. len : t[n] = e(n)
    BY <1>2, <1>3, <1>5, FunctionSeq
  <1> HIDE DEF s, t
  <1>7. /\ all \in Seq(AllEntries) /\ Len(all) = Len(s) + Len(t)
        /\ \A i \in 1 .. Len(s) + Len(t) : all[i] = IF i <= Len(s) THEN s[i] ELSE t[i - Len(s)]
    BY <1>1, <1>6, ConcatProperties
  <1> DEFINE m == Rows(x)
  <1> HIDE DEF all
  <1>8. Len(all) = m + len /\ \A i \in 1 .. m + len : all[i] = IF i <= m THEN s[i] ELSE t[i - m]
    BY <1>1, <1>6, <1>7
  <1>9. m \in Nat /\ len \in Nat
    BY <1>1, <1>2
  <1> HIDE DEF m
  <1>10. \A i \in 1 .. m : all[i] = s[i]
    BY <1>8, <1>9
  <1>11. \A n \in 1 .. len : all[m + n] = t[n]
    <2> TAKE n \in 1 .. len
    <2>1. m + n \in 1 .. m + len /\ ~(m + n <= m) /\ (m + n) - m = n
      BY <1>9
    <2> QED
      BY <1>8, <2>1
  <1> QED
    BY <1>2, <1>6, <1>7, <1>8, <1>9, <1>10, <1>11 DEF e, m, len, all, s, t, AllRows

\* y is x with the first n rows of the source.
Added(x, src, n, y) ==
    /\ Sound(y) /\ Grows(x, y) /\ Rows(y) = Rows(x) + n
    /\ \A i \in 1 .. Rows(x) + n : Entries(y)[i] = AllRows(x, src)[i]

\* Row n is the first that is too long.
FirstLong(src, n) == TooLong(src.rows[n]) /\ \A i \in 1 .. n - 1 : ~TooLong(src.rows[i])

\* After n rows: all of them are in the store, or those before the first that is too long.
Reading(x, src, n, sink) ==
    /\ sink.limit = Ok /\ Added(x, src, n, sink.b)
    /\ \A i \in 1 .. n : ~TooLong(src.rows[i])
Limited(x, src, n, sink) ==
    \E j \in 1 .. n : /\ sink.limit = Result("limit", j, 0)
                      /\ FirstLong(src, j) /\ Added(x, src, j - 1, sink.b)
SinkState(x, src, n, sink) == Reading(x, src, n, sink) \/ Limited(x, src, n, sink)

LEMMA SinkStarts ==
    ASSUME NEW x, Sound(x), NEW src, src.rows \in Seq(Row)
    PROVE  SinkState(x, src, 0, [b |-> x, limit |-> Ok])
  <1>1. Rows(x) \in Nat /\ \A i \in 1 .. Rows(x) : AllRows(x, src)[i] = Entries(x)[i]
    BY AllRowsFields DEF Sound
  <1>2. Rows(x) + 0 = Rows(x)
    BY <1>1
  <1>3. Grows(x, x)
    BY GrowsSelf DEF Sound, Stored
  <1>4. Added(x, src, 0, x)
    BY <1>1, <1>2, <1>3 DEF Added
  <1>5. \A i \in 1 .. 0 : FALSE
    OBVIOUS
  <1> QED
    BY <1>4, <1>5 DEF SinkState, Reading

LEMMA SinkContinues ==
    ASSUME NEW x, Sound(x), NEW src, src.rows \in Seq(Row), NEW n \in 1 .. Len(src.rows),
           NEW sink, sink = [b |-> sink.b, limit |-> sink.limit],
           SinkState(x, src, n - 1, sink)
    PROVE  SinkState(x, src, n, SinkAdd(sink, src, n))
  <1> DEFINE all == AllRows(x, src)
             m == Rows(x)
             e == [key |-> src.rows[n].key, val |-> src.rows[n].val, line |-> n]
  <1>1. /\ m \in Nat /\ Len(src.rows) \in Nat /\ n \in Nat /\ n - 1 \in Nat
        /\ src.rows[n] \in Row /\ all[m + n] = e
    BY AllRowsFields DEF Sound
  <1>2. CASE Reading(x, src, n - 1, sink)
    <2>1. ~Stopped(sink) /\ Added(x, src, n - 1, sink.b)
          /\ \A i \in 1 .. n - 1 : ~TooLong(src.rows[i])
      BY <1>2 DEF Reading, Stopped
    <2>2. CASE TooLong(src.rows[n])
      <3> DEFINE t == SinkAdd(sink, src, n)
      <3>1. t = [sink EXCEPT !.limit = Result("limit", n, 0)]
        BY <2>1, <2>2 DEF SinkAdd
      <3>2. t.b = sink.b /\ t.limit = Result("limit", n, 0)
        BY <3>1
      <3>3. FirstLong(src, n) /\ n \in 1 .. n
        BY <1>1, <2>1, <2>2 DEF FirstLong
      <3> HIDE DEF t
      <3>4. Limited(x, src, n, t)
        BY <2>1, <3>2, <3>3 DEF Limited
      <3> QED
        BY <3>4 DEF SinkState, t
    <2>3. CASE ~TooLong(src.rows[n])
      <3> DEFINE t == SinkAdd(sink, src, n)
                 y == sink.b
                 z == AppendRow(y, src.rows[n], n)
      <3>1. t = [sink EXCEPT !.b = z]
        BY <2>1, <2>3 DEF SinkAdd
      <3>2. t.b = z /\ t.limit = Ok
        BY <1>2, <3>1 DEF Reading
      <3>3. /\ Sound(y) /\ Grows(x, y) /\ Rows(y) = m + (n - 1)
            /\ \A i \in 1 .. m + (n - 1) : Entries(y)[i] = all[i]
        BY <2>1 DEF Added
      <3>4. /\ Sound(z) /\ Grows(y, z) /\ Rows(z) = Rows(y) + 1
            /\ Entries(z) = Append(Entries(y), e)
        BY <1>1, <2>3, <3>3, AppendSound
      <3> HIDE DEF y, z, t
      <3>5. Rows(z) = m + n
        BY <1>1, <3>3, <3>4
      <3>6. Grows(x, z)
        BY <3>3, <3>4, GrowsTransitive DEF Sound, Stored
      <3>7. \A i \in 1 .. m + n : Entries(z)[i] = all[i]
        <4> DEFINE E == Entries(y)
                   k == m + (n - 1)
        <4>1. E \in Seq(AllEntries) /\ Len(E) = k
          BY <3>3, EntriesSeq DEF Sound
        <4>2. e \in AllEntries
          BY <1>1 DEF Row, AllEntries
        <4> HIDE DEF E, e
        <4>3. /\ Append(E, e)[Len(E) + 1] = e
              /\ \A i \in 1 .. Len(E) : Append(E, e)[i] = E[i]
          BY <4>1, <4>2, AppendProperties
        <4>4. k + 1 = m + n /\ \A i \in 1 .. m + n : i \in 1 .. k \/ i = m + n
          <5>1. \A c, d \in Nat : /\ (c + (d - 1)) + 1 = c + d
                                  /\ \A i \in 1 .. c + d : i \in 1 .. c + (d - 1) \/ i = c + d
            OBVIOUS
          <5> HIDE DEF m
          <5> QED
            BY <1>1, <5>1
        <4> HIDE DEF k
        <4> QED
          BY <1>1, <3>3, <3>4, <4>1, <4>3, <4>4 DEF E, k
      <3>8. Added(x, src, n, z)
        BY <3>4, <3>5, <3>6, <3>7 DEF Added
      <3>9. \A i \in 1 .. n : ~TooLong(src.rows[i])
        <4>1. \A i \in 1 .. n : i \in 1 .. n - 1 \/ i = n
          BY <1>1
        <4> QED
          BY <2>1, <2>3, <4>1
      <3>10. Reading(x, src, n, t)
        BY <3>2, <3>8, <3>9 DEF Reading
      <3> QED
        BY <3>10 DEF SinkState, t
    <2> QED
      BY <2>2, <2>3
  <1>3. CASE Limited(x, src, n - 1, sink)
    <2>1. PICK j \in 1 .. n - 1 : /\ sink.limit = Result("limit", j, 0)
                                  /\ FirstLong(src, j) /\ Added(x, src, j - 1, sink.b)
      BY <1>3 DEF Limited
    <2>2. Stopped(sink)
      BY <2>1 DEF Stopped, Result, Ok
    <2>3. SinkAdd(sink, src, n) = sink
      BY <2>2 DEF SinkAdd
    <2>4. j \in 1 .. n
      BY <1>1
    <2>5. Limited(x, src, n, sink)
      BY <2>1, <2>4 DEF Limited
    <2> QED
      BY <2>3, <2>5 DEF SinkState
  <1> QED
    BY <1>2, <1>3 DEF SinkState

LEMMA SinkAddFields ==
    ASSUME NEW sink, sink = [b |-> sink.b, limit |-> sink.limit], NEW src, NEW n
    PROVE  LET t == SinkAdd(sink, src, n) IN t = [b |-> t.b, limit |-> t.limit]
  BY DEF SinkAdd

\* parse, whose rows go through rowSink.add.
LEMMA ParseSound ==
    ASSUME NEW x, Sound(x), NEW src, src.rows \in Seq(Row)
    PROVE  SinkState(x, src, Len(src.rows), Parse(x, src))
  <1> DEFINE f == Sinks(x, src)
             len == Len(src.rows)
             P(n) == SinkState(x, src, n, f[n]) /\ f[n] = [b |-> f[n].b, limit |-> f[n].limit]
             T == {n \in 0 .. len : ~P(n)}
  <1>1. len \in Nat
    OBVIOUS
  <1>2. f[0] = [b |-> x, limit |-> Ok] /\ \A n \in 1 .. len : f[n] = SinkAdd(f[n - 1], src, n)
    BY <1>1, SinksStep
  <1> HIDE DEF f
  <1>3. P(0)
    BY <1>2, SinkStarts
  <1>4. ASSUME NEW n \in 1 .. len, P(n - 1) PROVE P(n)
    BY <1>2, <1>4, SinkContinues, SinkAddFields
  <1> HIDE DEF P, len
  <1>5. T = {}
    <2> SUFFICES ASSUME T # {} PROVE FALSE
      OBVIOUS
    <2>1. T \in SUBSET Nat
      BY <1>1
    <2>2. PICK n \in T : \A k \in T : n <= k
      <3> HIDE DEF T
      <3> QED
        BY <2>1, LeastNatural
    <2>3. n \in 0 .. len /\ ~P(n)
      OBVIOUS
    <2>4. n # 0
      BY <1>3, <2>3
    <2>5. n \in 1 .. len /\ n - 1 \in 0 .. len /\ ~(n <= n - 1)
      BY <1>1, <2>3, <2>4
    <2>6. P(n - 1)
      BY <2>2, <2>5
    <2> QED
      BY <1>4, <2>3, <2>5, <2>6
  <1>6. len \in 0 .. len
    BY <1>1
  <1>7. P(len)
    BY <1>5, <1>6
  <1> QED
    BY <1>7 DEF P, Parse, f, len

\* Of list, whose rows behind from are numbered from 1 on, part was read: all of it, or
\* the rows before the first behind from that is too long.
ReadUpTo(list, part, from, limit) ==
    LET k == Len(part)
    IN  /\ k \in from .. Len(list) /\ \A i \in 1 .. k : part[i] = list[i]
        /\ \A i \in from + 1 .. Len(list) : list[i].line = i - from
        /\ \A i \in from + 1 .. k : ~List!TooLong(list[i])
        /\ \/ k = Len(list) /\ limit = Ok
           \/ k < Len(list) /\ List!TooLong(list[k + 1]) /\ limit = Result("limit", list[k + 1].line, 0)

\* Of the first row that is too long and the first that repeats a key before it, the
\* earlier is reported.
LEMMA Precedence ==
    ASSUME NEW list, NEW part, NEW from \in Nat, Len(list) \in Nat,
           NEW limit, NEW dup, Duplicated(part, from, dup), ReadUpTo(list, part, from, limit)
    PROVE  (IF limit # Ok THEN LimitOrDuplicate(limit, dup) ELSE dup) = List!FirstError(list, from)
  <1>1. /\ (\A n \in from + 1 .. Len(list) : ~BadRow(list, n)) => List!FirstError(list, from) = Ok
        /\ \A n \in from + 1 .. Len(list) :
              BadRow(list, n) /\ (\A i \in from + 1 .. n - 1 : ~BadRow(list, i))
              => List!FirstError(list, from) = IF List!TooLong(list[n])
                                               THEN Result("limit", list[n].line, 0)
                                               ELSE List!DuplicateError(list, n)
    BY FirstErrorIs
  <1> DEFINE len == Len(list)
             k == Len(part)
  <1>0. /\ k \in from .. len /\ \A i \in 1 .. k : part[i] = list[i]
        /\ \A i \in from + 1 .. len : list[i].line = i - from
        /\ \A i \in from + 1 .. k : ~List!TooLong(list[i])
        /\ \/ k = len /\ limit = Ok
           \/ k < len /\ List!TooLong(list[k + 1]) /\ limit = Result("limit", list[k + 1].line, 0)
    BY DEF ReadUpTo
  <1>7. \/ (\A r \in from + 1 .. k : ~List!Repeats(part, r)) /\ dup = Ok
        \/ \E r, q \in Nat : /\ FirstRepeat(part, from, r, q)
                             /\ dup = Result("dup", part[r].line, part[q].line)
    BY DEF Duplicated
  <1> HIDE DEF k
  <1>2. len \in Nat /\ k \in Nat /\ from \in Nat /\ from <= k /\ k <= len
    BY <1>0
  <1>3. \A n \in from + 1 .. k : List!Repeats(part, n) <=> List!Repeats(list, n)
    <2> TAKE n \in from + 1 .. k
    <2>1. n \in 1 .. k /\ \A q \in 1 .. n - 1 : q \in 1 .. k
      BY <1>2
    <2> QED
      BY <1>0, <2>1 DEF List!Repeats
  <1>4. \A n \in from + 1 .. k : BadRow(list, n) <=> List!Repeats(part, n)
    BY <1>0, <1>3 DEF BadRow
  <1>5. CASE (\A r \in from + 1 .. k : ~List!Repeats(part, r)) /\ dup = Ok
    <2>1. \A n \in from + 1 .. k : ~BadRow(list, n)
      BY <1>4, <1>5
    <2>2. CASE k = len /\ limit = Ok
      BY <1>1, <1>5, <2>1, <2>2
    <2>3. CASE k < len /\ List!TooLong(list[k + 1]) /\ limit = Result("limit", list[k + 1].line, 0)
      <3>1. k + 1 \in from + 1 .. Len(list) /\ (k + 1) - 1 = k
        BY <1>2, <2>3
      <3>2. BadRow(list, k + 1)
        BY <2>3 DEF BadRow
      <3>3. List!FirstError(list, from) = limit
        BY <1>1, <2>1, <2>3, <3>1, <3>2
      <3>4. limit # Ok
        BY <2>3 DEF Result, Ok
      <3> QED
        BY <1>5, <3>3, <3>4 DEF LimitOrDuplicate
    <2> QED
      BY <1>0, <2>2, <2>3
  <1>6. CASE \E r, q \in Nat : /\ FirstRepeat(part, from, r, q)
                               /\ dup = Result("dup", part[r].line, part[q].line)
    <2>1. PICK r \in Nat, q \in Nat : /\ FirstRepeat(part, from, r, q)
                                      /\ dup = Result("dup", part[r].line, part[q].line)
      BY <1>6
    <2>2. /\ r \in from + 1 .. k /\ List!Repeats(part, r)
          /\ \A n \in from + 1 .. r - 1 : ~List!Repeats(part, n)
          /\ q \in 1 .. r - 1 /\ part[q].key = part[r].key
          /\ \A n \in 1 .. q - 1 : part[n].key # part[r].key
      BY <2>1 DEF FirstRepeat, k
    <2>3. /\ r \in from + 1 .. Len(list) /\ r \in 1 .. k /\ q \in 1 .. k
          /\ \A n \in 1 .. q - 1 : n \in 1 .. k
          /\ \A n \in from + 1 .. r - 1 : n \in from + 1 .. k
      BY <1>2, <2>2
    <2>4. FirstRepeat(list, from, r, q)
      <3>1. List!Repeats(list, r) /\ \A n \in from + 1 .. r - 1 : ~List!Repeats(list, n)
        BY <1>3, <2>2, <2>3
      <3>2. list[q].key = list[r].key /\ \A n \in 1 .. q - 1 : list[n].key # list[r].key
        BY <1>0, <2>2, <2>3
      <3> QED
        BY <2>2, <2>3, <3>1, <3>2 DEF FirstRepeat
    <2>5. dup = Result("dup", list[r].line, list[q].line)
      BY <1>0, <2>1, <2>3
    <2>6. List!DuplicateError(list, r) = dup
      BY <2>4, <2>5, DuplicateErrorIs
    <2>7. BadRow(list, r) /\ \A n \in from + 1 .. r - 1 : ~BadRow(list, n)
      BY <1>4, <2>2, <2>3
    <2>8. List!FirstError(list, from) = dup
      BY <1>0, <1>1, <2>2, <2>3, <2>6, <2>7
    <2>9. CASE k = len /\ limit = Ok
      BY <2>8, <2>9
    <2>10. CASE k < len /\ limit = Result("limit", list[k + 1].line, 0)
      <3>1. k + 1 \in from + 1 .. Len(list)
        BY <1>2, <2>10
      <3>2. list[k + 1].line = (k + 1) - from /\ list[r].line = r - from
        BY <1>0, <2>3, <3>1
      <3>3. dup # Ok /\ dup.line = list[r].line /\ limit.line = list[k + 1].line /\ limit # Ok
        BY <2>5, <2>10 DEF Result, Ok
      <3>4. r - from < (k + 1) - from
        BY <1>2, <2>2
      <3>5. dup.line < limit.line
        BY <3>2, <3>3, <3>4
      <3> QED
        BY <2>8, <3>3, <3>5 DEF LimitOrDuplicate
    <2> QED
      BY <1>0, <2>9, <2>10
  <1> QED
    BY <1>5, <1>6, <1>7

----------------------------------------------------------------------------
\* BuildFrom.

\* The Builder when the source has been read, and the result.
Filled(x, src) ==
    LET y == Parse(x, src).b IN IF src.end = "eof" THEN Hashed(y, Rows(x)) ELSE y
Outcome(x, src) ==
    LET dup == FirstDuplicate(Filled(x, src), Rows(x))
        limit == Parse(x, src).limit
    IN IF src.end # "eof" THEN Result(src.end, 0, 0)
       ELSE IF limit # Ok THEN LimitOrDuplicate(limit, dup) ELSE dup

\* What the row list says of the call.
Promised(x, src) ==
    IF src.end # "eof" THEN Result(src.end, 0, 0) ELSE List!FirstError(AllRows(x, src), Rows(x))

LEMMA FilledSound ==
    ASSUME NEW x, Sound(x), NEW src \in Sources
    PROVE  LET y == Filled(x, src)
               limit == Parse(x, src).limit
           IN  \E k \in 0 .. Len(src.rows) :
                  /\ Added(x, src, k, y)
                  /\ \A i \in 1 .. k : ~TooLong(src.rows[i])
                  /\ \/ k = Len(src.rows) /\ limit = Ok
                     \/ k < Len(src.rows) /\ TooLong(src.rows[k + 1]) /\ limit = Result("limit", k + 1, 0)
                  /\ (src.end = "eof" /\ Rows(y) > Rows(x) /\ Rows(y) >= 2) => Len(y.hashes) = Rows(y)
  <1> DEFINE y == Filled(x, src)
             z == Parse(x, src).b
             limit == Parse(x, src).limit
             len == Len(src.rows)
  <1>1. src.rows \in Seq(Row) /\ len \in Nat /\ Rows(x) \in Nat
    BY SourcesAssumption DEF Sound, Stored, Builder, Rows
  <1>2. SinkState(x, src, len, Parse(x, src))
    BY <1>1, ParseSound
  <1>3. PICK k \in 0 .. len :
           /\ Added(x, src, k, z)
           /\ \A i \in 1 .. k : ~TooLong(src.rows[i])
           /\ \/ k = len /\ limit = Ok
              \/ k < len /\ TooLong(src.rows[k + 1]) /\ limit = Result("limit", k + 1, 0)
    <2>1. CASE Reading(x, src, len, Parse(x, src))
      <3>1. len \in 0 .. len
        BY <1>1
      <3> QED
        BY <2>1, <3>1 DEF Reading
    <2>2. CASE Limited(x, src, len, Parse(x, src))
      <3>1. PICK j \in 1 .. len : /\ limit = Result("limit", j, 0)
                                  /\ FirstLong(src, j) /\ Added(x, src, j - 1, z)
        BY <2>2 DEF Limited
      <3>2. j - 1 \in 0 .. len /\ j - 1 < len /\ (j - 1) + 1 = j
        BY <1>1
      <3> QED
        BY <3>1, <3>2 DEF FirstLong
    <2> QED
      BY <1>2, <2>1, <2>2 DEF SinkState
  <1>4. CASE src.end # "eof"
    <2>1. y = z
      BY <1>4 DEF Filled
    <2> QED
      BY <1>3, <1>4, <2>1
  <1>5. CASE src.end = "eof"
    <2>1. y = Hashed(z, Rows(x))
      BY <1>5 DEF Filled
    <2>2. /\ Sound(z) /\ Grows(x, z) /\ Rows(z) = Rows(x) + k
          /\ \A i \in 1 .. Rows(x) + k : Entries(z)[i] = AllRows(x, src)[i]
      BY <1>3 DEF Added
    <2> HIDE DEF y, z
    <2>3. /\ Sound(y) /\ SameRows(y, z) /\ Rows(y) = Rows(z) /\ Entries(y) = Entries(z)
          /\ y.checked = z.checked
          /\ (Rows(y) > Rows(x) /\ Rows(y) >= 2) => Len(y.hashes) = Rows(y)
      BY <1>1, <2>1, <2>2, HashedSound
    <2>4. Added(x, src, k, y)
      BY <2>2, <2>3, GrowsSame DEF Added
    <2> QED
      BY <1>3, <2>3, <2>4 DEF y
  <1> QED
    BY <1>4, <1>5

\* The result is the one the precedence rule names.
LEMMA OutcomePromised ==
    ASSUME NEW x, Sound(x), NEW src \in Sources
    PROVE  /\ Outcome(x, src) = Promised(x, src)
           /\ Outcome(x, src) = Ok => Added(x, src, Len(src.rows), Filled(x, src))
           /\ \E k \in 0 .. Len(src.rows) : Added(x, src, k, Filled(x, src))
  <1> DEFINE y == Filled(x, src)
             limit == Parse(x, src).limit
             len == Len(src.rows)
             m == Rows(x)
             all == AllRows(x, src)
             part == Entries(y)
             dup == FirstDuplicate(y, m)
  <1>1. src.rows \in Seq(Row) /\ src.end \in {"eof", "malformed"}
    BY SourcesAssumption
  <1>2. /\ len \in Nat /\ m \in Nat /\ Len(all) = m + len
        /\ \A n \in 1 .. len :
              /\ src.rows[n] \in Row
              /\ all[m + n] = [key |-> src.rows[n].key, val |-> src.rows[n].val, line |-> n]
    BY <1>1, AllRowsFields DEF Sound
  <1>3. PICK k \in 0 .. len :
           /\ Added(x, src, k, y)
           /\ \A i \in 1 .. k : ~TooLong(src.rows[i])
           /\ \/ k = len /\ limit = Ok
              \/ k < len /\ TooLong(src.rows[k + 1]) /\ limit = Result("limit", k + 1, 0)
           /\ (src.end = "eof" /\ Rows(y) > m /\ Rows(y) >= 2) => Len(y.hashes) = Rows(y)
    BY FilledSound
  <1>4. CASE src.end # "eof"
    <2>1. Outcome(x, src) = Result("malformed", 0, 0) /\ Promised(x, src) = Result("malformed", 0, 0)
      BY <1>1, <1>4 DEF Outcome, Promised
    <2>2. Outcome(x, src) # Ok
      BY <2>1 DEF Result, Ok
    <2> QED
      BY <1>3, <2>1, <2>2
  <1>5. CASE src.end = "eof"
    <2>1. Sound(y) /\ Rows(y) = m + k /\ \A i \in 1 .. m + k : part[i] = all[i]
      BY <1>3 DEF Added
    <2>2. Len(part) = m + k
      BY <2>1, EntriesSeq DEF Sound
    <2>3. Duplicated(part, m, dup)
      BY <1>2, <1>3, <1>5, <2>1, DuplicateFound
    <2>4. Outcome(x, src) = IF limit # Ok THEN LimitOrDuplicate(limit, dup) ELSE dup
      BY <1>5 DEF Outcome
    <2>5. Promised(x, src) = List!FirstError(all, m)
      BY <1>5 DEF Promised
    <2> HIDE DEF limit, len, m, all, part, dup, y
    <2>6. \A n \in 1 .. len : /\ all[m + n].line = n
                              /\ List!TooLong(all[m + n]) <=> TooLong(src.rows[n])
      <3> TAKE n \in 1 .. len
      <3> DEFINE e == all[m + n]
      <3> HIDE DEF e
      <3>0. e = [key |-> src.rows[n].key, val |-> src.rows[n].val, line |-> n]
        BY <1>2 DEF e
      <3>1. e.key = src.rows[n].key /\ e.val = src.rows[n].val /\ e.line = n
        BY <3>0
      <3>2. List!TooLong(e) <=> TooLong(src.rows[n])
        BY <3>1 DEF List!TooLong, TooLong
      <3> QED
        BY <3>1, <3>2 DEF e
    <2>7. \A i \in m + 1 .. m + len : i - m \in 1 .. len /\ m + (i - m) = i
      BY <1>2
    <2>8. \A i \in m + 1 .. Len(all) : all[i].line = i - m
      BY <1>2, <2>6, <2>7
    <2>9. \A i \in m + 1 .. m + k : i \in m + 1 .. m + len /\ i - m \in 1 .. k
      BY <1>2
    <2>10. \A i \in m + 1 .. m + k : ~List!TooLong(all[i])
      BY <1>3, <2>6, <2>7, <2>9
    <2>11. k \in Nat /\ m + k \in m .. Len(all) /\ Len(all) \in Nat
      BY <1>2
    <2>12. \/ m + k = Len(all) /\ limit = Ok
           \/ /\ m + k < Len(all) /\ List!TooLong(all[m + k + 1])
              /\ limit = Result("limit", all[m + k + 1].line, 0)
      <3>1. CASE k = len /\ limit = Ok
        BY <1>2, <3>1
      <3>2. CASE k < len /\ TooLong(src.rows[k + 1]) /\ limit = Result("limit", k + 1, 0)
        <4>1. k + 1 \in 1 .. len /\ m + (k + 1) = m + k + 1 /\ m + k < Len(all)
          BY <1>2, <2>11, <3>2
        <4>2. List!TooLong(all[m + (k + 1)]) /\ all[m + (k + 1)].line = k + 1
          BY <2>6, <3>2, <4>1
        <4> QED
          BY <3>2, <4>1, <4>2
      <3> QED
        BY <1>3, <3>1, <3>2
    <2>13. Outcome(x, src) = Promised(x, src)
      <3>1. ReadUpTo(all, part, m, limit)
        BY <2>1, <2>2, <2>8, <2>10, <2>11, <2>12 DEF ReadUpTo
      <3> QED
        BY <1>2, <2>3, <2>4, <2>5, <2>11, <3>1, Precedence
    <2>14. ASSUME Outcome(x, src) = Ok PROVE limit = Ok
      <3> SUFFICES ASSUME limit # Ok PROVE FALSE
        OBVIOUS
      <3>1. limit = dup \/ LimitOrDuplicate(limit, dup) = limit \/ dup # Ok
        BY DEF LimitOrDuplicate
      <3> QED
        BY <2>4, <2>14, <3>1 DEF LimitOrDuplicate
    <2>15. limit = Ok => k = len
      BY <1>3 DEF Result, Ok
    <2> QED
      BY <1>3, <2>13, <2>14, <2>15 DEF y, len
  <1> QED
    BY <1>4, <1>5

----------------------------------------------------------------------------
\* The calls.

\* The inductive invariant.
StoreInv == Sound(b) /\ Rows(b) <= MaxRows

\* An empty Builder is sound.
LEMMA NewBuilderSound ==
    ASSUME NEW spill \in {NoFile, NewFile}
    PROVE  Sound(NewBuilder(spill)) /\ Rows(NewBuilder(spill)) = 0 /\ Entries(NewBuilder(spill)) = <<>>
  <1> DEFINE x == NewBuilder(spill)
  <1>1. /\ x.chunks = <<>> /\ x.offs = <<>> /\ x.klens = <<>> /\ x.vlens = <<>> /\ x.lines = <<>>
        /\ x.hashes = <<>> /\ x.spill = spill /\ x.dataBytes = 0 /\ x.checked = 0
    BY DEF NewBuilder
  <1>2. spill \in Spill /\ spill.mapped = 0 /\ spill.file = <<>>
    <2>1. NoFile \in Spill /\ NoFile.mapped = 0 /\ NoFile.file = <<>>
      <3>1. <<>> \in Seq(Byte)
        OBVIOUS
      <3> QED
        BY <3>1 DEF NoFile, Spill
    <2>2. NewFile \in Spill /\ NewFile.mapped = NoFile.mapped /\ NewFile.file = NoFile.file
      <3> HIDE DEF NoFile
      <3> QED
        BY <2>1 DEF NewFile, Spill
    <2> QED
      BY <2>1, <2>2
  <1>3. x \in Builder
    <2>1. \A S : <<>> \in Seq(S)
      OBVIOUS
    <2>2. x = [chunks |-> <<>>, offs |-> <<>>, klens |-> <<>>, vlens |-> <<>>, lines |-> <<>>,
               hashes |-> <<>>, spill |-> spill, dataBytes |-> 0, checked |-> 0]
      BY DEF NewBuilder
    <2> HIDE DEF x
    <2> QED
      BY <1>2, <2>1, <2>2 DEF Builder
  <1> HIDE DEF x
  <1>4. Len(<<>>) = 0 /\ \A i \in 1 .. 0 : FALSE
    OBVIOUS
  <1>5. Rows(x) = 0
    BY <1>1 DEF Rows
  <1>6. x.dataBytes = DataBytes(x)
    <2> DEFINE f == [i \in 1 .. 0 |-> 2 + x.klens[i] + x.vlens[i]]
    <2>1. f \in [1 .. 0 -> Nat] /\ \A i \in 1 .. 0 : f[i] = 0
      OBVIOUS
    <2>2. DataBytes(x) = SumOf(f)
      BY <1>5 DEF DataBytes
    <2> HIDE DEF f
    <2>3. SumOf(f) = 0
      BY <2>1, SumZero
    <2> QED
      BY <1>1, <2>2, <2>3
  <1>7. Stored(x)
    BY <1>1, <1>3, <1>5, <1>6 DEF Stored
  <1>8. Cached(x)
    BY <1>1, <1>2, <1>5 DEF Cached, Mapped
  <1>9. Entries(x) = <<>>
    <2>1. Entries(x) \in Seq(AllEntries) /\ Len(Entries(x)) = 0
      BY <1>5, <1>7, EntriesSeq
    <2> QED
      BY <2>1
  <1> QED
    BY <1>5, <1>7, <1>8, <1>9 DEF Sound, x

LEMMA StoreInit ==
    ASSUME Init
    PROVE  StoreInv /\ List!Init
  <1>1. PICK spill \in {NoFile, NewFile} : b = NewBuilder(spill)
    BY DEF Init
  <1>2. Sound(b) /\ Rows(b) = 0 /\ Entries(b) = <<>>
    BY <1>1, NewBuilderSound
  <1>3. Emitted(b) = <<>>
    BY <1>2, EmittedEntries
  <1>4. StoreInv
    BY <1>2, LimitsAssumption DEF StoreInv
  <1> QED
    BY <1>3, <1>4 DEF Init, List!Init, List!Result, Result

\* Add: the row is appended, or too long and the list is what it was.
LEMMA AddStep ==
    ASSUME StoreInv, NEW row \in Row, Add(row)
    PROVE  StoreInv' /\ List!Add(row)
  <1>1. Sound(b) /\ Rows(b) \in Nat /\ Rows(b) < MaxRows /\ MaxRows \in Nat
    BY LimitsAssumption DEF StoreInv, Sound, Stored, Builder, Rows, Add
  <1>2. Emitted(b) = Entries(b)
    BY <1>1, EmittedEntries
  <1>3. List!TooLong(row) <=> TooLong(row)
    BY DEF List!TooLong, TooLong
  <1>4. CASE TooLong(row)
    <2>1. result' = Result("limit", 0, 0) /\ b' = b
      BY <1>4 DEF Add
    <2>2. StoreInv'
      BY <2>1 DEF StoreInv
    <2>3. Emitted(b') = Emitted(b)
      BY <2>1
    <2> QED
      BY <1>3, <1>4, <2>1, <2>2, <2>3 DEF Add, List!Add, List!Result, Result
  <1>5. CASE ~TooLong(row)
    <2>1. result' = Ok /\ b' = AppendRow(b, row, 0)
      BY <1>5 DEF Add
    <2>2. /\ Sound(b') /\ Rows(b') = Rows(b) + 1
          /\ Entries(b') = Append(Entries(b), [key |-> row.key, val |-> row.val, line |-> 0])
      BY <1>1, <1>5, <2>1, AppendSound
    <2>3. Emitted(b') = Entries(b')
      BY <2>2, EmittedEntries
    <2>4. StoreInv'
      BY <1>1, <2>2 DEF StoreInv
    <2>5. result' = List!Ok
      BY <2>1 DEF List!Ok, Ok, List!Result, Result
    <2> QED
      BY <1>2, <1>3, <1>5, <2>2, <2>3, <2>4, <2>5 DEF Add, List!Add
  <1> QED
    BY <1>4, <1>5

\* BuildFrom: all rows of the source or none, and the error of the precedence rule.
LEMMA BuildFromStep ==
    ASSUME StoreInv, NEW src \in Sources, BuildFrom(src)
    PROVE  StoreInv' /\ List!BuildFrom(src)
  <1> DEFINE y == Filled(b, src)
             all == AllRows(b, src)
             len == Len(src.rows)
  <1>1. /\ Sound(b) /\ Stored(b) /\ Rows(b) \in Nat /\ len \in Nat /\ MaxRows \in Nat
        /\ Rows(b) + len <= MaxRows /\ src.rows \in Seq(Row)
    BY LimitsAssumption, SourcesAssumption DEF StoreInv, Sound, Stored, Builder, Rows, BuildFrom
  <1>2. /\ result' = Outcome(b, src)
        /\ b' = IF result' = Ok THEN [y EXCEPT !.checked = Rows(y)] ELSE Rollback(y, b)
        /\ call' = <<"BuildFrom", src>> /\ emitted' = <<>>
    BY DEF BuildFrom, Outcome, Filled, RolledBack
  <1>3. /\ Outcome(b, src) = Promised(b, src)
        /\ Outcome(b, src) = Ok => Added(b, src, len, y)
        /\ \E k \in 0 .. len : Added(b, src, k, y)
    BY <1>1, OutcomePromised
  <1>4. PICK k \in 0 .. len : Added(b, src, k, y)
    BY <1>3
  <1>5. Sound(y) /\ Grows(b, y) /\ Rows(y) = Rows(b) + k
    BY <1>4 DEF Added
  <1>6. all \in Seq(AllEntries) /\ Len(all) = Rows(b) + len
    BY <1>1, AllRowsFields
  <1> HIDE DEF y
  <1>7. /\ Sound(b') /\ Rows(b') <= MaxRows
        /\ Entries(b') = IF result' = Ok THEN all ELSE Entries(b)
    <2>1. CASE result' = Ok
      <3>1. b' = [y EXCEPT !.checked = Rows(y)]
        BY <1>2, <2>1
      <3>2. Added(b, src, len, y)
        BY <1>2, <1>3, <2>1
      <3>3. Rows(y) = Rows(b) + len /\ \A i \in 1 .. Rows(b) + len : Entries(y)[i] = all[i]
        BY <3>2 DEF Added
      <3>4. Rows(y) \in 0 .. Rows(y)
        BY <1>1, <1>5, <3>3
      <3>5. Sound(b') /\ Rows(b') = Rows(y) /\ Entries(b') = Entries(y)
        <4> DEFINE n == Rows(y)
        <4>1. n \in 0 .. Rows(y) /\ b' = [y EXCEPT !.checked = n]
          BY <3>1, <3>4
        <4> HIDE DEF n
        <4> QED
          BY <1>5, <4>1, CheckedSound
      <3>6. Entries(y) \in Seq(AllEntries) /\ Len(Entries(y)) = Rows(b) + len
        BY <1>5, <3>3, EntriesSeq DEF Sound
      <3>7. Entries(y) = all
        <4> DEFINE E == Entries(y)
                   n == Rows(b) + len
        <4>1. /\ E \in Seq(AllEntries) /\ Len(E) = n /\ all \in Seq(AllEntries) /\ Len(all) = n
              /\ \A i \in 1 .. n : E[i] = all[i]
          BY <1>6, <3>3, <3>6
        <4> HIDE DEF E, n, all
        <4>2. E = all
          BY <4>1, SeqEqual
        <4> QED
          BY <4>2 DEF E
      <3> QED
        BY <1>1, <2>1, <3>3, <3>5, <3>7
    <2>2. CASE result' # Ok
      <3>1. b' = Rollback(y, b)
        BY <1>2, <2>2
      <3>2. Sound(b') /\ Rows(b') = Rows(b) /\ Entries(b') = Entries(b)
        BY <1>1, <1>5, <3>1, RollbackSound
      <3> QED
        BY <2>2, <3>2 DEF StoreInv
    <2> QED
      BY <2>1, <2>2
  <1>8. Emitted(b) = Entries(b) /\ Emitted(b') = Entries(b')
    BY <1>1, <1>7, EmittedEntries
  <1>9. all = Emitted(b) \o [n \in 1 .. Len(src.rows) |->
                               [key |-> src.rows[n].key, val |-> src.rows[n].val, line |-> n]]
    BY <1>8 DEF AllRows, SourceRows
  <1>10. Len(Emitted(b)) = Rows(b)
    BY <1>1, <1>8, EntriesSeq
  <1>11. result' = IF src.end # "eof" THEN List!Result(src.end, 0, 0)
                   ELSE List!FirstError(all, Len(Emitted(b)))
    BY <1>2, <1>3, <1>10 DEF Promised, List!Result, Result
  <1>12. Emitted(b') = IF result' = List!Ok THEN all ELSE Emitted(b)
    BY <1>7, <1>8 DEF List!Ok, Ok, List!Result, Result
  <1>13. StoreInv'
    BY <1>7 DEF StoreInv
  <1> HIDE DEF all
  <1> QED
    BY <1>2, <1>9, <1>11, <1>12, <1>13 DEF List!BuildFrom

----------------------------------------------------------------------------
\* Compiling.

\* The Builder when the duplicate check is done, and when all keys are hashed.
LEMMA PreparedSound ==
    ASSUME NEW x, Sound(x)
    PROVE  LET z == Checked(x)
               y == EnsureHashes([z EXCEPT !.checked = Rows(x)])
           IN  /\ Sound(z) /\ Rows(z) = Rows(x) /\ Entries(z) = Entries(x)
               /\ Sound(y) /\ Rows(y) = Rows(x) /\ Entries(y) = Entries(x)
               /\ Len(y.hashes) = Rows(x)
               /\ Duplicate(x) # Ok => Duplicated(Entries(x), x.checked, Duplicate(x))
  <1> DEFINE z == Checked(x)
             n == Rows(x)
             w == [z EXCEPT !.checked = n]
             y == EnsureHashes(w)
  <1>1. n \in Nat /\ x.checked \in Nat
    BY DEF Sound, Stored, Builder, Rows
  <1>2. /\ Sound(z) /\ Rows(z) = n /\ Entries(z) = Entries(x)
        /\ Duplicate(x) # Ok => Duplicated(Entries(x), x.checked, Duplicate(x))
    <2>1. CASE UpToDate(x)
      BY <2>1 DEF Checked, Duplicate
    <2>2. CASE ~UpToDate(x)
      <3>1. z = Hashed(x, x.checked) /\ Duplicate(x) = FirstDuplicate(z, x.checked)
        BY <2>2 DEF Checked, Duplicate
      <3> HIDE DEF z
      <3>2. /\ Sound(z) /\ Rows(z) = n /\ Entries(z) = Entries(x)
            /\ (n > x.checked /\ n >= 2) => Len(z.hashes) = n
        BY <1>1, <3>1, HashedSound
      <3>3. Duplicated(Entries(z), x.checked, FirstDuplicate(z, x.checked))
        BY <1>1, <3>2, DuplicateFound
      <3> QED
        BY <3>1, <3>2, <3>3 DEF z
    <2> QED
      BY <2>1, <2>2
  <1>3. n \in 0 .. n
    BY <1>1
  <1> HIDE DEF z
  <1>4. Sound(w) /\ Rows(w) = n /\ Entries(w) = Entries(x)
    <2>1. n \in 0 .. Rows(z)
      BY <1>2, <1>3
    <2> HIDE DEF n
    <2> QED
      BY <1>2, <2>1, CheckedSound
  <1> HIDE DEF w
  <1>5. Sound(y) /\ Rows(y) = n /\ Entries(y) = Entries(x) /\ Len(y.hashes) = n
    BY <1>4, EnsureHashesSound
  <1> QED
    BY <1>2, <1>5 DEF z, w, y, n

\* Rows that find their places have different keys.
LEMMA PlacedApart ==
    ASSUME NEW x, Sound(x), Len(x.hashes) = Rows(x), Placeable(x) \/ Hashable(x)
    PROVE  \A n \in DOMAIN Entries(x) : ~List!Repeats(Entries(x), n)
  <1> DEFINE E == Entries(x)
  <1>1. Rows(x) \in Nat /\ DOMAIN E = 1 .. Rows(x)
    BY EntriesSeq DEF Sound, Entries
  <1>2. \A i \in 1 .. Rows(x) : x.hashes[i] = Hash[E[i].key]
    BY DEF Sound, Cached, Entries, Entry
  <1>3. SUFFICES ASSUME NEW n \in 1 .. Rows(x), NEW q \in 1 .. n - 1, E[q].key = E[n].key PROVE FALSE
    BY <1>1 DEF List!Repeats
  <1>4. q \in 1 .. Rows(x) /\ q < n
    BY <1>1
  <1> HIDE DEF E
  <1>5. x.hashes[q] = x.hashes[n]
    BY <1>2, <1>3, <1>4
  <1>6. ~Placeable(x)
    BY <1>4, <1>5 DEF Placeable
  <1>7. ~Hashable(x)
    BY <1>4, <1>5 DEF Hashable
  <1> QED
    BY <1>6, <1>7

\* Neither compile call changes the list; what it writes or reports is about the list.
LEMMA CompileStep ==
    ASSUME StoreInv, CompileV1 \/ CompileV2
    PROVE  StoreInv' /\ List!Compile
  <1> DEFINE dup == Duplicate(b)
             z == Checked(b)
             y == EnsureHashes([z EXCEPT !.checked = Rows(b)])
             E == Entries(b)
  <1>1. Sound(b) /\ Rows(b) <= MaxRows /\ Rows(b) \in Nat /\ b.checked \in Nat
    BY DEF StoreInv, Sound, Stored, Builder, Rows
  <1>2. /\ Sound(z) /\ Rows(z) = Rows(b) /\ Entries(z) = E
        /\ Sound(y) /\ Rows(y) = Rows(b) /\ Entries(y) = E
        /\ Len(y.hashes) = Rows(b)
        /\ dup # Ok => Duplicated(E, b.checked, dup)
    BY <1>1, PreparedSound
  <1>3. call' = <<"Compile">>
    BY DEF CompileV1, CompileV2
  <1>4. /\ b' \in {b, z, y, AllRead(y)}
        /\ \/ dup # Ok /\ result' = dup /\ emitted' = <<>>
           \/ result'.kind \in {"unplaceable", "toolarge", "noentries"} /\ emitted' = <<>>
           \/ (Placeable(y) \/ Hashable(y)) /\ result' = Ok /\ emitted' = Emitted(y)
    <2>1. CASE CompileV1
      BY <2>1 DEF CompileV1, Result
    <2>2. CASE CompileV2
      BY <2>2 DEF CompileV2, Result
    <2> QED
      BY <2>1, <2>2
  <1> HIDE DEF y, z, dup
  <1>5. Sound(b') /\ Rows(b') = Rows(b) /\ Entries(b') = E
    <2>1. Sound(AllRead(y)) /\ Rows(AllRead(y)) = Rows(b) /\ Entries(AllRead(y)) = E
      BY <1>2, AllReadSound
    <2> QED
      BY <1>1, <1>2, <1>4, <2>1
  <1>6. StoreInv'
    BY <1>1, <1>5 DEF StoreInv
  <1>7. Emitted(b) = E /\ Emitted(b') = E /\ Emitted(y) = E
    BY <1>1, <1>2, <1>5, EmittedEntries
  <1>8. \A n : n \in DOMAIN E <=> n \in 1 .. Rows(b)
    BY DEF Entries
  <1>9. CASE dup # Ok /\ result' = dup /\ emitted' = <<>>
    <2>1. PICK r \in Nat, q \in Nat : /\ FirstRepeat(E, b.checked, r, q)
                                      /\ dup = Result("dup", E[r].line, E[q].line)
      BY <1>2, <1>9 DEF Duplicated
    <2>2. dup = List!DuplicateError(E, r)
      BY <1>1, <2>1, DuplicateErrorIs
    <2>3. r \in b.checked + 1 .. Len(E) /\ Len(E) = Rows(b) /\ List!Repeats(E, r)
      BY <1>1, <2>1, EntriesSeq DEF FirstRepeat, Sound
    <2>4. r \in DOMAIN E
      BY <1>1, <1>8, <2>3
    <2> HIDE DEF E
    <2> QED
      BY <1>3, <1>6, <1>7, <1>9, <2>2, <2>3, <2>4 DEF List!Compile
  <1>10. CASE result'.kind \in {"unplaceable", "toolarge", "noentries"} /\ emitted' = <<>>
    BY <1>3, <1>6, <1>7, <1>10 DEF List!Compile
  <1>11. CASE (Placeable(y) \/ Hashable(y)) /\ result' = Ok /\ emitted' = Emitted(y)
    <2>1. \A n \in DOMAIN E : ~List!Repeats(E, n)
      BY <1>2, <1>11, PlacedApart
    <2>2. result' = List!Ok
      BY <1>11 DEF List!Ok, Ok, List!Result, Result
    <2> HIDE DEF E
    <2> QED
      BY <1>3, <1>6, <1>7, <1>11, <2>1, <2>2 DEF List!Compile
  <1> QED
    BY <1>4, <1>9, <1>10, <1>11

LEMMA ResetStep ==
    ASSUME StoreInv, Reset
    PROVE  StoreInv' /\ List!Reset
  <1>1. PICK spill \in {NoFile, NewFile} : b' = NewBuilder(spill)
    BY DEF Reset
  <1>2. Sound(b') /\ Rows(b') = 0 /\ Entries(b') = <<>>
    BY <1>1, NewBuilderSound
  <1>3. Emitted(b') = <<>>
    BY <1>2, EmittedEntries
  <1>4. StoreInv'
    BY <1>2, LimitsAssumption DEF StoreInv
  <1> QED
    BY <1>3, <1>4 DEF Reset, List!Reset, List!Ok, Ok, List!Result, Result

\* Every step keeps the invariant and is a step of the list of rows, or none.
LEMMA StoreNext ==
    ASSUME StoreInv, [Next]_vars
    PROVE  StoreInv' /\ [List!Next]_<<call, Emitted(b), result, emitted>>
  <1>1. ASSUME NEW k \in Keys, NEW v \in Values, Add([key |-> k, val |-> v])
        PROVE  StoreInv' /\ List!Next
    <2> DEFINE row == [key |-> k, val |-> v]
    <2>1. row \in Row /\ row \in List!Row
      BY DEF Row, List!Row
    <2> HIDE DEF row
    <2>2. StoreInv' /\ List!Add(row)
      BY <1>1, <2>1, AddStep DEF row
    <2> QED
      BY <2>1, <2>2 DEF List!Next
  <1>2. ASSUME NEW src \in Sources, BuildFrom(src) PROVE StoreInv' /\ List!Next
    BY <1>2, BuildFromStep DEF List!Next
  <1>3. ASSUME CompileV1 \/ CompileV2 PROVE StoreInv' /\ List!Next
    BY <1>3, CompileStep DEF List!Next
  <1>4. ASSUME Reset PROVE StoreInv' /\ List!Next
    BY <1>4, ResetStep DEF List!Next
  <1>5. ASSUME UNCHANGED vars PROVE StoreInv' /\ UNCHANGED <<call, Emitted(b), result, emitted>>
    <2>1. b' = b /\ call' = call /\ result' = result /\ emitted' = emitted
      BY <1>5 DEF vars
    <2>2. Emitted(b)' = Emitted(b)
      BY <2>1
    <2> QED
      BY <2>1, <2>2 DEF StoreInv
  <1> QED
    BY <1>1, <1>2, <1>3, <1>4, <1>5 DEF Next

----------------------------------------------------------------------------
\* The theorems.

\* The store is sound after every call.
THEOREM StoreInvariant == Spec => []StoreInv
  <1>1. Init => StoreInv
    BY StoreInit
  <1>2. StoreInv /\ [Next]_vars => StoreInv'
    BY StoreNext
  <1> QED
    BY <1>1, <1>2, PTL DEF Spec

LEMMA InvImpliesSound == StoreInv => StoreSound
  <1> SUFFICES ASSUME StoreInv PROVE StoreSound
    OBVIOUS
  <1>1. Sound(b) /\ Stored(b) /\ Cached(b) /\ Mapped(b) /\ b \in Builder /\ Rows(b) <= MaxRows
    BY DEF StoreInv, Sound, Stored, Cached
  <1>2. TypeOK
    <2>1. /\ b.klens \in Seq(Nat) /\ b.vlens \in Seq(Nat) /\ b.lines \in Seq(Nat)
          /\ b.chunks \in Seq(Seq(Byte)) /\ b.checked \in Nat /\ Rows(b) \in Nat
      BY <1>1 DEF Builder, Rows
    <2>2. Len(b.klens) = Rows(b) /\ Len(b.vlens) = Rows(b) /\ Len(b.lines) = Rows(b)
      BY <1>1 DEF Stored
    <2>3. \A c \in Range(b.chunks) : Len(c) <= ArenaChunk
      <3>1. DOMAIN b.chunks = 1 .. Len(b.chunks)
        BY <2>1
      <3> QED
        BY <1>1, <3>1 DEF Range, Stored
    <2>4. b.dataBytes = SumOf([i \in 1 .. Rows(b) |-> 2 + b.klens[i] + b.vlens[i]])
      BY <1>1 DEF Stored, DataBytes
    <2>5. Len(b.hashes) <= Rows(b) /\ b.checked \in 0 .. Rows(b)
      BY <1>1, <2>1 DEF Cached
    <2> QED
      BY <1>1, <2>1, <2>2, <2>3, <2>4, <2>5 DEF TypeOK
  <1>3. HashesFresh
    <2>1. /\ DOMAIN b.hashes = 1 .. Len(b.hashes) /\ DOMAIN b.offs = 1 .. Rows(b)
      BY <1>1 DEF Builder, Rows
    <2>2. \A i \in 1 .. Rows(b) : RowKey(b, i) = KeyOf(b, i)
      BY <1>1, ReadRow
    <2> QED
      BY <1>1, <2>1, <2>2 DEF HashesFresh, Cached
  <1>4. MappingSound
    BY <1>1 DEF MappingSound, Mapped
  <1> QED
    BY <1>2, <1>3, <1>4 DEF StoreSound

\* Row index, bytes, cached hashes and the mapping of the spill file agree after every
\* call, the failed ones included (AppendRow, Rollback, EnsureHashes, Remap, Truncate).
THEOREM StoreIsSound == Spec => []StoreSound
  BY StoreInvariant, InvImpliesSound, PTL

\* The Builder implements the list of rows: a failed call leaves the list as it was, the
\* error is the one the precedence rule names, and a file holds the list.
THEOREM RefinesRowList == Spec => ImplementsRowList
  <1>1. Init => List!Init
    BY StoreInit
  <1>2. StoreInv /\ [Next]_vars => [List!Next]_<<call, Emitted(b), result, emitted>>
    BY StoreNext
  <1> QED
    BY <1>1, <1>2, StoreInvariant, PTL DEF Spec, ImplementsRowList, List!Spec
=============================================================================
