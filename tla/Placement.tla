----------------------------- MODULE Placement -----------------------------
(****************************************************************************)
(* A version 1 file from its rows to its lookups: Builder.place finds a     *)
(* displacement for every bucket, Builder.write lays out the displacements, *)
(* the slot words and the records, and mapping.entry, Scan and Len read     *)
(* them back.                                                               *)
(*                                                                          *)
(* A key is a model value; its 64-bit hash is a pair of words, hi for the   *)
(* bucket and lo for the slot.  Any assignment of hashes to keys is         *)
(* possible.  A record is its key and its length.                           *)
(****************************************************************************)
EXTENDS Integers, FiniteSets

CONSTANTS
    Keys,           \* keys that may be rows
    Words,          \* halves of a hash, and displacements (uint32)
    Hashes,         \* hashes a key may have, records of hi and lo
    Xor(_, _),      \* ^ on Words
    NoRow,          \* emptySlot
    Length,         \* length of each key's record: 2 + klen + vlen
    Total,          \* Builder.dataBytes: the lengths of the records of a set of rows together
    NarrowLimit,    \* displacements below it fit in 16 bits (2^16)
    OffsetLimit,    \* data offsets below it fit in a slot word (2^32)
    MaxDataBlock    \* the largest data block (2^32 - 1)

ASSUME HashesAssumption ==
    /\ Words \subseteq Nat /\ 0 \in Words /\ Hashes \subseteq [hi : Words, lo : Words]
    /\ \A x, y \in Words : Xor(x, y) \in Words
ASSUME LengthAssumption ==
    /\ NoRow \notin Keys /\ Length \in [Keys -> Nat] /\ \A k \in Keys : Length[k] >= 2
ASSUME TotalAssumption ==
    /\ Total \in [SUBSET Keys -> Nat] /\ Total[{}] = 0
    /\ \A T \in SUBSET Keys : \A k \in Keys \ T : Total[T \cup {k}] = Total[T] + Length[k]
    /\ \A T, U \in SUBSET Keys : T \subseteq U => Total[T] <= Total[U]
ASSUME LimitsAssumption ==
    /\ NarrowLimit \in Nat \ {0} /\ OffsetLimit \in Nat \ {0}
    /\ MaxDataBlock \in Nat /\ MaxDataBlock < OffsetLimit

VARIABLES
    rows,      \* keys of the rows, distinct after prepare
    hash,      \* their hashes
    pc,        \* "place", "write", "done", or an error: "unplaceable", "cancelled", "toolarge"
    todo,      \* non-empty buckets without a displacement
    disp,      \* placement.disp
    slotRow,   \* placement.slotRow, NoRow for emptySlot
    maxD,      \* placement.maxD
    wslot,     \* the slot write is at
    words,     \* the slot words written: offset and length, length 0 for an empty slot
    off,       \* the end of the records so far
    data       \* the data block: the key of the record that begins at an offset

vars == <<rows, hash, pc, todo, disp, slotRow, maxD, wslot, words, off, data>>
fileVars == <<wslot, words, off, data>>

----------------------------------------------------------------------------
\* Table sizes.

Prime(n) == n >= 2 /\ \A i \in 2 .. n - 1 : n % i # 0

\* The least prime from 1.2 slots per row, and 3, on.
SlotsFor(n) ==
    LET least == IF (n * 12) \div 10 < 3 THEN 3 ELSE (n * 12) \div 10
    IN CHOOSE s \in least .. 2 * least : Prime(s) /\ \A t \in least .. s - 1 : ~Prime(t)

BucketsFor(s) == IF (s * 6) \div 5 < 1 THEN 1 ELSE (s * 6) \div 5

ASSUME TablesAssumption ==
    /\ IsFiniteSet(Keys)
    /\ \A n \in 0 .. Cardinality(Keys) :
          SlotsFor(n) \in Nat /\ SlotsFor(n) >= 3 /\ SlotsFor(n) >= n

S == SlotsFor(Cardinality(rows))
B == BucketsFor(S)
Slots == 0 .. S - 1
Buckets == 0 .. B - 1

BucketOf(h) == h.hi % B
SlotOf(h, d) == Xor(h.lo, d) % S
Members(b) == {r \in rows : BucketOf(hash[r]) = b}

Init ==
    /\ rows \in SUBSET Keys
    /\ hash \in [rows -> Hashes]
    /\ pc = "place"
    /\ todo = {b \in Buckets : Members(b) # {}}
    /\ disp = [b \in Buckets |-> 0]
    /\ slotRow = [s \in Slots |-> NoRow]
    /\ maxD = 0
    /\ wslot = 0 /\ words = [s \in Slots |-> [off |-> 0, len |-> 0]]
    /\ off = 0 /\ data = [o \in {} |-> NoRow]

----------------------------------------------------------------------------
\* place

\* Buckets are placed by size, the largest first, then by index.
Before(a, b) ==
    \/ Cardinality(Members(a)) > Cardinality(Members(b))
    \/ Cardinality(Members(a)) = Cardinality(Members(b)) /\ a <= b
NextBucket(b) == b \in todo /\ \A a \in todo : Before(b, a)

EqualLows(b) == \E q, r \in Members(b) : q # r /\ hash[q].lo = hash[r].lo

\* mutants, alone: taken slots are not looked at; the members may meet in a slot.
OnlyDistinct(b, d) ==
    \A q, r \in Members(b) : q # r => SlotOf(hash[q], d) # SlotOf(hash[r], d)
OnlyFree(b, d) == \A r \in Members(b) : slotRow[SlotOf(hash[r], d)] = NoRow
Fits(b, d) == OnlyFree(b, d) /\ OnlyDistinct(b, d)

\* mutant: the maximum is the last displacement.
LastD(d) == d
LargestD(d) == IF d > maxD THEN d ELSE maxD

PlaceBucket(b, d) ==
    /\ pc = "place" /\ NextBucket(b) /\ ~EqualLows(b)
    /\ d \in Words /\ Fits(b, d) /\ \A e \in Words : e < d => ~Fits(b, e)
    /\ slotRow' = [s \in Slots |-> IF \E r \in Members(b) : SlotOf(hash[r], d) = s
                                   THEN CHOOSE r \in Members(b) : SlotOf(hash[r], d) = s
                                   ELSE slotRow[s]]
    /\ disp' = [disp EXCEPT ![b] = d]
    /\ maxD' = LargestD(d)
    /\ todo' = todo \ {b}
    /\ UNCHANGED <<rows, hash, pc, fileVars>>

\* Equal low hash halves, or no displacement left.
Unplaceable(b) ==
    /\ pc = "place" /\ NextBucket(b)
    /\ EqualLows(b) \/ \A d \in Words : ~Fits(b, d)
    /\ pc' = "unplaceable"
    /\ UNCHANGED <<rows, hash, todo, disp, slotRow, maxD, fileVars>>

\* The context is looked at every so many buckets and displacements.
Cancelled ==
    /\ pc = "place" /\ todo # {}
    /\ pc' = "cancelled"
    /\ UNCHANGED <<rows, hash, todo, disp, slotRow, maxD, fileVars>>

TooLarge == Total[rows] > MaxDataBlock

\* The end of prepare.
Prepared ==
    /\ pc = "place" /\ todo = {}
    /\ pc' = IF TooLarge THEN "toolarge" ELSE "write"
    /\ UNCHANGED <<rows, hash, todo, disp, slotRow, maxD, fileVars>>

----------------------------------------------------------------------------
\* write: the slot words in order, and the records in the same order.

NextSlot(n) == n + 1

WriteSlot ==
    /\ pc = "write" /\ wslot \in Slots
    /\ wslot' = NextSlot(wslot)
    /\ LET r == slotRow[wslot]
       IN IF r = NoRow THEN UNCHANGED <<words, off, data>>
          ELSE /\ words' = [words EXCEPT ![wslot] =
                               [off |-> off % OffsetLimit, len |-> Length[r]]]
               /\ data' = [o \in DOMAIN data \cup {off} |-> IF o = off THEN r ELSE data[o]]
               /\ off' = off + Length[r]
    /\ UNCHANGED <<rows, hash, pc, todo, disp, slotRow, maxD>>

Flushed ==
    /\ pc = "write" /\ wslot = S
    /\ pc' = "done"
    /\ UNCHANGED <<rows, hash, todo, disp, slotRow, maxD, fileVars>>

----------------------------------------------------------------------------
\* The reader.

\* Displacements take 16 bits when the largest one allows it.
StoredDisp(b) == IF maxD < NarrowLimit THEN disp[b] % NarrowLimit ELSE disp[b]

\* mutant: the key of the record is not compared.
AnyKey(k, r) == TRUE
SameKey(k, r) == k = r

Absent == "absent"
Corrupt == "corrupt"

\* mapping.entry: the key whose record answers a lookup of k with hash h.
Entry(k, h) ==
    LET w == words[SlotOf(h, StoredDisp(BucketOf(h)))]
    IN IF w.len = 0 THEN Absent
       ELSE IF w.len < 2 \/ w.off + w.len > off \/ w.off \notin DOMAIN data THEN Corrupt
       ELSE IF SameKey(k, data[w.off]) THEN data[w.off] ELSE Absent

\* countRows, and what Scan passes to its callback.
Used == {s \in Slots : words[s].len # 0}
CountRows == Cardinality(Used)
Scanned == {data[words[s].off] : s \in Used}

----------------------------------------------------------------------------
Next == \/ \E b \in Buckets : Unplaceable(b) \/ \E d \in Words : PlaceBucket(b, d)
        \/ Cancelled \/ Prepared \/ WriteSlot \/ Flushed

Spec == Init /\ [][Next]_vars

----------------------------------------------------------------------------
\* Properties.

TypeOK ==
    /\ rows \subseteq Keys /\ hash \in [rows -> Hashes]
    /\ pc \in {"place", "write", "done", "unplaceable", "cancelled", "toolarge"}
    /\ todo \subseteq Buckets
    /\ disp \in [Buckets -> Words] /\ maxD \in Words
    /\ slotRow \in [Slots -> rows \cup {NoRow}]
    /\ wslot \in 0 .. S
    /\ words \in [Slots -> [off : Nat, len : Nat]]
    /\ off \in Nat
    /\ DOMAIN data \subseteq Nat /\ \A o \in DOMAIN data : data[o] \in rows

\* A compiled file answers every key that is a row with its own record, and every other key
\* with "not found", whatever its hash: no two rows share a slot, no displacement is cut to
\* 16 bits, no offset wraps, no record is damaged (place, write, entry).
LookupsExact ==
    pc = "done" => \A k \in Keys : \A h \in Hashes :
                      Entry(k, IF k \in rows THEN hash[k] ELSE h) =
                         IF k \in rows THEN k ELSE Absent

\* Scan passes every row exactly once, and Len is their number (Scan, countRows).
ScanExact == pc = "done" => Scanned = rows /\ CountRows = Cardinality(rows)
=============================================================================
