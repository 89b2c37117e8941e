----------------------------- MODULE FileProofs -----------------------------
(****************************************************************************)
(* What is proved of files: the table of a version 1 file (Placement), the  *)
(* sections of a file that is opened (FileSizes), how a file reaches its    *)
(* path (CompileFile), the values in it (TypedValues), the rows read from a *)
(* source (InputRows), and the sample taken of them (SizeSample).  The six  *)
(* share no state.                                                          *)
(****************************************************************************)
EXTENDS Placement, FileSizes, CompileFile, TypedValues, InputRows, SizeSample, TotalsProofs
----------------------------------------------------------------------------
(****************************************************************************)
(* For every set of rows, every assignment of hashes and every limit: a     *)
(* version 1 file that is compiled answers each of its rows, and nothing    *)
(* else, and a scan of it passes each row once.                             *)
(****************************************************************************)


LEMMA TableSizes ==
    ASSUME rows \subseteq Keys
    PROVE  S \in Nat /\ S >= 3 /\ B \in Nat /\ B >= 1
<1>1. Cardinality(rows) \in 0 .. Cardinality(Keys)
  BY TablesAssumption, FS_Subset, FS_CardinalityType
<1>2. S \in Nat /\ S >= 3
  BY <1>1, TablesAssumption DEF S
<1>3. (S * 6) \div 5 \in Nat /\ (S * 6) \div 5 >= 1
  BY <1>2
<1> QED BY <1>2, <1>3 DEF B, BucketsFor

LEMMA TablePositions ==
    ASSUME rows \subseteq Keys, NEW h \in Hashes, NEW d \in Words
    PROVE  BucketOf(h) \in Buckets /\ SlotOf(h, d) \in Slots
<1>1. h.hi \in Nat /\ Xor(h.lo, d) \in Nat
  BY HashesAssumption
<1>2. S \in Nat /\ S >= 3 /\ B \in Nat /\ B >= 1
  BY TableSizes
<1>3. h.hi % B \in 0 .. B - 1 /\ Xor(h.lo, d) % S \in 0 .. S - 1
  BY <1>1, <1>2
<1> QED BY <1>3 DEF BucketOf, SlotOf, Buckets, Slots

----------------------------------------------------------------------------
\* The inductive invariant.

Home(r) == SlotOf(hash[r], disp[BucketOf(hash[r])])
Placed == {r \in rows : BucketOf(hash[r]) \notin todo}

\* A placed row is in its slot, and a slot holds nothing else; no displacement exceeds maxD.
PlacedInv ==
    /\ \A r \in Placed : slotRow[Home(r)] = r
    /\ \A s \in Slots : slotRow[s] # NoRow => slotRow[s] \in Placed /\ Home(slotRow[s]) = s
    /\ \A b \in Buckets : disp[b] <= maxD

\* Writing begins when every row is placed and the records fit, and ends after the last slot.
PhaseInv ==
    /\ pc \in {"write", "done"} => todo = {} /\ Total[rows] < OffsetLimit
    /\ pc \notin {"write", "done"} => wslot = 0
    /\ pc = "done" => wslot = S

\* The rows of the slots written so far, and the length of their records.
Written == {r \in rows : \E s \in Slots : s < wslot /\ slotRow[s] = r}

\* A word written names the record of its slot's row; one not written yet is empty.
WordsInv ==
    /\ off = Total[Written]
    /\ \A o \in DOMAIN data : o < off
    /\ \A s \in Slots :
          IF s < wslot /\ slotRow[s] # NoRow
          THEN /\ words[s].len = Length[slotRow[s]]
               /\ words[s].off + words[s].len <= off
               /\ words[s].off \in DOMAIN data /\ data[words[s].off] = slotRow[s]
          ELSE words[s].len = 0

IInv == TypeOK /\ PlacedInv /\ PhaseInv /\ WordsInv

LEMMA InitIInv == Init => IInv
<1> SUFFICES ASSUME Init PROVE IInv
  OBVIOUS
<1>1. S \in Nat /\ S >= 3 /\ B \in Nat /\ B >= 1 /\ rows \subseteq Keys
  BY TableSizes DEF Init
<1>2. TypeOK
  BY <1>1, HashesAssumption DEF Init, TypeOK
<1>3. Placed = {}
  <2> SUFFICES ASSUME NEW r \in rows PROVE BucketOf(hash[r]) \in todo
    BY DEF Placed
  <2>1. hash[r] \in Hashes
    BY DEF Init
  <2>2. BucketOf(hash[r]) \in Buckets
    BY <2>1, <1>1, HashesAssumption, TablePositions
  <2> QED BY <2>2 DEF Init, Members
<1>4. PlacedInv
  BY <1>3 DEF PlacedInv, Init
<1>5. PhaseInv
  BY DEF PhaseInv, Init
<1>6. Written = {}
  BY <1>1 DEF Written, Init, Slots
<1>7. WordsInv
  BY <1>1, <1>6, TotalAssumption DEF WordsInv, Init, Slots
<1> QED BY <1>2, <1>4, <1>5, <1>7 DEF IInv

----------------------------------------------------------------------------
\* Steps.

\* A step that leaves the table alone, and writes nothing.
LEMMA SameTable ==
    ASSUME IInv, UNCHANGED <<rows, hash, todo, disp, slotRow, maxD, fileVars>>,
           pc' \in {"place", "write", "done", "unplaceable", "cancelled", "toolarge"},
           PhaseInv'
    PROVE  IInv'
<1>1. S' = S /\ B' = B /\ Slots' = Slots /\ Buckets' = Buckets
  BY DEF S, B, Slots, Buckets
<1>2. TypeOK'
  BY <1>1 DEF IInv, TypeOK, fileVars
<1>3. PlacedInv'
  BY <1>1 DEF IInv, PlacedInv, Placed, Home, SlotOf, BucketOf
<1>4. WordsInv'
  BY <1>1 DEF IInv, WordsInv, Written, fileVars
<1> QED BY <1>2, <1>3, <1>4 DEF IInv

LEMMA PlaceBucketIInv ==
    ASSUME IInv, NEW b \in Buckets, NEW d \in Words, PlaceBucket(b, d)
    PROVE  IInv'
<1> USE DEF PlaceBucket
<1>1. S' = S /\ B' = B /\ Slots' = Slots /\ Buckets' = Buckets
  BY DEF S, B, Slots, Buckets
<1>2. \A r \in rows : hash[r] \in Hashes /\ BucketOf(hash[r]) \in Buckets
                      /\ \A e \in Words : SlotOf(hash[r], e) \in Slots
  BY TablePositions DEF IInv, TypeOK
<1>3. Members(b) \subseteq rows
  BY DEF Members
<1>4. \A s \in Slots :
         IF \E r \in Members(b) : SlotOf(hash[r], d) = s
         THEN slotRow'[s] \in Members(b) /\ SlotOf(hash[slotRow'[s]], d) = s
         ELSE slotRow'[s] = slotRow[s]
  OBVIOUS
<1>5. disp' \in [Buckets -> Words] /\ disp'[b] = d /\ \A a \in Buckets : a # b => disp'[a] = disp[a]
  BY DEF IInv, TypeOK
<1>6. maxD' \in Words /\ maxD <= maxD' /\ d <= maxD'
  BY HashesAssumption DEF IInv, TypeOK, LargestD
<1>7. TypeOK'
  <2>1. slotRow' \in [Slots -> rows \cup {NoRow}]
    BY <1>3, <1>4 DEF IInv, TypeOK
  <2> QED BY <2>1, <1>1, <1>5, <1>6 DEF IInv, TypeOK, fileVars
<1>8. \A r \in Members(b) : Home(r)' = SlotOf(hash[r], d)
  BY <1>1, <1>3, <1>5 DEF Home, Members, SlotOf, BucketOf
<1>9. \A r \in rows \ Members(b) : Home(r)' = Home(r)
  BY <1>1, <1>2, <1>5 DEF Home, Members, SlotOf, BucketOf
<1>10. Placed' = Placed \cup Members(b) /\ Placed \subseteq rows \ Members(b)
  BY <1>1 DEF Placed, Members, NextBucket, BucketOf
<1>11. \A r \in Members(b) : slotRow[SlotOf(hash[r], d)] = NoRow
  BY DEF Fits, OnlyFree
<1>12. PlacedInv'
  <2>1. ASSUME NEW r \in Placed' PROVE slotRow'[Home(r)'] = r
    <3>1. CASE r \in Members(b)
      <4>1. Home(r)' = SlotOf(hash[r], d) /\ SlotOf(hash[r], d) \in Slots
        BY <3>1, <1>2, <1>3, <1>8
      <4>2. slotRow'[Home(r)'] \in Members(b) /\ SlotOf(hash[slotRow'[Home(r)']], d) = SlotOf(hash[r], d)
        BY <3>1, <4>1, <1>4
      <4> QED BY <3>1, <4>2 DEF Fits, OnlyDistinct
    <3>2. CASE r \in Placed
      <4>1. Home(r)' = Home(r) /\ slotRow[Home(r)] = r /\ r \in rows
        BY <3>2, <1>9, <1>10 DEF IInv, PlacedInv
      <4>2. Home(r) \in Slots
        BY <4>1, <1>2 DEF Home, IInv, TypeOK
      <4>3. r # NoRow
        BY <4>1, LengthAssumption DEF IInv, TypeOK
      <4> QED BY <4>1, <4>2, <4>3, <1>4, <1>11
    <3> QED BY <2>1, <3>1, <3>2, <1>10
  <2>2. ASSUME NEW s \in Slots, NEW r \in rows, slotRow'[s] = r
        PROVE  r \in Placed' /\ Home(r)' = s
    <3>1. CASE \E m \in Members(b) : SlotOf(hash[m], d) = s
      <4>1. r \in Members(b) /\ SlotOf(hash[r], d) = s
        BY <3>1, <2>2, <1>4
      <4> QED BY <4>1, <1>8, <1>10
    <3>2. CASE ~ \E m \in Members(b) : SlotOf(hash[m], d) = s
      <4>1. slotRow[s] = r /\ r # NoRow
        BY <3>2, <2>2, <1>4, LengthAssumption DEF IInv, TypeOK
      <4>2. r \in Placed /\ Home(r) = s
        BY <4>1 DEF IInv, PlacedInv
      <4> QED BY <4>2, <1>9, <1>10
    <3> QED BY <3>1, <3>2
  <2>3. ASSUME NEW a \in Buckets PROVE disp'[a] <= maxD'
    <3>1. disp[a] <= maxD /\ disp[a] \in Nat /\ maxD \in Nat /\ maxD' \in Nat
      BY <1>6, HashesAssumption DEF IInv, TypeOK, PlacedInv
    <3> QED BY <3>1, <1>5, <1>6
  <2>4. \A s \in Slots : slotRow'[s] # NoRow => slotRow'[s] \in rows
    BY <1>1, <1>7 DEF TypeOK
  <2> QED BY <2>1, <2>2, <2>3, <2>4, <1>1 DEF PlacedInv
<1>13. wslot = 0 /\ wslot' = 0 /\ pc' = "place"
  BY DEF IInv, PhaseInv, fileVars
<1>14. PhaseInv'
  BY <1>13 DEF PhaseInv
<1>15. \A s \in Slots : ~ (s < 0)
  BY TableSizes DEF IInv, TypeOK, Slots
<1>16. WordsInv'
  BY <1>1, <1>13, <1>15 DEF IInv, WordsInv, Written, fileVars
<1> QED BY <1>7, <1>12, <1>14, <1>16 DEF IInv

LEMMA WriteSlotIInv ==
    ASSUME IInv, WriteSlot
    PROVE  IInv'
<1> USE DEF WriteSlot, NextSlot
<1>1. S' = S /\ B' = B /\ Slots' = Slots /\ Buckets' = Buckets /\ S \in Nat /\ S >= 3
  BY TableSizes DEF IInv, TypeOK, S, B, Slots, Buckets
<1>2. rows \subseteq Keys /\ Placed = rows /\ Total[rows] < OffsetLimit
  BY DEF IInv, TypeOK, PhaseInv, Placed
<1>3. PlacedInv'
  BY <1>1 DEF IInv, PlacedInv, Placed, Home, SlotOf, BucketOf
<1>4. wslot \in Nat /\ wslot < S /\ wslot' = wslot + 1 /\ wslot' \in 0 .. S
  BY <1>1 DEF Slots
<1>5. PhaseInv'
  BY DEF IInv, PhaseInv
<1>6. \A s \in Slots : s \in Nat /\ (s < wslot + 1 <=> s < wslot \/ s = wslot)
  BY <1>1, <1>4 DEF Slots
<1>7. CASE slotRow[wslot] = NoRow
  <2>1. UNCHANGED <<words, off, data>>
    BY <1>7
  <2>2. TypeOK'
    BY <2>1, <1>1, <1>4 DEF IInv, TypeOK
  <2>3. Written' = Written
    <3>1. NoRow \notin rows
      BY <1>2, LengthAssumption
    <3> QED BY <3>1, <1>1, <1>4, <1>6, <1>7 DEF Written
  <2>4. WordsInv'
    BY <2>1, <2>3, <1>1, <1>4, <1>6, <1>7 DEF IInv, WordsInv
  <2> QED BY <2>2, <2>4, <1>3, <1>5 DEF IInv
<1>8. CASE slotRow[wslot] # NoRow
  <2> DEFINE r == slotRow[wslot]
  <2> DEFINE word == [off |-> off % OffsetLimit, len |-> Length[r]]
  <2>1. r \in rows /\ Home(r) = wslot /\ r \in Keys
    BY <1>2, <1>8 DEF IInv, PlacedInv
  <2>2. Length[r] \in Nat /\ Length[r] >= 2
    BY <2>1, LengthAssumption
  <2>3. r \notin Written
    <3>1. ASSUME NEW s \in Slots, s < wslot, slotRow[s] = r PROVE FALSE
      <4>1. Home(r) = s
        BY <3>1, <1>8 DEF IInv, PlacedInv
      <4> QED BY <4>1, <2>1, <3>1, <1>4
    <3> QED BY <3>1 DEF Written
  <2>4. Written' = Written \cup {r}
    <3>1. \A k \in rows : (\E s \in Slots : s < wslot + 1 /\ slotRow[s] = k)
                        <=> (\E s \in Slots : s < wslot /\ slotRow[s] = k) \/ k = r
      BY <1>6
    <3> QED BY <3>1, <2>1, <1>1, <1>4 DEF Written
  <2>5. Total[Written \cup {r}] = Total[Written] + Length[r]
    <3>1. Written \in SUBSET Keys /\ r \in Keys \ Written
      BY <1>2, <2>1, <2>3 DEF Written
    <3> QED BY <3>1, TotalAssumption
  <2>6. off \in Nat /\ off % OffsetLimit = off
    <3>1. Written \in SUBSET Keys /\ rows \in SUBSET Keys /\ Written \subseteq rows
      BY <1>2 DEF Written
    <3>2. Total[Written] \in Nat /\ Total[rows] \in Nat /\ Total[Written] <= Total[rows]
      BY <3>1, TotalAssumption
    <3>3. off = Total[Written]
      BY DEF IInv, WordsInv
    <3>4. off \in Nat /\ off < OffsetLimit /\ OffsetLimit \in Nat \ {0}
      BY <3>2, <3>3, <1>2, LimitsAssumption
    <3> QED BY <3>4
  <2>7. /\ words' = [words EXCEPT ![wslot] = word]
        /\ DOMAIN data' = DOMAIN data \cup {off} /\ data'[off] = r
        /\ \A o \in DOMAIN data : o # off => data'[o] = data[o]
        /\ off' = off + Length[r]
    BY <1>8
  <2>8. word \in [off : Nat, len : Nat] /\ word.off = off /\ word.len = Length[r]
    BY <2>2, <2>6
  <2>9. \A o \in DOMAIN data : o < off /\ o \in Nat /\ o # off
    BY <2>6 DEF IInv, TypeOK, WordsInv
  <2>10. \A o \in DOMAIN data' : o \in Nat /\ o < off' /\ data'[o] \in rows
    BY <2>1, <2>2, <2>6, <2>7, <2>9 DEF IInv, TypeOK
  <2>11. words' \in [Slots -> [off : Nat, len : Nat]] /\ words'[wslot] = word
         /\ \A s \in Slots : s # wslot => words'[s] = words[s]
    <3> HIDE DEF word
    <3> QED BY <2>7, <2>8 DEF IInv, TypeOK
  <2>12. TypeOK'
    BY <2>2, <2>6, <2>7, <2>10, <2>11, <1>1, <1>4 DEF IInv, TypeOK
  <2>13. ASSUME NEW s \in Slots
         PROVE  IF s < wslot' /\ slotRow[s] # NoRow
                THEN /\ words'[s].len = Length[slotRow[s]]
                     /\ words'[s].off + words'[s].len <= off'
                     /\ words'[s].off \in DOMAIN data' /\ data'[words'[s].off] = slotRow[s]
                ELSE words'[s].len = 0
    <3> HIDE DEF word
    <3>1. CASE s = wslot
      BY <3>1, <2>2, <2>6, <2>7, <2>8, <2>11, <1>4, <1>8
    <3>2. CASE s # wslot /\ s < wslot /\ slotRow[s] # NoRow
      <4>1. /\ words[s].len = Length[slotRow[s]] /\ words[s].off + words[s].len <= off
            /\ words[s].off \in DOMAIN data /\ data[words[s].off] = slotRow[s]
        BY <3>2 DEF IInv, WordsInv
      <4>2. words[s].off \in Nat /\ words[s].len \in Nat
        BY DEF IInv, TypeOK
      <4> QED BY <4>1, <4>2, <3>2, <2>2, <2>6, <2>7, <2>9, <2>11, <1>6, <1>4
    <3>3. CASE s # wslot /\ ~ (s < wslot /\ slotRow[s] # NoRow)
      BY <3>3, <2>11, <1>6, <1>4 DEF IInv, WordsInv
    <3> QED BY <3>1, <3>2, <3>3
  <2>14. WordsInv'
    <3>1. off' = Total[Written']
      BY <2>4, <2>5, <2>7 DEF IInv, WordsInv
    <3> QED BY <3>1, <2>10, <2>13, <1>1 DEF WordsInv
  <2> QED BY <2>12, <2>14, <1>3, <1>5 DEF IInv
<1> QED BY <1>7, <1>8

LEMMA NextIInv == IInv /\ [Next]_vars => IInv'
<1> SUFFICES ASSUME IInv, [Next]_vars PROVE IInv'
  OBVIOUS
<1>1. ASSUME NEW b \in Buckets, Unplaceable(b) PROVE IInv'
  <2>1. PhaseInv'
    BY <1>1 DEF Unplaceable, IInv, PhaseInv, fileVars
  <2> QED BY <1>1, <2>1, SameTable DEF Unplaceable
<1>2. ASSUME NEW b \in Buckets, NEW d \in Words, PlaceBucket(b, d) PROVE IInv'
  BY <1>2, PlaceBucketIInv
<1>3. CASE Cancelled
  <2>1. PhaseInv'
    BY <1>3 DEF Cancelled, IInv, PhaseInv, fileVars
  <2> QED BY <1>3, <2>1, SameTable DEF Cancelled
<1>4. CASE Prepared
  <2>1. Total[rows] \in Nat
    BY TotalAssumption DEF IInv, TypeOK
  <2>2. ~ TooLarge => Total[rows] < OffsetLimit
    BY <2>1, LimitsAssumption DEF TooLarge
  <2>3. PhaseInv'
    BY <1>4, <2>2 DEF Prepared, IInv, PhaseInv, fileVars
  <2> QED BY <1>4, <2>3, SameTable DEF Prepared
<1>5. CASE WriteSlot
  BY <1>5, WriteSlotIInv
<1>6. CASE Flushed
  <2>1. PhaseInv'
    BY <1>6 DEF Flushed, IInv, PhaseInv, fileVars, S
  <2> QED BY <1>6, <2>1, SameTable DEF Flushed
<1>7. CASE UNCHANGED vars
  <2>1. PhaseInv'
    BY <1>7 DEF vars, IInv, PhaseInv, S
  <2> QED BY <1>7, <2>1, SameTable DEF vars, fileVars, IInv, TypeOK
<1> QED BY <1>1, <1>2, <1>3, <1>4, <1>5, <1>6, <1>7 DEF Next

----------------------------------------------------------------------------
\* A written file.

\* Every word of it is empty, or names the record of its slot's row within the data block.
LEMMA WrittenWords ==
    ASSUME IInv, pc = "done", NEW s \in Slots
    PROVE  /\ slotRow[s] = NoRow => words[s].len = 0
           /\ slotRow[s] # NoRow =>
                 /\ slotRow[s] \in rows
                 /\ words[s].len >= 2 /\ words[s].len # 0
                 /\ words[s].off + words[s].len <= off
                 /\ words[s].off \in DOMAIN data /\ data[words[s].off] = slotRow[s]
<1>1. s < wslot
  BY TableSizes DEF IInv, TypeOK, PhaseInv, Slots
<1>2. slotRow[s] # NoRow => slotRow[s] \in rows /\ Length[slotRow[s]] \in Nat /\ Length[slotRow[s]] >= 2
  BY LengthAssumption DEF IInv, TypeOK
<1> QED BY <1>1, <1>2 DEF IInv, WordsInv

\* 16 bits lose no displacement.
LEMMA DispKept ==
    ASSUME IInv, NEW b \in Buckets
    PROVE  StoredDisp(b) = disp[b]
<1>1. disp[b] \in Nat /\ maxD \in Nat /\ disp[b] <= maxD /\ NarrowLimit \in Nat \ {0}
  BY HashesAssumption, LimitsAssumption DEF IInv, TypeOK, PlacedInv
<1> QED BY <1>1 DEF StoredDisp

LEMMA DoneLookups == IInv => LookupsExact
<1> SUFFICES ASSUME IInv, pc = "done", NEW k \in Keys, NEW h \in Hashes
             PROVE  Entry(k, IF k \in rows THEN hash[k] ELSE h) =
                       IF k \in rows THEN k ELSE Absent
  BY DEF LookupsExact
<1>1. rows \subseteq Keys /\ Placed = rows
  BY DEF IInv, TypeOK, PhaseInv, Placed
<1> DEFINE x == IF k \in rows THEN hash[k] ELSE h
<1> DEFINE s == SlotOf(x, StoredDisp(BucketOf(x)))
<1>2. x \in Hashes
  BY DEF IInv, TypeOK
<1>3. BucketOf(x) \in Buckets /\ StoredDisp(BucketOf(x)) = disp[BucketOf(x)]
  <2> HIDE DEF x
  <2>1. 0 \in Words
    BY HashesAssumption
  <2>2. BucketOf(x) \in Buckets
    BY <1>1, <1>2, <2>1, TablePositions
  <2> QED BY <2>2, DispKept
<1>4. s \in Slots
  <2> HIDE DEF x
  <2>1. disp[BucketOf(x)] \in Words
    BY <1>3 DEF IInv, TypeOK
  <2> QED BY <1>1, <1>2, <1>3, <2>1, TablePositions
<1>5. k \in rows => slotRow[s] = k /\ k # NoRow
  <2> SUFFICES ASSUME k \in rows PROVE slotRow[s] = k /\ k # NoRow
    OBVIOUS
  <2>1. s = Home(k)
    BY <1>3 DEF Home
  <2> QED BY <2>1, <1>1, LengthAssumption DEF IInv, PlacedInv
<1>6. Entry(k, x) = IF words[s].len = 0 THEN Absent
                    ELSE IF words[s].len < 2 \/ words[s].off + words[s].len > off
                            \/ words[s].off \notin DOMAIN data THEN Corrupt
                    ELSE IF k = data[words[s].off] THEN data[words[s].off] ELSE Absent
  BY DEF Entry, SameKey
<1>7. words[s].off \in Nat /\ words[s].len \in Nat /\ off \in Nat
  BY <1>4 DEF IInv, TypeOK
<1> HIDE DEF x, s
<1>8. CASE slotRow[s] = NoRow
  BY <1>4, <1>5, <1>6, <1>8, WrittenWords DEF x
<1>9. CASE slotRow[s] # NoRow
  <2>1. Entry(k, x) = IF k = slotRow[s] THEN k ELSE Absent
    BY <1>4, <1>6, <1>7, <1>9, WrittenWords
  <2>2. k = slotRow[s] <=> k \in rows
    BY <1>4, <1>5, <1>9, WrittenWords
  <2> QED BY <2>1, <2>2 DEF x
<1> QED BY <1>8, <1>9

LEMMA DoneScan == IInv => ScanExact
<1> SUFFICES ASSUME IInv, pc = "done"
             PROVE  Scanned = rows /\ CountRows = Cardinality(rows)
  BY DEF ScanExact
<1>1. rows \subseteq Keys /\ Placed = rows
  BY DEF IInv, TypeOK, PhaseInv, Placed
<1>2. Used = {s \in Slots : slotRow[s] # NoRow}
  BY WrittenWords DEF Used
<1>3. \A s \in Used : slotRow[s] \in rows /\ data[words[s].off] = slotRow[s] /\ Home(slotRow[s]) = s
  BY <1>2, WrittenWords DEF IInv, PlacedInv
<1>4. \A r \in rows : Home(r) \in Used /\ slotRow[Home(r)] = r
  <2> SUFFICES ASSUME NEW r \in rows PROVE Home(r) \in Used /\ slotRow[Home(r)] = r
    OBVIOUS
  <2>1. slotRow[Home(r)] = r /\ r # NoRow
    BY <1>1, LengthAssumption DEF IInv, PlacedInv
  <2>2. hash[r] \in Hashes
    BY DEF IInv, TypeOK
  <2>3. BucketOf(hash[r]) \in Buckets
    BY <2>2, <1>1, HashesAssumption, TablePositions
  <2>4. disp[BucketOf(hash[r])] \in Words
    BY <2>3 DEF IInv, TypeOK
  <2>5. Home(r) \in Slots
    BY <2>2, <2>4, <1>1, TablePositions DEF Home
  <2> QED BY <2>1, <2>5, <1>2
<1>5. Scanned = rows
  BY <1>3, <1>4 DEF Scanned
<1>6. Cardinality(Used) = Cardinality(rows)
  <2> DEFINE f == [r \in rows |-> Home(r)]
  <2>1. f \in [rows -> Used] /\ \A s \in Used : \E r \in rows : f[r] = s
    BY <1>3, <1>4
  <2>2. \A q, r \in rows : f[q] = f[r] => q = r
    BY <1>4
  <2> HIDE DEF f
  <2>3. f \in Injection(rows, Used) /\ f \in Surjection(rows, Used)
    BY <2>1, <2>2 DEF Injection, Surjection, IsInjective
  <2>4. ExistsBijection(rows, Used)
    BY <2>3 DEF Bijection, ExistsBijection
  <2>5. IsFiniteSet(rows)
    BY <1>1, TablesAssumption, FS_Subset
  <2> QED BY <2>4, <2>5, FS_Bijection
<1> QED BY <1>5, <1>6 DEF CountRows

----------------------------------------------------------------------------
\* The theorems.

THEOREM Invariance == Spec => []IInv
BY InitIInv, NextIInv, PTL DEF Spec

\* Every variable of placement and writing keeps its type, for any rows and hashes.
THEOREM TypeCorrect == Spec => []TypeOK
<1>1. IInv => TypeOK
  BY DEF IInv
<1> QED BY <1>1, Invariance, PTL

\* A compiled version 1 file answers each row with its record and every other key with "not
\* found", for any number of rows and any hashes (place, write, mapping.entry).
THEOREM LookupsAreExact == Spec => []LookupsExact
BY DoneLookups, Invariance, PTL

\* A scan of it passes each row once, and Len counts the rows (Scan, countRows).
THEOREM ScansAreExact == Spec => []ScanExact
BY DoneScan, Invariance, PTL

----------------------------------------------------------------------------
(****************************************************************************)
(* For every size of words, header and file: an accepted file has the       *)
(* sections a lookup reads, an incomplete version 2 file is not accepted,   *)
(* and a complete one is.                                                   *)
(****************************************************************************)


\* A value below Word is not changed by uint64 arithmetic.
LEMMA Uint64Small ==
    ASSUME NEW x \in Nat, x < Word
    PROVE  Uint64(x) = x
BY WordAssumption DEF Uint64

\* Rounding a count of bits or bytes up to whole words loses none.
LEMMA RoundUp8 ==
    ASSUME NEW x \in Nat
    PROVE  ((x + 7) \div 8) * 8 \in Nat /\ ((x + 7) \div 8) * 8 >= x
OBVIOUS

LEMMA RoundUp64 ==
    ASSUME NEW x \in Nat
    PROVE  ((x + 63) \div 64) * 8 \in Nat /\ ((x + 63) \div 64) * 64 >= x
OBVIOUS

\* The elements before and at index i take no more than count elements.
LEMMA ElementsFit ==
    ASSUME NEW count \in Nat, NEW i \in 0 .. count - 1, NEW w \in Nat
    PROVE  i * w \in Nat /\ count * w \in Nat /\ i * w + w <= count * w
<1>1. count * w = i * w + w + (count - i - 1) * w
  OBVIOUS
<1>2. (count - i - 1) * w >= 0
  OBVIOUS
<1> QED BY <1>1, <1>2

\* The 8 bytes getBits and setBits access at an element are inside the packed section.
LEMMA PackedLoads ==
    ASSUME NEW count \in Nat, NEW i \in 0 .. count - 1, NEW w \in 1 .. 32
    PROVE  BitsRead(i, w) <= PackedSize(count, w)
<1> DEFINE n == count * w
<1> DEFINE k == i * w
<1>1. k \in Nat /\ n \in Nat /\ k + w <= n
  BY ElementsFit
<1>2. ((n + 63) \div 64) * 64 >= n /\ (n + 63) \div 64 \in Nat
  BY <1>1
<1>3. k \div 8 <= ((n + 63) \div 64) * 8
  <2> HIDE DEF n, k
  <2> QED BY <1>1, <1>2
<1> QED BY <1>3, <1>1, <1>2 DEF BitsRead, PackedSize

\* The bytes mapping.off reads at an offset are inside the offsets section.
LEMMA OffsetLoads ==
    ASSUME NEW count \in Nat, NEW i \in 0 .. count - 1, NEW w \in {4, 5}
    PROVE  OffsetRead(i, w) <= OffsetsSize(count, w)
<1>1. i * w + w <= count * w /\ count * w \in Nat /\ i * w \in Nat
  BY ElementsFit
<1>2. ((count * w + 7) \div 8) * 8 >= count * w
  BY <1>1, RoundUp8
<1>3. CASE w = 4
  BY <1>1, <1>2, <1>3 DEF OffsetRead, OffsetsSize, NoSlack
<1>4. CASE w = 5
  BY <1>1, <1>2, <1>4 DEF OffsetRead, OffsetsSize, NoSlack
<1> QED BY <1>3, <1>4

\* The 4 bytes Slot reads of the free-slot section are inside it.
LEMMA FreeLoads ==
    ASSUME NEW n \in Nat, NEW m \in Nat, NEW q \in n .. m - 1
    PROVE  (q - n) * 4 + 4 <= FreeSize(n, m)
BY DEF FreeSize

----------------------------------------------------------------------------
\* The counts of an accepted version 1 header do not wrap.
LEMMA AcceptedV1 ==
    ASSUME NEW slots \in 0 .. Word - 1, NEW buckets \in 0 .. Word - 1, NEW w \in {2, 4},
           buckets <= (MaxUint64 - HeaderSize) \div w, slots <= MaxUint64 \div 8,
           Uint64(HeaderSize + buckets * w) <= Uint64(MaxUint64 - slots * 8 - 4)
    PROVE  /\ Uint64(HeaderSize + buckets * w) = HeaderSize + buckets * w
           /\ Uint64(HeaderSize + buckets * w + slots * 8) = HeaderSize + buckets * w + slots * 8
           /\ Uint64(HeaderSize + buckets * w + slots * 8 + 4) = HeaderSize + buckets * w + slots * 8 + 4
<1>1. buckets * w \in Nat /\ buckets * w <= MaxUint64 - HeaderSize
  BY WordAssumption DEF MaxUint64
<1>2. Uint64(HeaderSize + buckets * w) = HeaderSize + buckets * w
  BY <1>1, Uint64Small, WordAssumption DEF MaxUint64
<1>3. MaxUint64 - slots * 8 - 4 \in Nat
  BY WordAssumption DEF MaxUint64
<1>4. Uint64(MaxUint64 - slots * 8 - 4) = MaxUint64 - slots * 8 - 4
  BY <1>3, Uint64Small, WordAssumption DEF MaxUint64
<1>5. HeaderSize + buckets * w + slots * 8 + 4 < Word /\ HeaderSize + buckets * w + slots * 8 \in Nat
  BY <1>1, <1>2, <1>4, WordAssumption DEF MaxUint64
<1> DEFINE d == HeaderSize + buckets * w + slots * 8
<1>6. d \in Nat /\ d + 4 \in Nat /\ d < Word /\ d + 4 < Word
  <2>1. w \in Nat /\ slots \in Nat /\ HeaderSize \in Nat /\ Word \in Nat
    BY WordAssumption
  <2> QED BY <1>1, <1>5, <2>1
<1>7. Uint64(d) = d /\ Uint64(d + 4) = d + 4
  <2> HIDE DEF d
  <2> QED BY <1>6, Uint64Small
<1> QED BY <1>2, <1>7

----------------------------------------------------------------------------
\* An open file is one that parseHeader accepts, a rejected one is one that it does not
\* accept with its checksum verified.
OpenIsAccepted == status = "open" => Accepts(FALSE)
RejectedIsNot == status = "rejected" => ~Accepts(TRUE)

SizesInv == SizesTypeOK /\ OpenIsAccepted /\ RejectedIsNot

\* The size of a file is a natural number.
LEMMA SizesNat ==
    /\ \A f \in FilesV1 : f.version = 1 /\ SizeV1(f) \in Nat /\ FullSize(f) = SizeV1(f)
    /\ \A f \in FilesV2 : f.version = 2 /\ NumOffsets(f) \in Nat /\ DataV2(f) \in Nat
                          /\ SizeV2(f) \in Nat /\ FullSize(f) = SizeV2(f)
<1>1. ASSUME NEW f \in FilesV1
      PROVE  f.version = 1 /\ SizeV1(f) \in Nat /\ FullSize(f) = SizeV1(f)
  <2>1. f.B * f.w \in Nat
    BY FilesV1Assumption
  <2> QED BY <2>1, FilesV1Assumption, WordAssumption DEF SizeV1, FullSize, RoutingBytes
<1>2. ASSUME NEW f \in FilesV2
      PROVE  f.version = 2 /\ NumOffsets(f) \in Nat /\ DataV2(f) \in Nat
             /\ SizeV2(f) \in Nat /\ FullSize(f) = SizeV2(f)
  <2>1. \A c, w \in Nat : c * w \in Nat
    OBVIOUS
  <2>2. \A c, w \in Nat : PackedSize(c, w) \in Nat /\ OffsetsSize(c, w) \in Nat
    <3>1. \A x \in Nat : ((x + 63) \div 64) * 8 + 8 \in Nat /\ ((x + 7) \div 8) * 8 \in Nat
      OBVIOUS
    <3> QED BY <2>1, <3>1 DEF PackedSize, OffsetsSize, NoSlack
  <2>3. \A n, d \in Nat : d # 0 => n \div d \in Nat
    OBVIOUS
  <2>4. NumOffsets(f) \in Nat
    <3>1. f.N + f.per - 1 \in Nat /\ f.per \in Nat /\ f.per # 0
      BY FilesV2Assumption
    <3> QED BY <3>1, <2>3 DEF NumOffsets
  <2>5. PackedSize(f.P2, f.FW) \in Nat /\ PackedSize(f.NB - f.P2, f.BW) \in Nat
    <3>1. f.P2 \in Nat /\ f.FW \in Nat /\ f.NB - f.P2 \in Nat /\ f.BW \in Nat
      BY FilesV2Assumption
    <3> QED BY <3>1, <2>2
  <2>6. OffsetsSize(NumOffsets(f), f.ow) \in Nat
    BY <2>2, <2>4, FilesV2Assumption
  <2>7. FreeSize(f.N, f.M) \in Nat
    <3>1. f.M - f.N \in Nat
      BY FilesV2Assumption
    <3> QED BY <3>1 DEF FreeSize
  <2>8. f.version = 2 /\ f.blob \in Nat /\ HeaderSizeV2 \in Nat
    BY FilesV2Assumption, WordAssumption
  <2> QED BY <2>4, <2>5, <2>6, <2>7, <2>8 DEF DataV2, SizeV2, FullSize
<1> QED BY <1>1, <1>2

LEMMA SizesInitInv == SizesInit => SizesInv
<1> SUFFICES ASSUME SizesInit PROVE SizesInv
  OBVIOUS
<1>1. size \in 0 .. FullSize(file) /\ status = "closed"
  BY SizesNat DEF SizesInit
<1>2. counts.S \in 0 .. Word - 1 /\ counts.B \in 0 .. Word - 1
  <2>1. CASE file.version = 1
    <3>1. file \in FilesV1
      BY <2>1, FilesV2Assumption DEF SizesInit
    <3>2. file.S \in 0 .. Word - 1 /\ file.B \in 0 .. Word - 1
      <4>1. file.B * file.w >= file.B /\ file.B * file.w \in Nat
        BY <3>1, FilesV1Assumption
      <4> QED BY <3>1, <4>1, FilesV1Assumption, WordAssumption
    <3>3. counts \in [S : Counts, B : Counts] \/ counts = [S |-> file.S, B |-> file.B]
      BY <2>1 DEF SizesInit
    <3>4. CASE counts \in [S : Counts, B : Counts]
      BY <3>4, WordAssumption
    <3>5. CASE counts = [S |-> file.S, B |-> file.B]
      BY <3>5, <3>2
    <3> QED BY <3>3, <3>4, <3>5
  <2>2. CASE file.version # 1
    BY <2>2, WordAssumption DEF SizesInit
  <2> QED BY <2>1, <2>2
<1> QED BY <1>1, <1>2 DEF SizesInit, SizesInv, SizesTypeOK, OpenIsAccepted, RejectedIsNot

LEMMA SizesNextInv == SizesInv /\ [SizesNext]_sizeVars => SizesInv'
<1> SUFFICES ASSUME SizesInv, [SizesNext]_sizeVars PROVE SizesInv'
  OBVIOUS
<1>1. ASSUME NEW n \in size + 1 .. LastSize, WriteUpTo(n) PROVE SizesInv'
  <2>1. n \in 0 .. FullSize(file)
    BY SizesNat DEF SizesInv, SizesTypeOK, LastSize
  <2> QED BY <1>1, <2>1 DEF WriteUpTo, SizesInv, SizesTypeOK, OpenIsAccepted, RejectedIsNot, FullSize
<1>2. ASSUME NEW check \in BOOLEAN, OpenMapping(check) PROVE SizesInv'
  <2>1. SizesTypeOK'
    BY <1>2 DEF OpenMapping, SizesInv, SizesTypeOK, FullSize
  <2>2. status' = "open" => Accepts(FALSE)
    BY <1>2 DEF OpenMapping, Accepts
  <2>3. status' = "rejected" => ~Accepts(TRUE)
    BY <1>2 DEF OpenMapping, Accepts
  <2>4. Accepts(FALSE)' = Accepts(FALSE) /\ Accepts(TRUE)' = Accepts(TRUE)
    BY <1>2 DEF OpenMapping, Accepts, AcceptsV1, AcceptsV2, NoOverflow, R, D, Uint64, MaxUint64,
                IndexThere, BlobThere, DataRead, OffsetsRead, ChecksumRight, Intact, FullSize
  <2> QED BY <2>1, <2>2, <2>3, <2>4 DEF SizesInv, OpenIsAccepted, RejectedIsNot
<1>3. CASE UNCHANGED sizeVars
  BY <1>3 DEF sizeVars, SizesInv, SizesTypeOK, OpenIsAccepted, RejectedIsNot, ChecksumRight, Intact, FullSize, Accepts, AcceptsV1, AcceptsV2, NoOverflow,
              R, D, Uint64, MaxUint64, IndexThere, BlobThere, DataRead, OffsetsRead
<1> QED BY <1>1, <1>2, <1>3 DEF SizesNext

LEMMA SizesInvariance == SizesSpec => []SizesInv
BY SizesInitInv, SizesNextInv, PTL DEF SizesSpec

----------------------------------------------------------------------------
\* The index sections of an accepted version 1 header, damaged or not, lie in the mapping.
THEOREM IndexInMapping == SizesSpec => []SectionsInsideV1
<1>1. SizesInv => SectionsInsideV1
  <2> SUFFICES ASSUME SizesInv, status = "open", file.version = 1 PROVE
            /\ \A b \in 0 .. counts.B - 1 : HeaderSize + b * file.w + file.w <= R
            /\ \A s \in 0 .. counts.S - 1 : R + s * 8 + 8 <= D
            /\ D + 4 <= size
    BY DEF SectionsInsideV1
  <2>1. AcceptsV1
    BY DEF SizesInv, OpenIsAccepted, Accepts
  <2>2. file.w \in {2, 4}
    BY FilesV1Assumption, FilesV2Assumption DEF SizesInv, SizesTypeOK
  <2>3. counts.S \in 0 .. Word - 1 /\ counts.B \in 0 .. Word - 1
    BY DEF SizesInv, SizesTypeOK
  <2> DEFINE bw == counts.B * file.w
  <2>4. /\ R = HeaderSize + bw
        /\ D = HeaderSize + bw + counts.S * 8
        /\ Uint64(D + 4) = D + 4
    <3>1. Uint64(HeaderSize + counts.B * file.w) <= Uint64(MaxUint64 - counts.S * 8 - 4)
      BY <2>1 DEF AcceptsV1, NoOverflow, R
    <3>2. /\ counts.B <= (MaxUint64 - HeaderSize) \div file.w
          /\ counts.S <= MaxUint64 \div 8
      BY <2>1 DEF AcceptsV1, NoOverflow
    <3>3. /\ Uint64(HeaderSize + bw) = HeaderSize + bw
          /\ Uint64(HeaderSize + bw + counts.S * 8) = HeaderSize + bw + counts.S * 8
          /\ Uint64(HeaderSize + bw + counts.S * 8 + 4) = HeaderSize + bw + counts.S * 8 + 4
      BY <3>1, <3>2, <2>2, <2>3, AcceptedV1
    <3>4. R = HeaderSize + bw
      BY <3>3 DEF R
    <3>5. D = HeaderSize + bw + counts.S * 8
      BY <3>4, <3>3 DEF D
    <3> QED BY <3>4, <3>5, <3>3
  <2>5. D + 4 <= size
    BY <2>1, <2>4 DEF AcceptsV1
  <2>6. ASSUME NEW b \in 0 .. counts.B - 1 PROVE HeaderSize + b * file.w + file.w <= R
    <3>1. b * file.w + file.w <= bw /\ bw \in Nat /\ b * file.w \in Nat
      BY <2>2, <2>3, ElementsFit
    <3> HIDE DEF bw
    <3> QED BY <3>1, <2>2, <2>4, WordAssumption
  <2>7. ASSUME NEW s \in 0 .. counts.S - 1 PROVE R + s * 8 + 8 <= D
    <3>1. bw \in Nat
      BY <2>2, <2>3
    <3> HIDE DEF bw
    <3> QED BY <3>1, <2>3, <2>4, WordAssumption
  <2> QED BY <2>5, <2>6, <2>7
<1> QED BY SizesInvariance, <1>1, PTL

\* No load of a pilot, a free slot or an offset leaves its section, for any table and widths.
THEOREM LoadsStayInside == SizesSpec => []LoadsInsideV2
<1>1. SizesInv => LoadsInsideV2
  <2> SUFFICES ASSUME SizesInv, file.version = 2 PROVE
        /\ \A i \in 0 .. file.P2 - 1 : BitsRead(i, file.FW) <= PackedSize(file.P2, file.FW)
        /\ \A i \in 0 .. file.NB - file.P2 - 1 :
               BitsRead(i, file.BW) <= PackedSize(file.NB - file.P2, file.BW)
        /\ \A q \in file.N .. file.M - 1 : (q - file.N) * 4 + 4 <= FreeSize(file.N, file.M)
        /\ \A i \in 0 .. OffsetsRead(file) - 1 :
               OffsetRead(i, file.ow) <= OffsetsSize(OffsetsRead(file), file.ow)
    BY DEF LoadsInsideV2
  <2>1. file \in FilesV2
    BY FilesV1Assumption DEF SizesInv, SizesTypeOK
  <2>2. /\ file.P2 \in Nat /\ file.NB - file.P2 \in Nat
        /\ file.FW \in 1 .. 32 /\ file.BW \in 1 .. 32 /\ file.ow \in {4, 5}
        /\ file.N \in Nat /\ file.M \in Nat /\ OffsetsRead(file) \in Nat
    BY <2>1, FilesV2Assumption, SizesNat DEF OffsetsRead
  <2>3. \A i \in 0 .. file.P2 - 1 : BitsRead(i, file.FW) <= PackedSize(file.P2, file.FW)
    BY <2>2, PackedLoads
  <2>4. \A i \in 0 .. file.NB - file.P2 - 1 :
            BitsRead(i, file.BW) <= PackedSize(file.NB - file.P2, file.BW)
    BY <2>2, PackedLoads
  <2>5. \A q \in file.N .. file.M - 1 : (q - file.N) * 4 + 4 <= FreeSize(file.N, file.M)
    BY <2>2, FreeLoads
  <2>6. \A i \in 0 .. OffsetsRead(file) - 1 :
            OffsetRead(i, file.ow) <= OffsetsSize(OffsetsRead(file), file.ow)
    BY <2>2, OffsetLoads
  <2> QED BY <2>3, <2>4, <2>5, <2>6
<1> QED BY SizesInvariance, <1>1, PTL

\* A version 2 file that is open is complete, whether or not its checksum was verified.
THEOREM OpenV2IsComplete == SizesSpec => []OpenIsCompleteV2
<1>1. SizesInv => OpenIsCompleteV2
  <2> SUFFICES ASSUME SizesInv, status = "open", file.version = 2 PROVE size = FullSize(file)
    BY DEF OpenIsCompleteV2
  <2>1. BlobThere
    BY DEF SizesInv, OpenIsAccepted, Accepts, AcceptsV2
  <2>2. file \in FilesV2
    BY FilesV1Assumption DEF SizesInv, SizesTypeOK
  <2>3. DataV2(file) + file.blob + 4 = FullSize(file) /\ FullSize(file) \in Nat
    BY <2>2, SizesNat DEF SizeV2
  <2>4. DataRead = DataV2(file)
    BY DEF DataRead, DataV2, OffsetsRead
  <2> QED BY <2>1, <2>3, <2>4 DEF BlobThere, SizesInv, SizesTypeOK
<1> QED BY SizesInvariance, <1>1, PTL

\* A complete file with an undamaged header is never rejected.
THEOREM CompleteIsAccepted == SizesSpec => []CompleteAccepted
<1>1. SizesInv => CompleteAccepted
  <2> SUFFICES ASSUME SizesInv, size = FullSize(file), Intact PROVE Accepts(TRUE)
    BY DEF CompleteAccepted, SizesInv, RejectedIsNot
  <2>1. CASE file.version = 1
    <3>1. file \in FilesV1 /\ size = SizeV1(file) /\ counts = [S |-> file.S, B |-> file.B]
      BY <2>1, FilesV2Assumption, SizesNat DEF SizesInv, SizesTypeOK, Intact
    <3> DEFINE bw == file.B * file.w
    <3>2. /\ file.S \in Nat \ {0} /\ file.B \in Nat \ {0} /\ file.w \in {2, 4} /\ file.blob \in Nat
          /\ bw \in Nat /\ HeaderSize + bw + file.S * 8 + file.blob + 4 < Word
      BY <3>1, FilesV1Assumption
    <3>3. size = HeaderSize + bw + file.S * 8 + file.blob + 4
      BY <3>1 DEF SizeV1, RoutingBytes
    <3>4. counts.S = file.S /\ counts.B = file.B
      BY <3>1
    <3>5. file.B <= (MaxUint64 - HeaderSize) \div file.w
      BY <3>2, WordAssumption DEF MaxUint64
    <3>6. file.S <= MaxUint64 \div 8
      <4> HIDE DEF bw
      <4> QED BY <3>2, WordAssumption DEF MaxUint64
    <3>7. R = HeaderSize + bw /\ HeaderSize + bw \in Nat
      <4> HIDE DEF bw
      <4>1. HeaderSize + bw \in Nat /\ HeaderSize + bw < Word
        BY <3>2, WordAssumption
      <4>2. Uint64(HeaderSize + bw) = HeaderSize + bw
        BY <4>1, Uint64Small
      <4> USE DEF bw
      <4> QED BY <4>1, <4>2, <3>4 DEF R
    <3> HIDE DEF bw
    <3>8. D = R + file.S * 8 /\ Uint64(D + 4) = D + 4
      <4>1. /\ R + file.S * 8 \in Nat /\ R + file.S * 8 < Word
            /\ R + file.S * 8 + 4 \in Nat /\ R + file.S * 8 + 4 < Word
        BY <3>2, <3>7, WordAssumption
      <4>2. Uint64(R + file.S * 8) = R + file.S * 8
        BY <4>1, Uint64Small
      <4>3. Uint64(R + file.S * 8 + 4) = R + file.S * 8 + 4
        BY <4>1, Uint64Small
      <4> QED BY <4>2, <4>3, <3>4 DEF D
    <3>9. R <= Uint64(MaxUint64 - file.S * 8 - 4)
      <4>1. MaxUint64 - file.S * 8 - 4 \in Nat /\ MaxUint64 - file.S * 8 - 4 < Word
            /\ R <= MaxUint64 - file.S * 8 - 4
        BY <3>2, <3>7, WordAssumption DEF MaxUint64
      <4> QED BY <4>1, Uint64Small
    <3>10. size >= HeaderSize /\ D + 4 <= size
      BY <3>2, <3>3, <3>7, <3>8, WordAssumption
    <3> QED BY <2>1, <3>2, <3>4, <3>5, <3>6, <3>8, <3>9, <3>10
         DEF Accepts, AcceptsV1, NoOverflow, ChecksumRight
  <2>2. CASE file.version # 1
    <3>1. file \in FilesV2 /\ size = DataV2(file) + file.blob + 4
      BY <2>2, FilesV1Assumption, SizesNat DEF SizesInv, SizesTypeOK, SizeV2
    <3>2. DataRead = DataV2(file)
      BY DEF DataRead, DataV2, OffsetsRead
    <3>3. DataV2(file) >= HeaderSizeV2
      <4>1. \A c, w \in Nat : PackedSize(c, w) \in Nat /\ OffsetsSize(c, w) \in Nat
        <5>1. \A c, w \in Nat : c * w \in Nat
          OBVIOUS
        <5>2. \A x \in Nat : ((x + 63) \div 64) * 8 + 8 \in Nat /\ ((x + 7) \div 8) * 8 \in Nat
          OBVIOUS
        <5> QED BY <5>1, <5>2 DEF PackedSize, OffsetsSize, NoSlack
      <4>2. /\ file.P2 \in Nat /\ file.FW \in Nat /\ file.NB - file.P2 \in Nat /\ file.BW \in Nat
            /\ file.ow \in Nat /\ NumOffsets(file) \in Nat /\ file.M - file.N \in Nat
        BY <3>1, FilesV2Assumption, SizesNat
      <4>3. FreeSize(file.N, file.M) \in Nat
        BY <4>2 DEF FreeSize
      <4>4. PackedSize(file.P2, file.FW) \in Nat /\ PackedSize(file.NB - file.P2, file.BW) \in Nat
        BY <4>1, <4>2
      <4>5. OffsetsSize(NumOffsets(file), file.ow) \in Nat
        BY <4>1, <4>2
      <4> QED BY <4>3, <4>4, <4>5, WordAssumption DEF DataV2
    <3>4. file.blob \in Nat /\ file.M <= 2 * file.N + 16 /\ DataV2(file) \in Nat
      BY <3>1, FilesV2Assumption, SizesNat
    <3> QED BY <2>2, <3>1, <3>2, <3>3, <3>4, WordAssumption
         DEF Accepts, AcceptsV2, IndexThere, BlobThere, ChecksumRight
  <2> QED BY <2>1, <2>2
<1> QED BY SizesInvariance, <1>1, PTL

\* Every variable of the model keeps its type, for any set of files and any word size.
THEOREM SizesTypeCorrect == SizesSpec => []SizesTypeOK
<1>1. SizesInv => SizesTypeOK
  BY DEF SizesInv
<1> QED BY SizesInvariance, <1>1, PTL

\* Whatever is accepted can be read without leaving the mapping: sections of version 1
\* whatever the counts, pilots, free slots and offsets of version 2.
THEOREM LoadsAreInside == SizesSpec => []LoadsInside
BY IndexInMapping, LoadsStayInside, SizesTypeCorrect, PTL DEF LoadsInside

\* parseHeader and parseHeaderV2 accept complete files and, in version 2, no others.
THEOREM AcceptanceIsExact == SizesSpec => []AcceptsExactly
BY OpenV2IsComplete, CompleteIsAccepted, PTL DEF AcceptsExactly

----------------------------------------------------------------------------
(****************************************************************************)
(* CompileFile never shows an incomplete file, for every number of          *)
(* compilers, readers, files and faults.  The argument: until it is renamed *)
(* a temporary file is private to the compiler that writes it, and what is  *)
(* renamed has been written and synced; so a file that a name or a reader   *)
(* refers to is never written again, and survives a power loss.             *)
(****************************************************************************)


Temporary == {"write1", "sync1", "rename"}
InPlace == {"write2", "sync2"}

Types ==
    /\ version \in Formats /\ out \in Files \cup {NoFile} /\ outKept \in Files \cup {NoFile}
    /\ content \in [Files -> {"unused", "part", "whole"}] /\ synced \in [Files -> BOOLEAN]
    /\ stage \in [Compilers -> {"idle", "write1", "sync1", "rename", "write2", "sync2"}]
    /\ fd \in [Compilers -> Files \cup {NoFile}]
    /\ mapping \in [Readers -> Files \cup {NoFile}]
    /\ faults \in 0 .. MaxFaults

Modes ==
    \A c \in Compilers :
       /\ stage[c] \in Temporary => version = 1
       /\ stage[c] \in InPlace => version = 2
       /\ stage[c] = "idle" <=> fd[c] = NoFile

\* No name, no reader and no other compiler refers to the file c writes.
Private(c) ==
    /\ content[fd[c]] # "unused"
    /\ fd[c] # out /\ fd[c] # outKept
    /\ \A r \in Readers : mapping[r] # fd[c]
    /\ \A d \in Compilers \ {c} : fd[c] # fd[d]

Durable(f) == content[f] = "whole" /\ synced[f]

PrivateInv == \A c \in Compilers : stage[c] \in Temporary => Private(c)

WrittenInv ==
    \A c \in Compilers : /\ stage[c] \in {"sync1", "rename"} => content[fd[c]] = "whole"
                         /\ stage[c] = "rename" => Durable(fd[c])

NamedInv ==
    version = 1 => /\ out # NoFile => Durable(out)
                   /\ outKept # NoFile => Durable(outKept)
                   /\ \A r \in Readers : mapping[r] # NoFile => Durable(mapping[r])

OutputInv == Types /\ Modes /\ PrivateInv /\ WrittenInv /\ NamedInv

----------------------------------------------------------------------------
\* outPath holds nothing or a synced blob.
LEMMA OutputInitInv == OutputInit => OutputInv
  <1> SUFFICES ASSUME OutputInit PROVE OutputInv
    OBVIOUS
  <1>1. Types
    <2>1. out \in Files \cup {NoFile}
      BY BoundsAssumption DEF OutputInit, Files
    <2>2. faults \in 0 .. MaxFaults
      BY BoundsAssumption DEF OutputInit
    <2> QED
      BY <2>1, <2>2 DEF OutputInit, Types
  <1>2. Modes /\ PrivateInv /\ WrittenInv
    BY DEF OutputInit, Modes, PrivateInv, WrittenInv, Temporary, InPlace
  <1>3. NamedInv
    BY <1>1 DEF OutputInit, Types, NamedInv, Durable, Files, NoFile
  <1> QED
    BY <1>1, <1>2, <1>3 DEF OutputInv

\* A file that is unused is one no name, reader or compiler refers to.
LEMMA FreshIsUnknown ==
  ASSUME OutputInv, version = 1, NEW f \in Files, content[f] = "unused"
  PROVE  /\ f # out /\ f # outKept
         /\ \A r \in Readers : mapping[r] # f
         /\ \A d \in Compilers : fd[d] # f
  <1>1. f # out /\ f # outKept /\ \A r \in Readers : mapping[r] # f
    BY DEF OutputInv, Types, NamedInv, Durable, Files, NoFile
  <1>2. ASSUME NEW d \in Compilers PROVE fd[d] # f
    <2>1. stage[d] \in Temporary \/ fd[d] = NoFile
      BY DEF OutputInv, Types, Modes, Temporary, InPlace
    <2> QED
      BY <2>1 DEF OutputInv, PrivateInv, Private, Files, NoFile
  <1> QED
    BY <1>1, <1>2

\* While Compile writes in place there are no temporary files.
LEMMA NoTemporaryNext ==
  ASSUME Types', Modes', version' = 2
  PROVE  OutputInv'
  <1>1. \A c \in Compilers : stage'[c] \notin Temporary
    BY DEF Modes
  <1> QED
    BY <1>1 DEF OutputInv, PrivateInv, WrittenInv, NamedInv, Temporary

\* A compiler in a temporary stage has a file of its own.
LEMMA OwnFile ==
  ASSUME OutputInv, NEW c \in Compilers, stage[c] \in Temporary
  PROVE  version = 1 /\ fd[c] \in Files /\ Private(c)
  BY DEF OutputInv, Types, Modes, PrivateInv, Temporary, Files, NoFile

----------------------------------------------------------------------------
\* One lemma per action.

\* The new file is nobody's; nothing that is named or mapped changes.
LEMMA CreateTempStep ==
  ASSUME OutputInv, NEW c \in Compilers, CreateTemp(c)
  PROVE  OutputInv'
  <1>1. PICK f \in Files : NewFile(c, f)
    BY DEF CreateTemp
  <1>2. version = 1 /\ content[f] = "unused"
    BY <1>1 DEF CreateTemp, NewFile, FreshFile
  <1>3. /\ f # out /\ f # outKept
        /\ \A r \in Readers : mapping[r] # f
        /\ \A d \in Compilers : fd[d] # f
    BY <1>2, FreshIsUnknown
  <1>4. Types'
    BY <1>1, <1>2, <1>3 DEF CreateTemp, Step, NewFile, OutputInv, Types
  <1>5. Modes'
    BY <1>1, <1>2, <1>3
       DEF CreateTemp, Step, NewFile, OutputInv, Types, Modes, Temporary, InPlace, Files, NoFile
  <1>6. PrivateInv'
    BY <1>1, <1>2, <1>3
       DEF CreateTemp, Step, NewFile, OutputInv, Types, PrivateInv, Private, Temporary, Files,
           NoFile
  <1>7. WrittenInv'
    BY <1>1, <1>2, <1>3
       DEF CreateTemp, Step, NewFile, OutputInv, Types, WrittenInv, Durable, PrivateInv,
           Private, Temporary
  <1>8. NamedInv'
    BY <1>1, <1>2, <1>3
       DEF CreateTemp, Step, NewFile, OutputInv, Types, NamedInv, Durable, Private, Files, NoFile
  <1> QED
    BY <1>4, <1>5, <1>6, <1>7, <1>8 DEF OutputInv

\* A temporary file is private, so writing it changes nothing that is named.
LEMMA WriteStep ==
  ASSUME OutputInv, NEW c \in Compilers, Write(c)
  PROVE  OutputInv'
  <1>1. CASE version = 2
    <2>1. Types' /\ Modes'
      BY <1>1 DEF Write, Step, OutputInv, Types, Modes, Temporary, InPlace, Files, NoFile
    <2> QED
      BY <1>1, <2>1, NoTemporaryNext DEF Write
  <1>2. CASE version = 1
    <2>1. stage[c] = "write1" /\ stage' = [stage EXCEPT ![c] = "sync1"]
      BY <1>2 DEF Write, Step, OutputInv, Modes, InPlace
    <2>2. fd[c] \in Files /\ Private(c)
      BY <2>1, OwnFile DEF Temporary
    <2>3. Types'
      BY <2>1, <2>2 DEF Write, OutputInv, Types
    <2>4. Modes'
      BY <2>1, <2>2 DEF Write, OutputInv, Types, Modes, Temporary, InPlace, Files, NoFile
    <2>5. PrivateInv'
      BY <2>1, <2>2 DEF Write, OutputInv, Types, PrivateInv, Private, Temporary, Files, NoFile
    <2>6. WrittenInv'
      BY <2>1, <2>2
         DEF Write, OutputInv, Types, WrittenInv, Durable, PrivateInv, Private, Temporary
    <2>7. NamedInv'
      BY <2>1, <2>2 DEF Write, OutputInv, Types, NamedInv, Durable, Private, Files, NoFile
    <2> QED
      BY <2>3, <2>4, <2>5, <2>6, <2>7 DEF OutputInv
  <1> QED
    BY <1>1, <1>2, FormatsAssumption DEF OutputInv, Types

LEMMA SyncTempStep ==
  ASSUME OutputInv, NEW c \in Compilers, SyncTemp(c)
  PROVE  OutputInv'
  <1>1. version = 1 /\ fd[c] \in Files /\ Private(c)
    BY OwnFile DEF SyncTemp, Step, SyncDone, Temporary
  <1>2. Types'
    BY <1>1, BoundsAssumption DEF SyncTemp, Step, SyncDone, OutputInv, Types
  <1>3. Modes'
    BY <1>1
       DEF SyncTemp, Step, SyncDone, OutputInv, Types, Modes, Temporary, InPlace, Files, NoFile
  <1>4. PrivateInv'
    BY <1>1
       DEF SyncTemp, Step, SyncDone, OutputInv, Types, PrivateInv, Private, Temporary, Files,
           NoFile
  <1>5. WrittenInv'
    BY <1>1
       DEF SyncTemp, Step, SyncDone, OutputInv, Types, WrittenInv, Durable, PrivateInv,
           Private, Temporary
  <1>6. NamedInv'
    BY <1>1
       DEF SyncTemp, Step, SyncDone, OutputInv, Types, NamedInv, Durable, Private, Files, NoFile
  <1> QED
    BY <1>2, <1>3, <1>4, <1>5, <1>6 DEF OutputInv

\* WrittenInv: what the path names from now on has been written and synced.
LEMMA RenameStep ==
  ASSUME OutputInv, NEW c \in Compilers, Rename(c)
  PROVE  OutputInv'
  <1>1. version = 1 /\ fd[c] \in Files /\ Private(c)
    BY OwnFile DEF Rename, Step, Temporary
  <1>2. Types'
    BY <1>1, BoundsAssumption DEF Rename, Step, OutputInv, Types
  <1>3. Modes'
    BY <1>1 DEF Rename, Step, OutputInv, Types, Modes, Temporary, InPlace, Files, NoFile
  <1>4. PrivateInv'
    BY <1>1
       DEF Rename, Step, OutputInv, Types, Modes, PrivateInv, Private, Temporary, Files, NoFile
  <1>5. WrittenInv'
    BY <1>1
       DEF Rename, Step, OutputInv, Types, WrittenInv, Durable, PrivateInv, Private, Temporary
  <1>6. NamedInv'
    BY <1>1 DEF Rename, Step, OutputInv, Types, WrittenInv, NamedInv, Durable, Files, NoFile
  <1> QED
    BY <1>2, <1>3, <1>4, <1>5, <1>6 DEF OutputInv

LEMMA FailsStep ==
  ASSUME OutputInv, NEW c \in Compilers, Fails(c)
  PROVE  OutputInv'
  <1>1. version = 1 /\ fd[c] \in Files /\ Private(c)
    BY OwnFile DEF Fails, Fault, Temporary
  <1>2. Types'
    BY <1>1, BoundsAssumption DEF Fails, Fault, OutputInv, Types
  <1>3. Modes'
    BY <1>1 DEF Fails, Fault, OutputInv, Types, Modes, Temporary, InPlace, Files, NoFile
  <1>4. PrivateInv'
    BY <1>1
       DEF Fails, Fault, OutputInv, Types, Modes, PrivateInv, Private, Temporary, Files, NoFile
  <1>5. WrittenInv'
    BY <1>1
       DEF Fails, Fault, OutputInv, Types, WrittenInv, Durable, PrivateInv, Private, Temporary
  <1>6. NamedInv'
    BY <1>1 DEF Fails, Fault, OutputInv, Types, NamedInv, Durable, Private, Files, NoFile
  <1> QED
    BY <1>2, <1>3, <1>4, <1>5, <1>6 DEF OutputInv

LEMMA CreateInPlaceStep ==
  ASSUME OutputInv, NEW c \in Compilers, CreateInPlace(c)
  PROVE  OutputInv'
  <1>1. version = 2 /\ version' = 2
    BY DEF CreateInPlace, Step, OutputInv, Modes, InPlace
  <1>2. Types'
    BY BoundsAssumption DEF CreateInPlace, Step, NewFile, FreshFile, OutputInv, Types
  <1>3. Modes'
    BY <1>1
       DEF CreateInPlace, Step, NewFile, FreshFile, OutputInv, Types, Modes, Temporary,
           InPlace, Files, NoFile
  <1> QED
    BY <1>1, <1>2, <1>3, NoTemporaryNext

LEMMA SyncInPlaceStep ==
  ASSUME OutputInv, NEW c \in Compilers, SyncInPlace(c)
  PROVE  OutputInv'
  <1>1. version = 2 /\ version' = 2
    BY DEF SyncInPlace, Step, OutputInv, Modes, InPlace
  <1>2. Types'
    BY BoundsAssumption DEF SyncInPlace, Step, OutputInv, Types
  <1>3. Modes'
    BY <1>1 DEF SyncInPlace, Step, OutputInv, Types, Modes, Temporary, InPlace, Files, NoFile
  <1> QED
    BY <1>1, <1>2, <1>3, NoTemporaryNext

LEMMA FailsInPlaceStep ==
  ASSUME OutputInv, NEW c \in Compilers, FailsInPlace(c)
  PROVE  OutputInv'
  <1>1. version = 2 /\ version' = 2
    BY DEF FailsInPlace, Step, OutputInv, Modes, InPlace
  <1>2. Types'
    BY BoundsAssumption DEF FailsInPlace, Fault, OutputInv, Types
  <1>3. Modes'
    BY <1>1 DEF FailsInPlace, Fault, OutputInv, Types, Modes, Temporary, InPlace, Files, NoFile
  <1> QED
    BY <1>1, <1>2, <1>3, NoTemporaryNext

LEMMA CrashStep ==
  ASSUME OutputInv, NEW c \in Compilers, Crash(c)
  PROVE  OutputInv'
  <1>1. Types'
    BY BoundsAssumption DEF Crash, Fault, OutputInv, Types
  <1>2. Modes'
    BY DEF Crash, Fault, OutputInv, Types, Modes, Temporary, InPlace, Files, NoFile
  <1>3. PrivateInv'
    BY DEF Crash, Fault, OutputInv, Types, Modes, PrivateInv, Private, Temporary, Files, NoFile
  <1>4. WrittenInv'
    BY DEF Crash, Fault, OutputInv, Types, WrittenInv, Durable, PrivateInv, Private, Temporary
  <1>5. NamedInv'
    BY DEF Crash, Fault, OutputInv, Types, NamedInv, Durable, Private, Files, NoFile
  <1> QED
    BY <1>1, <1>2, <1>3, <1>4, <1>5 DEF OutputInv

LEMMA OpenStep ==
  ASSUME OutputInv, NEW r \in Readers, Open(r)
  PROVE  OutputInv'
  <1>1. Types'
    BY BoundsAssumption DEF Open, OutputInv, Types
  <1>2. Modes'
    BY DEF Open, OutputInv, Types, Modes, Temporary, InPlace, Files, NoFile
  <1>3. PrivateInv'
    BY DEF Open, OutputInv, Types, PrivateInv, Private, Temporary, Files, NoFile
  <1>4. WrittenInv'
    BY DEF Open, OutputInv, Types, WrittenInv, Durable, PrivateInv, Private, Temporary
  <1>5. NamedInv'
    BY DEF Open, OutputInv, Types, NamedInv, Durable, Private, Files, NoFile
  <1> QED
    BY <1>1, <1>2, <1>3, <1>4, <1>5 DEF OutputInv

LEMMA WriteBackStep ==
  ASSUME OutputInv, WriteBack
  PROVE  OutputInv'
  <1>1. Types'
    BY BoundsAssumption DEF WriteBack, OutputInv, Types
  <1>2. Modes'
    BY DEF WriteBack, OutputInv, Types, Modes, Temporary, InPlace, Files, NoFile
  <1>3. PrivateInv'
    BY DEF WriteBack, OutputInv, Types, PrivateInv, Private, Temporary, Files, NoFile
  <1>4. WrittenInv'
    BY DEF WriteBack, OutputInv, Types, WrittenInv, Durable, PrivateInv, Private, Temporary
  <1>5. NamedInv'
    BY DEF WriteBack, OutputInv, Types, NamedInv, Durable, Private, Files, NoFile
  <1> QED
    BY <1>1, <1>2, <1>3, <1>4, <1>5 DEF OutputInv

\* What the path may name afterwards, out or outKept, was synced.
LEMMA PowerLossStep ==
  ASSUME OutputInv, PowerLoss
  PROVE  OutputInv'
  <1>1. Types'
    BY BoundsAssumption DEF PowerLoss, Fault, OutputInv, Types
  <1>2. Modes'
    BY DEF PowerLoss, Fault, OutputInv, Types, Modes, Temporary, InPlace, Files, NoFile
  <1>3. PrivateInv'
    BY DEF PowerLoss, Fault, OutputInv, Types, PrivateInv, Private, Temporary, Files, NoFile
  <1>4. WrittenInv'
    BY
       DEF PowerLoss, Fault, OutputInv, Types, WrittenInv, Durable, PrivateInv, Private,
           Temporary
  <1>5. NamedInv'
    BY DEF PowerLoss, Fault, OutputInv, Types, NamedInv, Durable, Private, Files, NoFile
  <1> QED
    BY <1>1, <1>2, <1>3, <1>4, <1>5 DEF OutputInv

----------------------------------------------------------------------------
\* The inductive invariant holds in every reachable state.
THEOREM OutputInvariance == OutputSpec => []OutputInv
  <1>1. OutputInv /\ [OutputNext]_outputVars => OutputInv'
    <2> SUFFICES ASSUME OutputInv, [OutputNext]_outputVars PROVE OutputInv'
      OBVIOUS
    <2>1. CASE UNCHANGED outputVars
      BY <2>1
         DEF outputVars, OutputInv, Types, Modes, PrivateInv, Private, WrittenInv, NamedInv, Durable
    <2>2. CASE OutputNext
      BY <2>2, CreateTempStep, WriteStep, SyncTempStep, RenameStep, FailsStep,
         CreateInPlaceStep, SyncInPlaceStep, FailsInPlaceStep, CrashStep, OpenStep,
         WriteBackStep, PowerLossStep DEF OutputNext
    <2> QED
      BY <2>1, <2>2
  <1> QED
    BY OutputInitInv, <1>1, PTL DEF OutputSpec

\* Every variable keeps its type, and a temporary file has one writer.
THEOREM OutputTypeCorrect == OutputSpec => []OutputTypeOK
  <1>1. OutputInv => OutputTypeOK
    BY DEF OutputInv, Types, OutputTypeOK, PrivateInv, Private, Temporary
  <1> QED
    BY OutputInvariance, <1>1, PTL

\* CompileFile: the path never names an incomplete file, whatever fails and after a power
\* loss.
THEOREM OutStaysIntact == OutputSpec => []OutIntact
  <1>1. OutputInv => OutIntact
    BY DEF OutputInv, NamedInv, Durable, OutIntact
  <1> QED
    BY OutputInvariance, <1>1, PTL

\* CompileFile: a mapped file is never changed under its reader.
THEOREM MappingStaysIntact == OutputSpec => []MappingIntact
  <1>1. OutputInv => MappingIntact
    BY DEF OutputInv, NamedInv, Durable, MappingIntact
  <1> QED
    BY OutputInvariance, <1>1, PTL

----------------------------------------------------------------------------
(****************************************************************************)
(* For every base, all schemas and all arguments: a typed value is read as  *)
(* it was encoded, and in a part of it a field is read so or not at all.    *)
(****************************************************************************)

FieldTypes == Unsigned \cup Signed \cup Floats \cup Variable \cup {"Bool"}

LEMMA WordIs ==
    /\ WordSize \in Nat \ {0} /\ Base \in Nat \ {0, 1} /\ WordSize >= 2 * Base
    /\ WordSize = (Base - 1) * Base + Base
  <1>1. Base \in Nat /\ Base >= 2
    BY BaseAssumption
  <1> DEFINE d == Base - 2
  <1>2. d \in Nat /\ Base = d + 2
    BY <1>1
  <1>3. d * Base \in Nat
    BY <1>1, <1>2
  <1>4. WordSize = d * Base + 2 * Base
    <2>1. (d + 2) * Base = d * Base + 2 * Base
      BY <1>1, <1>2
    <2> QED
      BY <1>2, <2>1 DEF WordSize
  <1>5. (Base - 1) * Base = d * Base + Base
    <2>1. (d + 1) * Base = d * Base + Base /\ Base - 1 = d + 1
      BY <1>1, <1>2
    <2> QED
      BY <2>1
  <1> HIDE DEF d
  <1> QED
    BY <1>1, <1>3, <1>4, <1>5

\* The two digits of a word.
LEMMA DigitsOf ==
    ASSUME NEW n \in 0 .. WordSize - 1
    PROVE  /\ n \div Base \in 0 .. Base - 1 /\ n % Base \in 0 .. Base - 1
           /\ (n \div Base) % Base = n \div Base
           /\ ((n \div Base) * Base) + (n % Base) = n
  <1> DEFINE q == n \div Base
             r == n % Base
  <1>1. n \in Nat /\ Base \in Nat \ {0} /\ n < WordSize
    BY WordIs
  <1>2. q \in Nat /\ r \in 0 .. Base - 1 /\ q * Base <= n
    BY <1>1, Quotient
  <1>3. q * Base + r = n
    <2>1. n = Base * q + r
      BY <1>1
    <2> HIDE DEF q, r
    <2> QED
      BY <1>1, <1>2, <2>1
  <1> HIDE DEF q, r
  <1>4. q < Base
    <2> SUFFICES ASSUME Base <= q PROVE FALSE
      BY <1>1, <1>2
    <2> DEFINE e == Base - 1
    <2>1. e \in Nat /\ e < q /\ Base = e + 1
      BY <1>1, <1>2
    <2> HIDE DEF e
    <2>2. (e + 1) * Base <= q * Base
      BY <1>1, <1>2, <2>1, Multiples
    <2>3. (e + 1) * Base = WordSize
      BY <2>1 DEF WordSize
    <2>4. q * Base \in Nat
      BY <1>1, <1>2
    <2> QED
      BY <1>1, <1>2, <2>2, <2>3, <2>4, WordIs
  <1>5. q % Base = q
    <2>1. 0 * Base + q = q /\ q \in 0 .. Base - 1
      BY <1>1, <1>2, <1>4
    <2> QED
      BY <1>1, <2>1, RemainderIs
  <1>6. q \in 0 .. Base - 1
    BY <1>1, <1>2, <1>4
  <1> QED
    BY <1>2, <1>3, <1>5, <1>6 DEF q, r

LEMMA SmallRemainder ==
    ASSUME NEW m \in Nat \ {0}, NEW a \in 0 .. m - 1
    PROVE  a % m = a
  <1>1. 0 * m + a = a
    OBVIOUS
  <1> QED
    BY <1>1, RemainderIs

LEMMA NegativeRemainder ==
    ASSUME NEW m \in Nat \ {0}, NEW a \in Int, -m <= a, a < 0
    PROVE  a % m = a + m
  <1> DEFINE q == a \div m
             r == a % m
  <1>1. q \in Int /\ r \in 0 .. m - 1 /\ a = m * q + r
    OBVIOUS
  <1> HIDE DEF q, r
  <1>2. q < 0
    <2> SUFFICES ASSUME q >= 0 PROVE FALSE
      BY <1>1
    <2>1. m * q >= 0
      BY <1>1
    <2> QED
      BY <1>1, <2>1
  <1>3. q > -2
    <2> SUFFICES ASSUME q <= -2 PROVE FALSE
      BY <1>1
    <2> DEFINE d == -2 - q
    <2>1. d \in Nat /\ q = -2 - d
      BY <1>1
    <2> HIDE DEF d
    <2>2. m * q = -(2 * m) - m * d /\ m * d \in Nat
      BY <2>1
    <2> QED
      BY <1>1, <2>2
  <1>4. q = -1
    BY <1>1, <1>2, <1>3
  <1>5. m * q = -m
    BY <1>4
  <1> QED
    BY <1>1, <1>5 DEF r

\* A signed number and the word it is stored as.
LEMMA WordOf ==
    ASSUME NEW n \in Int, InRange(n, 2)
    PROVE  /\ n % WordSize = (IF n >= 0 THEN n ELSE n + WordSize)
           /\ n % WordSize \in 0 .. WordSize - 1
           /\ TwosComplement(n % WordSize, 2) = n
  <1> DEFINE h == WordSize \div 2
             w == WordSize
  <1>1. w \in Nat \ {0} /\ h \in Nat /\ 2 * h <= w
    BY WordIs
  <1>2. Span(2) = w
    BY DEF Span
  <1>3. -h <= n /\ n < h
    BY <1>2 DEF InRange
  <1>4. \A k : TwosComplement(k, 2) = IF k >= h THEN k - w ELSE k
    BY <1>2 DEF TwosComplement
  <1> HIDE DEF h, w
  <1>5. CASE n >= 0
    <2>1. n \in 0 .. w - 1
      BY <1>1, <1>3, <1>5
    <2>2. n % w = n
      BY <1>1, <2>1, SmallRemainder
    <2> QED
      BY <1>1, <1>3, <1>4, <1>5, <2>1, <2>2 DEF w
  <1>6. CASE n < 0
    <2>1. -w <= n
      BY <1>1, <1>3
    <2>2. n % w = n + w
      BY <1>1, <1>6, <2>1, NegativeRemainder
    <2>3. n + w \in 0 .. w - 1 /\ n + w >= h /\ (n + w) - w = n /\ ~(n >= 0)
      BY <1>1, <1>3, <1>6
    <2> QED
      BY <1>4, <2>2, <2>3 DEF w
  <1> QED
    BY <1>5, <1>6

\* A signed number that fits a byte, and its byte.
LEMMA ByteOf ==
    ASSUME NEW n \in Int, InRange(n, 1)
    PROVE  /\ (n % WordSize) % Base \in 0 .. Base - 1
           /\ TwosComplement((n % WordSize) % Base, 1) = n
  <1> DEFINE h == Base \div 2
             b == Base
             w == WordSize
  <1>1. b \in Nat \ {0} /\ h \in Nat /\ 2 * h <= b /\ w \in Nat \ {0} /\ w >= 2 * b
        /\ w = (b - 1) * b + b
    BY WordIs
  <1>2. Span(1) = b
    BY DEF Span
  <1>3. -h <= n /\ n < h
    BY <1>2 DEF InRange
  <1>4. \A k : TwosComplement(k, 1) = IF k >= h THEN k - b ELSE k
    BY <1>2 DEF TwosComplement
  <1> HIDE DEF h, b, w
  <1>5. CASE n >= 0
    <2>1. n \in 0 .. w - 1 /\ n \in 0 .. b - 1
      BY <1>1, <1>3, <1>5
    <2>2. n % w = n /\ n % b = n
      BY <1>1, <2>1, SmallRemainder
    <2>3. ~(n >= h)
      BY <1>1, <1>3
    <2> QED
      BY <1>4, <2>1, <2>2, <2>3 DEF w, b
  <1>6. CASE n < 0
    <2>1. -w <= n
      BY <1>1, <1>3
    <2>2. n % w = n + w
      BY <1>1, <1>6, <2>1, NegativeRemainder
    <2>3. n + b \in 0 .. b - 1 /\ n + b >= h /\ (n + b) - b = n
      BY <1>1, <1>3, <1>6
    <2>4. (n + w) % b = n + b
      <3>1. b - 1 \in Nat
        BY <1>1
      <3>2. ((b - 1) * b + (n + b)) % b = n + b
        BY <1>1, <2>3, <3>1, RemainderIs
      <3>3. (b - 1) * b \in Nat
        BY <1>1, <3>1
      <3>4. n + w = (b - 1) * b + (n + b)
        BY <1>1, <3>3
      <3> QED
        BY <3>2, <3>4
    <2> QED
      BY <1>4, <2>2, <2>3, <2>4 DEF w, b
  <1> QED
    BY <1>5, <1>6

----------------------------------------------------------------------------
\* One field.

\* The number in the bytes of a field, and what a field of type t reads it as.
Digits(fb, w) == IF w = 1 THEN fb[1] ELSE fb[1] * Base + fb[2]
FromNumber(t, num) ==
    CASE t \in Unsigned -> num
      [] t \in Signed   -> TwosComplement(num, Width(t))
      [] t = "F32"      -> num * Base
      [] t = "F64"      -> num
      [] OTHER          -> num = 1

FixedOK(t, x, fb) ==
    Len(fb) = Width(t) /\ FromNumber(t, Digits(fb, Width(t))) = Meant(t, x)
VariableOK(x, fb) ==
    /\ x.val \in Seq(0 .. Base - 1)
    /\ Len(fb) = 2 + Len(x.val) /\ fb[1] * Base + fb[2] = Len(x.val)
    /\ \A j \in 1 .. Len(x.val) : fb[2 + j] = x.val[j]
FieldOK(t, x) ==
    /\ FieldBytes(t, x) \in Seq(0 .. Base - 1)
    /\ t \notin Variable => FixedOK(t, x, FieldBytes(t, x))
    /\ t \in Variable => VariableOK(x, FieldBytes(t, x))

LEMMA WordAppended ==
    ASSUME NEW n \in 0 .. WordSize - 1
    PROVE  /\ AppendUint(n, 2) \in Seq(0 .. Base - 1) /\ Len(AppendUint(n, 2)) = 2
           /\ Digits(AppendUint(n, 2), 2) = n
  <1> DEFINE hi == (n \div Base) % Base
             lo == n % Base
  <1>1. hi \in 0 .. Base - 1 /\ lo \in 0 .. Base - 1 /\ (hi * Base) + lo = n
    BY DigitsOf
  <1>2. AppendUint(n, 2) = <<hi, lo>>
    BY DEF AppendUint
  <1> HIDE DEF hi, lo
  <1>3. <<hi, lo>> \in Seq(0 .. Base - 1) /\ Len(<<hi, lo>>) = 2
    BY <1>1
  <1>4. Digits(<<hi, lo>>, 2) = hi * Base + lo
    BY DEF Digits
  <1> QED
    BY <1>1, <1>2, <1>3, <1>4

LEMMA ByteAppended ==
    ASSUME NEW n, n % Base \in 0 .. Base - 1
    PROVE  /\ AppendUint(n, 1) \in Seq(0 .. Base - 1) /\ Len(AppendUint(n, 1)) = 1
           /\ Digits(AppendUint(n, 1), 1) = n % Base
  <1> DEFINE lo == n % Base
  <1>1. AppendUint(n, 1) = <<lo>>
    BY DEF AppendUint
  <1> HIDE DEF lo
  <1>2. lo \in 0 .. Base - 1
    BY DEF lo
  <1>3. <<lo>> \in Seq(0 .. Base - 1) /\ Len(<<lo>>) = 1
    BY <1>2
  <1>4. Digits(<<lo>>, 1) = lo
    BY DEF Digits
  <1> QED
    BY <1>1, <1>3, <1>4 DEF lo

LEMMA UnsignedField ==
    ASSUME NEW t \in Unsigned, NEW x \in Arguments, Holds(t, x)
    PROVE  FieldOK(t, x)
  <1> DEFINE n == x.val
             fb == FieldBytes(t, x)
  <1>1. x.kind = "uint" \/ (x.kind = "int" /\ n >= 0)
    BY DEF Holds, UintOK, IntOK, FloatOK, Unsigned, Signed, Floats, Variable
  <1>2. n \in 0 .. WordSize - 1
    <2>1. CASE x.kind = "uint"
      BY <2>1, ArgumentsAssumption
    <2>2. CASE x.kind = "int" /\ n >= 0
      <3>1. n \in Int /\ InRange(n, 2)
        BY <2>2, ArgumentsAssumption
      <3>2. n < WordSize \div 2
        BY <3>1 DEF InRange, Span
      <3> QED
        BY <2>2, <3>1, <3>2, WordIs
    <2> QED
      BY <1>1, <2>1, <2>2
  <1>3. n % WordSize = n
    BY <1>2, WordIs, SmallRemainder
  <1>4. fb = AppendUint(n, Width(t)) /\ Meant(t, x) = n
    <2>1. fb = AppendUint(n % WordSize, Width(t))
      BY DEF FieldBytes, Unsigned, Signed
    <2>2. Meant(t, x) = n
      BY DEF Meant, Unsigned
    <2> QED
      BY <1>3, <2>1, <2>2
  <1>5. t \notin Variable
    BY DEF Unsigned, Variable
  <1>6. \A k : FromNumber(t, k) = k
    BY DEF FromNumber, Unsigned, Signed
  <1> HIDE DEF n, fb
  <1>7. CASE t = "U64"
    <2>1. Width(t) = 2
      BY <1>7 DEF Width
    <2> QED
      BY <1>2, <1>4, <1>5, <1>6, <2>1, WordAppended DEF FieldOK, FixedOK, fb
  <1>8. CASE t = "U8"
    <2>1. Width(t) = 1
      BY <1>8 DEF Width
    <2>2. n < Base
      BY <1>8, <2>1 DEF Holds, Span, Unsigned, Signed, Floats, Variable, n
    <2>3. n % Base = n /\ n \in 0 .. Base - 1
      <3>1. n \in 0 .. Base - 1
        BY <1>2, <2>2, WordIs
      <3> QED
        BY <3>1, WordIs, SmallRemainder
    <2> QED
      BY <1>4, <1>5, <1>6, <2>1, <2>3, ByteAppended DEF FieldOK, FixedOK, fb
  <1> QED
    BY <1>7, <1>8 DEF Unsigned

LEMMA SignedField ==
    ASSUME NEW t \in Signed, NEW x \in Arguments, Holds(t, x)
    PROVE  FieldOK(t, x)
  <1> DEFINE n == x.val
             fb == FieldBytes(t, x)
             word == n % WordSize
  <1>1. /\ x.kind \in {"int", "int32"}
        /\ t = "I64" \/ InRange(n, Width(t))
    BY DEF Holds, UintOK, IntOK, FloatOK, Unsigned, Signed, Floats, Variable
  <1>2. n \in Int /\ InRange(n, 2)
    BY <1>1, ArgumentsAssumption
  <1>3. word \in 0 .. WordSize - 1 /\ TwosComplement(word, 2) = n
    BY <1>2, WordOf
  <1>4. fb = AppendUint(word, Width(t)) /\ Meant(t, x) = n
    <2>1. fb = AppendUint(word, Width(t))
      BY DEF FieldBytes, Unsigned, Signed
    <2>2. Meant(t, x) = n
      BY DEF Meant, Signed
    <2> QED
      BY <2>1, <2>2
  <1>5. t \notin Variable /\ t \notin Unsigned
    BY DEF Signed, Variable, Unsigned
  <1>6. \A k : FromNumber(t, k) = TwosComplement(k, Width(t))
    BY DEF FromNumber, Unsigned, Signed
  <1> HIDE DEF fb, word, n
  <1>7. CASE t = "I64"
    <2>1. Width(t) = 2
      BY <1>7 DEF Width
    <2> QED
      BY <1>3, <1>4, <1>5, <1>6, <2>1, WordAppended DEF FieldOK, FixedOK, fb
  <1>8. CASE t = "I8"
    <2>1. Width(t) = 1
      BY <1>8 DEF Width
    <2>2. InRange(n, 1)
      BY <1>1, <1>8, <2>1
    <2>3. word % Base \in 0 .. Base - 1 /\ TwosComplement(word % Base, 1) = n
      BY <1>2, <2>2, ByteOf DEF word
    <2> QED
      BY <1>4, <1>5, <1>6, <2>1, <2>3, ByteAppended DEF FieldOK, FixedOK, fb
  <1> QED
    BY <1>7, <1>8 DEF Signed

LEMMA FloatField ==
    ASSUME NEW t \in Floats, NEW x \in Arguments, Holds(t, x)
    PROVE  FieldOK(t, x)
  <1> DEFINE n == x.val
             fb == FieldBytes(t, x)
             hi == n \div Base
             lo == n % Base
  <1>1. n \in 0 .. WordSize - 1
    <2>1. x.kind = "float"
      BY DEF Holds, UintOK, IntOK, FloatOK, Unsigned, Signed, Floats, Variable
    <2> QED
      BY <2>1, ArgumentsAssumption
  <1>2. t \notin Variable /\ t \notin Unsigned /\ t \notin Signed
    BY DEF Signed, Variable, Unsigned, Floats
  <1>3. CASE t = "F64"
    <2>1. Width(t) = 2 /\ fb = AppendUint(n, 2) /\ Meant(t, x) = n /\ \A k : FromNumber(t, k) = k
      BY <1>2, <1>3 DEF Width, FieldBytes, Meant, FromNumber
    <2> HIDE DEF fb, n
    <2> QED
      BY <1>1, <1>2, <2>1, WordAppended DEF FieldOK, FixedOK, fb
  <1>4. CASE t = "F32"
    <2>1. /\ Width(t) = 1 /\ fb = AppendUint(hi, 1) /\ Meant(t, x) = n - lo
          /\ \A k : FromNumber(t, k) = k * Base
      BY <1>2, <1>4 DEF Width, FieldBytes, Meant, FromNumber
    <2>2. /\ hi \in 0 .. Base - 1 /\ hi % Base = hi /\ lo \in 0 .. Base - 1 /\ (hi * Base) + lo = n
      BY <1>1, DigitsOf
    <2> HIDE DEF fb, n, hi, lo
    <2>3. hi * Base = n - lo
      <3>1. hi * Base \in Int /\ lo \in Int
        BY <2>2, WordIs
      <3> QED
        BY <2>2, <3>1
    <2> QED
      BY <1>2, <2>1, <2>2, <2>3, ByteAppended DEF FieldOK, FixedOK, fb
  <1> QED
    BY <1>3, <1>4 DEF Floats

LEMMA BoolField ==
    ASSUME NEW x \in Arguments, Holds("Bool", x)
    PROVE  FieldOK("Bool", x)
  <1> DEFINE fb == FieldBytes("Bool", x)
             bit == IF x.val THEN 1 ELSE 0
  <1>1. x.val \in BOOLEAN
    <2>1. x.kind = "bool"
      BY DEF Holds, UintOK, IntOK, FloatOK, Unsigned, Signed, Floats, Variable
    <2> QED
      BY <2>1, ArgumentsAssumption
  <1>2. "Bool" \notin Unsigned \cup Signed \cup Floats \cup Variable
    BY DEF Signed, Variable, Unsigned, Floats
  <1>3. /\ Width("Bool") = 1 /\ fb = <<bit>> /\ Meant("Bool", x) = x.val
        /\ \A k : FromNumber("Bool", k) = (k = 1)
    BY <1>2 DEF Width, FieldBytes, Meant, FromNumber
  <1>4. bit \in 0 .. Base - 1 /\ (bit = 1) = x.val
    BY <1>1, WordIs
  <1> HIDE DEF bit, fb
  <1>5. fb \in Seq(0 .. Base - 1) /\ Len(fb) = 1 /\ Digits(fb, 1) = bit
    BY <1>3, <1>4 DEF Digits
  <1> QED
    BY <1>2, <1>3, <1>4, <1>5 DEF FieldOK, FixedOK, fb

LEMMA VariableField ==
    ASSUME NEW t \in Variable, NEW x \in Arguments, Holds(t, x)
    PROVE  FieldOK(t, x)
  <1> DEFINE Digit == 0 .. Base - 1
             str == x.val
             n == Len(str)
             head == AppendUint(n, 2)
             fb == FieldBytes(t, x)
  <1>1. str \in Seq(Digit) /\ n \in 0 .. WordSize - 1
    <2>1. x.kind = "bytes" /\ n < WordSize
      BY DEF Holds, UintOK, IntOK, FloatOK, Unsigned, Signed, Floats, Variable
    <2>2. str \in Seq(Digit)
      BY <2>1, ArgumentsAssumption
    <2>3. n \in Nat
      BY <2>2
    <2> QED
      BY <2>1, <2>2, <2>3, WordIs
  <1>2. fb = head \o str
    BY DEF FieldBytes, Unsigned, Signed, Variable
  <1>3. head \in Seq(Digit) /\ Len(head) = 2 /\ Digits(head, 2) = n
    BY <1>1, WordAppended
  <1> HIDE DEF Digit, str, n, head, fb
  <1>4. fb \in Seq(Digit)
    BY <1>1, <1>2, <1>3
  <1>5. /\ Len(fb) = Len(head) + Len(str)
        /\ \A o \in 1 .. Len(head) : fb[o] = head[o]
        /\ \A o \in 1 .. Len(str) : fb[Len(head) + o] = str[o]
    <2>1. head \in Seq(Digit) /\ str \in Seq(Digit) /\ fb = head \o str
      BY <1>1, <1>2, <1>3
    <2> QED
      BY <2>1, Joined
  <1>6. fb[1] * Base + fb[2] = n
    <2>1. fb[1] = head[1] /\ fb[2] = head[2]
      BY <1>3, <1>5
    <2> QED
      BY <1>3, <2>1 DEF Digits
  <1>7. VariableOK(x, fb)
    <2>1. Len(fb) = 2 + Len(str) /\ \A o \in 1 .. Len(str) : fb[2 + o] = str[o]
      BY <1>3, <1>5
    <2> QED
      BY <1>1, <1>6, <2>1 DEF VariableOK, str, n, Digit
  <1> QED
    BY <1>4, <1>7 DEF FieldOK, fb, Digit

LEMMA FieldIsRead ==
    ASSUME NEW t \in FieldTypes, NEW x \in Arguments, Holds(t, x)
    PROVE  FieldOK(t, x)
  BY UnsignedField, SignedField, FloatField, BoolField, VariableField DEF FieldTypes

----------------------------------------------------------------------------
\* The fields of a value one after the other.

\* Field i of what is encoded begins at at[i].
FieldAt(at, i) ==
    LET fb == FieldBytes(schema[i].type, vals[i])
    IN  /\ at[i + 1] = at[i] + Len(fb)
        /\ \A j \in 1 .. Len(fb) : encoded[at[i] + j] = fb[j]
Starts(at) ==
    /\ at \in [1 .. Len(vals) + 1 -> Nat]
    /\ at[1] = 0 /\ at[Len(vals) + 1] = Len(encoded)
    /\ \A i \in 1 .. Len(vals) : FieldAt(at, i) /\ at[i + 1] <= Len(encoded)
Laid == \E at : Starts(at)
AllHeld == \A i \in 1 .. Len(vals) : Holds(schema[i].type, vals[i])

ValuesInv ==
    /\ ValuesTypeOK
    /\ outcome # "rejected" => AllHeld /\ Laid
    /\ outcome = "done" => Len(vals) = Len(schema)

LEMMA SchemaIs ==
    ASSUME ValuesTypeOK
    PROVE  Len(schema) \in Nat /\ \A i \in 1 .. Len(schema) : schema[i].type \in FieldTypes
  BY SchemasAssumption DEF ValuesTypeOK, FieldTypes

LEMMA ValuesStart == ValuesInit => ValuesInv
  <1> SUFFICES ASSUME ValuesInit PROVE ValuesInv
    OBVIOUS
  <1>1. schema \in Schemas /\ vals = <<>> /\ encoded = <<>> /\ outcome = "encoding"
    BY DEF ValuesInit
  <1>2. Len(schema) \in Nat
    BY <1>1, SchemasAssumption
  <1>3. ValuesTypeOK
    BY <1>1, <1>2 DEF ValuesTypeOK
  <1>4. AllHeld
    BY <1>1 DEF AllHeld
  <1>5. Starts([i \in 1 .. 1 |-> 0])
    BY <1>1 DEF Starts
  <1>6. Laid
    BY <1>5 DEF Laid
  <1> QED
    BY <1>1, <1>3, <1>4, <1>6 DEF ValuesInv

\* A field that is encoded goes behind the fields before it.
LEMMA EncodeFieldInv ==
    ASSUME ValuesInv, NEW x \in Arguments, EncodeField(x)
    PROVE  ValuesInv'
  <1> DEFINE Digit == 0 .. Base - 1
             n == Len(vals)
             t == schema[n + 1].type
             fb == FieldBytes(t, x)
  <1>1. /\ outcome = "encoding" /\ n < Len(schema) /\ vals' = Append(vals, x) /\ schema' = schema
        /\ IF Holds(t, x) THEN encoded' = encoded \o fb /\ outcome' = outcome
           ELSE outcome' = "rejected" /\ encoded' = encoded
    BY DEF EncodeField, Field
  <1>2. ValuesTypeOK /\ AllHeld /\ Laid
    BY <1>1 DEF ValuesInv
  <1>3. /\ vals \in Seq(Arguments) /\ encoded \in Seq(Digit) /\ n \in Nat /\ Len(encoded) \in Nat
        /\ Len(schema) \in Nat /\ t \in FieldTypes
    <2>1. vals \in Seq(Arguments) /\ encoded \in Seq(Digit)
      BY <1>2 DEF ValuesTypeOK
    <2>2. Len(schema) \in Nat /\ \A i \in 1 .. Len(schema) : schema[i].type \in FieldTypes
      BY <1>2, SchemaIs
    <2>3. n + 1 \in 1 .. Len(schema)
      BY <1>1, <2>1, <2>2
    <2> QED
      BY <2>1, <2>2, <2>3
  <1> HIDE DEF t
  <1>4. /\ vals' \in Seq(Arguments) /\ Len(vals') = n + 1 /\ vals'[n + 1] = x
        /\ \A i \in 1 .. n : vals'[i] = vals[i]
    <2>1. vals' = Append(vals, x) /\ vals \in Seq(Arguments)
      BY <1>1, <1>3
    <2> QED
      BY <2>1, AppendProperties
  <1>5. schema' \in Schemas /\ Len(vals') <= Len(schema')
    BY <1>1, <1>2, <1>3, <1>4 DEF ValuesTypeOK
  <1>6. CASE ~Holds(t, x)
    <2>1. outcome' = "rejected" /\ encoded' = encoded
      BY <1>1, <1>6
    <2> QED
      BY <1>3, <1>4, <1>5, <2>1 DEF ValuesInv, ValuesTypeOK, Digit
  <1>7. CASE Holds(t, x)
    <2>1. encoded' = encoded \o fb /\ outcome' = outcome
      BY <1>1, <1>7
    <2>2. fb \in Seq(Digit)
      BY <1>3, <1>7, FieldIsRead DEF FieldOK
    <2> HIDE DEF fb, Digit
    <2>3. /\ Len(fb) \in Nat /\ Len(encoded') = Len(encoded) + Len(fb)
          /\ \A o \in 1 .. Len(encoded) : encoded'[o] = encoded[o]
          /\ \A o \in 1 .. Len(fb) : encoded'[Len(encoded) + o] = fb[o]
      <3>1. encoded \in Seq(Digit) /\ fb \in Seq(Digit)
        BY <1>3, <2>2 DEF Digit
      <3> QED
        BY <2>1, <3>1, Joined
    <2>4. encoded' \in Seq(Digit)
      BY <1>3, <2>1, <2>2 DEF Digit
    <2>5. AllHeld'
      <3>1. ASSUME NEW i \in 1 .. n + 1 PROVE Holds(schema[i].type, vals'[i])
        <4>1. CASE i = n + 1
          BY <1>4, <1>7, <4>1 DEF t
        <4>2. CASE i # n + 1
          <5>1. i \in 1 .. n
            BY <1>3, <4>2
          <5> QED
            BY <1>2, <1>4, <5>1 DEF AllHeld
        <4> QED
          BY <4>1, <4>2
      <3> QED
        BY <1>1, <1>4, <3>1 DEF AllHeld
    <2>6. PICK at : Starts(at)
      BY <1>2 DEF Laid
    <2> DEFINE to == [i \in 1 .. n + 2 |-> IF i = n + 2 THEN at[n + 1] + Len(fb) ELSE at[i]]
    <2>7. /\ at \in [1 .. n + 1 -> Nat] /\ at[1] = 0 /\ at[n + 1] = Len(encoded)
          /\ \A i \in 1 .. n : FieldAt(at, i) /\ at[i + 1] <= Len(encoded)
      BY <2>6 DEF Starts
    <2> HIDE DEF n
    <2>8. /\ to \in [1 .. n + 2 -> Nat] /\ to[1] = 0 /\ to[n + 2] = Len(encoded')
          /\ \A i \in 1 .. n + 1 : to[i] = at[i]
      BY <1>3, <2>3, <2>7
    <2> HIDE DEF to
    <2>9. ASSUME NEW i \in 1 .. n + 1
          PROVE  /\ to[i + 1] = to[i] + Len(FieldBytes(schema[i].type, vals'[i]))
                 /\ \A j \in 1 .. Len(FieldBytes(schema[i].type, vals'[i])) :
                       encoded'[to[i] + j] = FieldBytes(schema[i].type, vals'[i])[j]
                 /\ to[i + 1] <= Len(encoded')
      <3>1. CASE i = n + 1
        <4>1. FieldBytes(schema[i].type, vals'[i]) = fb
          BY <1>4, <3>1 DEF fb, t
        <4>2. to[i] = Len(encoded) /\ to[i + 1] = Len(encoded')
          <5>1. i + 1 = n + 2
            BY <1>3, <3>1
          <5> QED
            BY <2>7, <2>8, <3>1, <5>1
        <4> QED
          BY <1>3, <2>3, <4>1, <4>2
      <3>2. CASE i # n + 1
        <4> DEFINE gb == FieldBytes(schema[i].type, vals[i])
        <4>1. i \in 1 .. n /\ i + 1 \in 1 .. n + 1
          BY <1>3, <3>2
        <4>2. FieldBytes(schema[i].type, vals'[i]) = gb
          BY <1>4, <4>1
        <4>3. /\ at[i + 1] = at[i] + Len(gb) /\ at[i + 1] <= Len(encoded)
              /\ \A j \in 1 .. Len(gb) : encoded[at[i] + j] = gb[j]
          BY <2>7, <4>1 DEF FieldAt
        <4>4. gb \in Seq(0 .. Base - 1)
          <5>1. schema[i].type \in FieldTypes /\ vals[i] \in Arguments /\ Holds(schema[i].type, vals[i])
            <6>1. i \in 1 .. Len(vals) /\ i \in 1 .. Len(schema)
              BY <1>1, <1>3, <4>1 DEF n
            <6> QED
              BY <1>2, <1>3, <6>1, SchemaIs DEF AllHeld
          <5> QED
            BY <5>1, FieldIsRead DEF FieldOK
        <4> HIDE DEF gb
        <4>5. to[i] = at[i] /\ to[i + 1] = at[i + 1] /\ at[i] \in Nat /\ Len(gb) \in Nat
          BY <2>7, <2>8, <4>1, <4>4
        <4>6. ASSUME NEW j \in 1 .. Len(gb) PROVE encoded'[to[i] + j] = gb[j]
          <5>1. to[i] + j \in 1 .. Len(encoded)
            BY <1>3, <4>3, <4>5
          <5> QED
            BY <2>3, <4>3, <4>5, <5>1
        <4>7. to[i + 1] <= Len(encoded')
          BY <1>3, <2>3, <4>3, <4>5
        <4> QED
          BY <4>2, <4>3, <4>5, <4>6, <4>7
      <3> QED
        BY <3>1, <3>2
    <2>10. PICK s : s = to
      OBVIOUS
    <2>11. Laid'
      <3>1. Len(vals') = n + 1 /\ (n + 1) + 1 = n + 2
        BY <1>3, <1>4
      <3>2. /\ s \in [1 .. Len(vals') + 1 -> Nat] /\ s[1] = 0
            /\ s[Len(vals') + 1] = Len(encoded')
        BY <2>8, <2>10, <3>1
      <3>3. \A i \in 1 .. Len(vals') : FieldAt(s, i)' /\ s[i + 1] <= Len(encoded')
        BY <1>1, <2>9, <2>10, <3>1 DEF FieldAt
      <3>4. Starts(s)'
        BY <3>2, <3>3 DEF Starts
      <3> QED
        BY <3>4 DEF Laid
    <2>12. ValuesTypeOK'
      BY <1>1, <1>4, <1>5, <2>1, <2>4 DEF ValuesTypeOK, Digit
    <2> QED
      BY <1>1, <2>1, <2>5, <2>11, <2>12 DEF ValuesInv
  <1> QED
    BY <1>6, <1>7

LEMMA ValuesStep == ValuesInv /\ [ValuesNext]_valueVars => ValuesInv'
  <1> SUFFICES ASSUME ValuesInv, [ValuesNext]_valueVars PROVE ValuesInv'
    OBVIOUS
  <1>1. CASE WrongCount
    BY <1>1 DEF WrongCount, ValuesInv, ValuesTypeOK
  <1>2. ASSUME schema' = schema, vals' = vals, encoded' = encoded,
               outcome' = outcome \/ (outcome = "encoding" /\ outcome' = "done" /\ Len(vals) = Len(schema))
        PROVE  ValuesInv'
    <2>1. AllHeld => AllHeld'
      BY <1>2 DEF AllHeld
    <2>2. Laid => Laid'
      BY <1>2 DEF Laid, Starts, FieldAt
    <2> QED
      BY <1>2, <2>1, <2>2 DEF ValuesInv, ValuesTypeOK
  <1>3. CASE EncodeDone
    BY <1>2, <1>3 DEF EncodeDone
  <1>4. ASSUME NEW x \in Arguments, EncodeField(x) PROVE ValuesInv'
    BY <1>4, EncodeFieldInv
  <1>5. CASE UNCHANGED valueVars
    BY <1>2, <1>5 DEF valueVars
  <1> QED
    BY <1>1, <1>3, <1>4, <1>5 DEF ValuesNext

----------------------------------------------------------------------------
\* Reading.

FieldFacts(at, i) ==
    LET fb == FieldBytes(schema[i].type, vals[i])
    IN  /\ schema[i].type \in FieldTypes
        /\ FieldOK(schema[i].type, vals[i])
        /\ Len(fb) \in Nat /\ at[i] \in Nat /\ at[i + 1] = at[i] + Len(fb)
        /\ at[i + 1] \in Nat /\ at[i + 1] <= Len(encoded)
        /\ \A j \in 1 .. Len(fb) : encoded[at[i] + j] = fb[j]

LEMMA FieldIs ==
    ASSUME ValuesInv, outcome = "done", NEW at, Starts(at), NEW i \in 1 .. Len(schema)
    PROVE  FieldFacts(at, i)
  <1>1. /\ ValuesTypeOK /\ AllHeld /\ Len(vals) = Len(schema) /\ Len(schema) \in Nat
        /\ schema[i].type \in FieldTypes
    <2>1. ValuesTypeOK /\ AllHeld /\ Len(vals) = Len(schema)
      BY DEF ValuesInv
    <2> QED
      BY <2>1, SchemaIs
  <1>2. i \in 1 .. Len(vals) /\ i \in 1 .. Len(vals) + 1 /\ i + 1 \in 1 .. Len(vals) + 1
    BY <1>1
  <1>3. vals[i] \in Arguments /\ Holds(schema[i].type, vals[i])
    BY <1>1, <1>2 DEF ValuesTypeOK, AllHeld
  <1>4. FieldOK(schema[i].type, vals[i])
    BY <1>1, <1>3, FieldIsRead
  <1>5. Len(FieldBytes(schema[i].type, vals[i])) \in Nat
    BY <1>4 DEF FieldOK
  <1>6. at \in [1 .. Len(vals) + 1 -> Nat] /\ FieldAt(at, i) /\ at[i + 1] <= Len(encoded)
    BY <1>2 DEF Starts
  <1> QED
    BY <1>1, <1>2, <1>4, <1>5, <1>6 DEF FieldAt, FieldFacts

\* What is left of a value that was cut to k bytes.
CutTo(v, k) == /\ v \in Seq(0 .. Base - 1) /\ Len(v) = k /\ k \in 0 .. Len(encoded)
               /\ \A j \in 1 .. k : v[j] = encoded[j]

LEMMA CutIs ==
    ASSUME ValuesTypeOK, NEW k \in 0 .. Len(encoded)
    PROVE  CutTo(SubSeq(encoded, 1, k), k) /\ CutTo(encoded, Len(encoded))
  <1>1. encoded \in Seq(0 .. Base - 1)
    BY DEF ValuesTypeOK
  <1>2. Len(encoded) \in Nat /\ \A j \in 1 .. k : encoded[j] \in 0 .. Base - 1
    <2> DEFINE Digit == 0 .. Base - 1
    <2>1. encoded \in Seq(Digit)
      BY <1>1
    <2> HIDE DEF Digit
    <2>2. Len(encoded) \in Nat
      BY <2>1
    <2>3. ASSUME NEW j \in 1 .. k PROVE encoded[j] \in Digit
      <3>1. j \in 1 .. Len(encoded)
        BY <2>2
      <3> QED
        BY <2>1, <3>1
    <2> QED
      BY <2>2, <2>3 DEF Digit
  <1> DEFINE v == SubSeq(encoded, 1, k)
  <1>3. /\ v \in Seq(0 .. Base - 1) /\ Len(v) = (IF 1 <= k THEN (k - 1) + 1 ELSE 0)
        /\ \A j \in 1 .. (k - 1) + 1 : v[j] = encoded[(1 + j) - 1]
    BY <1>2, SubSeqProperties
  <1> HIDE DEF v
  <1>4. Len(v) = k /\ \A j \in 1 .. k : v[j] = encoded[j]
    BY <1>3
  <1> QED
    BY <1>1, <1>2, <1>3, <1>4 DEF CutTo, v

\* The bytes of a field as far as the value reaches.
LEMMA BytesOf ==
    ASSUME NEW at, NEW i, FieldFacts(at, i), NEW v, NEW k, CutTo(v, k),
           NEW j \in 1 .. Len(FieldBytes(schema[i].type, vals[i])), at[i] + j <= k
    PROVE  v[at[i] + j] = FieldBytes(schema[i].type, vals[i])[j]
  <1>1. at[i] + j \in 1 .. k
    BY DEF FieldFacts, CutTo
  <1> QED
    BY <1>1 DEF FieldFacts, CutTo

\* The length in front of a String or Bytes field.
LEMMA LengthIs ==
    ASSUME NEW at, NEW i, FieldFacts(at, i), NEW v, NEW k, CutTo(v, k),
           schema[i].type \in Variable, at[i] + 2 <= k
    PROVE  U16(v, at[i]) = Len(vals[i].val)
  <1> DEFINE fb == FieldBytes(schema[i].type, vals[i])
  <1>1. VariableOK(vals[i], fb)
    BY DEF FieldFacts, FieldOK
  <1>2. Len(vals[i].val) \in Nat /\ Len(fb) = 2 + Len(vals[i].val)
    BY <1>1 DEF VariableOK
  <1>3. 1 \in 1 .. Len(fb) /\ 2 \in 1 .. Len(fb)
    BY <1>2
  <1>4. at[i] + 1 <= k
    BY DEF FieldFacts, CutTo
  <1>5. v[at[i] + 1] = fb[1] /\ v[at[i] + 2] = fb[2]
    BY <1>3, <1>4, BytesOf
  <1> QED
    BY <1>1, <1>5 DEF U16, VariableOK

\* Where the search for field i ends: in front of it, unless the value is cut in or before the
\* length of a field on the way.
Reached(at, k, i) ==
    IF \E o \in 1 .. i - 1 : schema[o].type \in Variable /\ at[o] + 2 > k THEN Error ELSE at[i]

LEMMA OneFurther ==
    ASSUME NEW at, NEW j \in Nat \ {0}, FieldFacts(at, j), NEW v, NEW k, CutTo(v, k)
    PROVE  LET pos == Reached(at, k, j)
               t == schema[j].type
           IN  Reached(at, k, j + 1) =
                   IF pos = Error THEN Error
                   ELSE IF t \notin Variable THEN pos + Width(t)
                   ELSE IF pos + 2 > Len(v) THEN Error
                   ELSE pos + VariableSize(v, pos)
  <1> DEFINE pos == Reached(at, k, j)
             t == schema[j].type
             fb == FieldBytes(t, vals[j])
             Short(o) == schema[o].type \in Variable /\ at[o] + 2 > k
  <1>1. /\ at[j] \in Nat /\ at[j + 1] = at[j] + Len(fb) /\ Len(fb) \in Nat /\ Len(v) = k
        /\ FieldOK(t, vals[j]) /\ k \in Nat
    BY DEF FieldFacts, CutTo
  <1>2. at[j] # Error
    BY <1>1, BaseAssumption
  <1>3. /\ pos = IF \E o \in 1 .. j - 1 : Short(o) THEN Error ELSE at[j]
        /\ Reached(at, k, j + 1) = IF \E o \in 1 .. (j + 1) - 1 : Short(o) THEN Error ELSE at[j + 1]
    BY DEF Reached
  <1>4. (\E o \in 1 .. (j + 1) - 1 : Short(o)) <=> (\E o \in 1 .. j - 1 : Short(o)) \/ Short(j)
    <2> HIDE DEF Short
    <2>1. \A o : o \in 1 .. (j + 1) - 1 <=> o \in 1 .. j - 1 \/ o = j
      OBVIOUS
    <2> QED
      BY <2>1
  <1>5. CASE \E o \in 1 .. j - 1 : Short(o)
    BY <1>3, <1>4, <1>5
  <1>6. CASE ~\E o \in 1 .. j - 1 : Short(o)
    <2>1. pos = at[j] /\ pos # Error
      BY <1>2, <1>3, <1>6
    <2>2. Reached(at, k, j + 1) = IF Short(j) THEN Error ELSE at[j + 1]
      BY <1>3, <1>4, <1>6
    <2>3. CASE t \notin Variable
      <3>1. Len(fb) = Width(t)
        BY <1>1, <2>3 DEF FieldOK, FixedOK
      <3>2. ~Short(j)
        BY <2>3
      <3> QED
        BY <1>1, <2>1, <2>2, <2>3, <3>1, <3>2
    <2>4. CASE t \in Variable /\ at[j] + 2 > k
      BY <1>1, <2>1, <2>2, <2>4
    <2>5. CASE t \in Variable /\ ~(at[j] + 2 > k)
      <3>1. U16(v, at[j]) = Len(vals[j].val)
        <4>1. at[j] + 2 <= k
          BY <1>1, <2>5
        <4> QED
          BY <2>5, <4>1, LengthIs
      <3>2. Len(fb) = 2 + Len(vals[j].val)
        BY <1>1, <2>5 DEF FieldOK, VariableOK
      <3>3. VariableSize(v, pos) = Len(fb)
        BY <2>1, <3>1, <3>2 DEF VariableSize
      <3> QED
        BY <1>1, <2>1, <2>2, <2>5, <3>3
    <2> QED
      BY <2>3, <2>4, <2>5
  <1> QED
    BY <1>5, <1>6

LEMMA PositionIs ==
    ASSUME ValuesInv, outcome = "done", NEW at, Starts(at), NEW v, NEW k, CutTo(v, k),
           NEW i \in 1 .. Len(schema)
    PROVE  Position(v, i) = Reached(at, k, i)
  <1> DEFINE n == i - 1
             After(j, pos) == LET t == schema[j].type
                              IN IF pos = Error THEN Error
                                 ELSE IF t \notin Variable THEN pos + Width(t)
                                 ELSE IF pos + 2 > Len(v) THEN Error
                                 ELSE pos + VariableSize(v, pos)
             Steps(g) == g = [j \in 0 .. n |-> IF j = 0 THEN 0 ELSE After(j, g[j - 1])]
             W(j) == Reached(at, k, j + 1)
             u == [j \in 0 .. n |-> W(j)]
             c == CHOOSE g : Steps(g)
             Apart == {j \in Nat : j <= n /\ c[j] # W(j)}
  <1>1. Position(v, i) = c[n]
    BY DEF Position
  <1>2. n \in Nat /\ n + 1 = i
    <2>1. Len(schema) \in Nat
      BY SchemaIs DEF ValuesInv
    <2> QED
      BY <2>1
  <1>3. W(0) = 0
    BY DEF Reached, Starts
  <1>4. ASSUME NEW j \in 0 .. n, j # 0
        PROVE  W(j) = After(j, W(j - 1)) /\ j - 1 \in 0 .. n
    <2>1. j \in Nat \ {0} /\ (j - 1) + 1 = j /\ j \in 1 .. Len(schema) /\ j - 1 \in 0 .. n
      <3>1. Len(schema) \in Nat
        BY SchemaIs DEF ValuesInv
      <3> QED
        BY <1>2, <1>4, <3>1
    <2>2. FieldFacts(at, j)
      BY <2>1, FieldIs
    <2>3. Reached(at, k, j + 1) = After(j, Reached(at, k, j))
      BY <2>1, <2>2, OneFurther
    <2> HIDE DEF After
    <2> QED
      BY <2>1, <2>3
  <1> HIDE DEF After, W, n
  <1>5. Steps(u)
    <2>1. \A j \in 0 .. n : u[j] = W(j)
      OBVIOUS
    <2>2. u = [j \in 0 .. n |-> u[j]]
      OBVIOUS
    <2> HIDE DEF u
    <2>3. \A j \in 0 .. n : u[j] = IF j = 0 THEN 0 ELSE After(j, u[j - 1])
      BY <1>3, <1>4, <2>1
    <2> QED
      BY <2>2, <2>3
  <1>6. Steps(c)
    <2> HIDE DEF Steps
    <2> QED
      BY <1>5
  <1> HIDE DEF c
  <1>7. \A j \in 0 .. n : c[j] = IF j = 0 THEN 0 ELSE After(j, c[j - 1])
    BY <1>6
  <1>8. Apart = {}
    <2> SUFFICES ASSUME Apart # {} PROVE FALSE
      OBVIOUS
    <2>1. PICK j \in Apart : \A o \in Apart : j <= o
      <3> HIDE DEF Apart
      <3>1. Apart \in SUBSET Nat
        BY DEF Apart
      <3> QED
        BY <3>1, LeastNatural
    <2>2. j \in 0 .. n /\ c[j] # W(j)
      BY <1>2
    <2>3. j # 0
      BY <1>3, <1>7, <2>2
    <2>4. j - 1 \in Nat /\ j - 1 <= n /\ ~(j <= j - 1)
      BY <1>2, <2>2, <2>3
    <2>5. c[j - 1] = W(j - 1)
      BY <2>1, <2>4
    <2> QED
      BY <1>4, <1>7, <2>2, <2>3, <2>5
  <1>9. c[n] = W(n)
    BY <1>2, <1>8
  <1> QED
    BY <1>1, <1>2, <1>9 DEF W

LEMMA FirstIs ==
    ASSUME ValuesTypeOK, NEW name \in FieldNames
    PROVE  First(name) \in 1 .. Len(schema) /\ schema[First(name)].name = name
  <1> DEFINE Named == {i \in Nat : i \in 1 .. Len(schema) /\ schema[i].name = name}
  <1>1. Len(schema) \in Nat
    BY SchemaIs
  <1>2. PICK i \in Named : \A j \in Named : i <= j
    <2>1. PICK j \in 1 .. Len(schema) : schema[j].name = name
      BY DEF FieldNames
    <2>2. j \in Named
      BY <1>1, <2>1
    <2> HIDE DEF Named
    <2>3. Named \in SUBSET Nat /\ Named # {}
      BY <2>2 DEF Named
    <2> QED
      BY <2>3, LeastNatural
  <1>3. i \in 1 .. Len(schema) /\ schema[i].name = name
    OBVIOUS
  <1>4. \A j \in 1 .. i - 1 : schema[j].name # name
    <2> SUFFICES ASSUME NEW j \in 1 .. i - 1, schema[j].name = name PROVE FALSE
      OBVIOUS
    <2>1. j \in Named /\ ~(i <= j)
      BY <1>1, <1>3
    <2> QED
      BY <1>2, <2>1
  <1> QED
    BY <1>3, <1>4 DEF First

\* A field of a value that was cut is read as it was encoded or not at all, and is read when
\* nothing was cut.
LEMMA ReadIs ==
    ASSUME ValuesInv, outcome = "done", NEW name \in FieldNames, NEW v, NEW k, CutTo(v, k)
    PROVE  /\ Read(v, name) \in {Error, Meant(schema[First(name)].type, vals[First(name)])}
           /\ k = Len(encoded) => Read(v, name) = Meant(schema[First(name)].type, vals[First(name)])
  <1> DEFINE i == First(name)
             t == schema[i].type
             x == vals[i]
             fb == FieldBytes(t, x)
             pos == Position(v, i)
             whole == k = Len(encoded)
             L == U16(v, pos)
             num == Number(v, pos, Width(t))
  <1>1. i \in 1 .. Len(schema) /\ Len(schema) \in Nat
    BY FirstIs, SchemaIs DEF ValuesInv
  <1>2. PICK at : Starts(at)
    BY DEF ValuesInv, Laid
  <1> HIDE DEF i
  <1>3. FieldFacts(at, i)
    BY <1>1, <1>2, FieldIs
  <1>4. pos = Reached(at, k, i)
    BY <1>1, <1>2, PositionIs
  <1>5. /\ at[i] \in Nat /\ at[i + 1] = at[i] + Len(fb) /\ Len(fb) \in Nat
        /\ at[i + 1] <= Len(encoded) /\ FieldOK(t, x) /\ t \in FieldTypes
    BY <1>3 DEF FieldFacts
  <1>6. Len(v) = k /\ k \in Nat /\ Len(encoded) \in Nat /\ v \in Seq(0 .. Base - 1)
    <2>1. Len(encoded) \in Nat
      BY DEF ValuesInv, ValuesTypeOK
    <2> QED
      BY <2>1 DEF CutTo
  <1>7. at[i] # Error
    BY <1>5, BaseAssumption
  <1>8. whole => pos = at[i]
    <2> SUFFICES ASSUME whole PROVE ~\E o \in 1 .. i - 1 : schema[o].type \in Variable /\ at[o] + 2 > k
      BY <1>4 DEF Reached
    <2> SUFFICES ASSUME NEW o \in 1 .. i - 1, schema[o].type \in Variable PROVE ~(at[o] + 2 > k)
      OBVIOUS
    <2>1. o \in 1 .. Len(schema)
      BY <1>1
    <2>2. FieldFacts(at, o)
      BY <1>2, <2>1, FieldIs
    <2>3. VariableOK(vals[o], FieldBytes(schema[o].type, vals[o]))
      BY <2>2 DEF FieldFacts, FieldOK
    <2>4. Len(FieldBytes(schema[o].type, vals[o])) = 2 + Len(vals[o].val) /\ Len(vals[o].val) \in Nat
      BY <2>3 DEF VariableOK
    <2>5. /\ at[o + 1] = at[o] + Len(FieldBytes(schema[o].type, vals[o]))
          /\ at[o + 1] <= Len(encoded) /\ at[o] \in Nat
      BY <2>2 DEF FieldFacts
    <2> QED
      BY <1>6, <2>4, <2>5
  <1>9. Read(v, name) =
            IF pos = Error THEN Error
            ELSE IF t \in Variable
            THEN IF pos + 2 > Len(v) \/ pos + 2 + L > Len(v) THEN Error
                 ELSE SubSeq(v, pos + 3, pos + 2 + L)
            ELSE IF ~(pos + Width(t) <= Len(v)) THEN Error
            ELSE FromNumber(t, num)
    BY DEF Read, AllThere, FromNumber, i
  <1> HIDE DEF pos
  <1>10. CASE pos = Error
    BY <1>7, <1>8, <1>9, <1>10 DEF i
  <1>11. CASE pos # Error
    <2>1. pos = at[i]
      BY <1>4, <1>11 DEF Reached
    <2>2. CASE t \in Variable
      <3>1. /\ x.val \in Seq(0 .. Base - 1) /\ Len(fb) = 2 + Len(x.val) /\ Len(x.val) \in Nat
            /\ \A j \in 1 .. Len(x.val) : fb[2 + j] = x.val[j]
        <4>1. VariableOK(x, fb)
          BY <1>5, <2>2 DEF FieldOK
        <4> HIDE DEF x, fb
        <4> QED
          BY <4>1 DEF VariableOK
      <3>2. Meant(t, x) = x.val
        BY <2>2 DEF Meant, Variable
      <3>3. CASE pos + 2 > k
        <4>1. ~whole
          BY <1>5, <1>6, <2>1, <3>1, <3>3
        <4>2. Read(v, name) = Error
          BY <1>6, <1>9, <1>11, <2>2, <3>3
        <4> QED
          BY <4>1, <4>2
      <3>4. CASE ~(pos + 2 > k)
        <4>1. L = Len(x.val)
          <5>1. at[i] + 2 <= k
            BY <1>5, <1>6, <2>1, <3>4
          <5> QED
            BY <1>3, <2>1, <2>2, <5>1, LengthIs
        <4> HIDE DEF L
        <4>2. CASE pos + 2 + L > k
          <5>1. ~whole
            BY <1>5, <1>6, <2>1, <3>1, <4>1, <4>2
          <5>2. Read(v, name) = Error
            BY <1>6, <1>9, <1>11, <2>2, <4>2
          <5> QED
            BY <5>1, <5>2
        <4>3. CASE ~(pos + 2 + L > k)
          <5>1. Read(v, name) = SubSeq(v, pos + 3, pos + 2 + L)
            BY <1>6, <1>9, <1>11, <2>2, <3>4, <4>3
          <5>2. ASSUME NEW j \in 1 .. Len(x.val) PROVE v[(pos + 2) + j] = x.val[j]
            <6>1. 2 + j \in 1 .. Len(fb) /\ at[i] + (2 + j) <= k /\ (pos + 2) + j = at[i] + (2 + j)
              <7> DEFINE n == Len(x.val)
                         p == at[i]
              <7>1. n \in Nat /\ j \in 1 .. n /\ Len(fb) = 2 + n /\ p \in Nat /\ k \in Nat
                BY <1>5, <1>6, <3>1
              <7>2. pos = p /\ ~(pos + 2 + n > k)
                BY <2>1, <4>1, <4>3
              <7> HIDE DEF n, p, fb
              <7> QED
                BY <7>1, <7>2 DEF p
            <6>2. v[at[i] + (2 + j)] = fb[2 + j]
              BY <1>3, <6>1, BytesOf
            <6> QED
              BY <3>1, <6>1, <6>2
          <5>3. pos + 2 \in Nat /\ (pos + 2) + Len(x.val) <= Len(v)
            BY <1>5, <1>6, <2>1, <4>1, <3>1, <4>3
          <5>4. SubSeq(v, (pos + 2) + 1, (pos + 2) + Len(x.val)) = x.val
            BY <1>6, <3>1, <5>2, <5>3, SliceIs
          <5>5. (pos + 2) + 1 = pos + 3 /\ (pos + 2) + Len(x.val) = pos + 2 + L
            BY <1>5, <2>1, <3>1, <4>1
          <5>6. Read(v, name) = x.val
            BY <5>1, <5>4, <5>5
          <5> QED
            BY <3>2, <5>6 DEF i
        <4> QED
          BY <4>2, <4>3
      <3> QED
        BY <3>3, <3>4
    <2>3. CASE t \notin Variable
      <3> DEFINE w == Width(t)
      <3>1. Len(fb) = w /\ FromNumber(t, Digits(fb, w)) = Meant(t, x)
        BY <1>5, <2>3 DEF FieldOK, FixedOK
      <3>2. w \in {1, 2}
        BY DEF Width
      <3> HIDE DEF w
      <3>3. CASE ~(pos + w <= k)
        <4>1. ~whole
          BY <1>5, <1>6, <2>1, <3>1, <3>3
        <4>2. Read(v, name) = Error
          BY <1>6, <1>9, <1>11, <2>3, <3>3 DEF w
        <4> QED
          BY <4>1, <4>2
      <3>4. CASE pos + w <= k
        <4>1. Read(v, name) = FromNumber(t, num)
          BY <1>6, <1>9, <1>11, <2>3, <3>4 DEF w
        <4>2. num = Digits(fb, w)
          <5>1. CASE w = 1
            <6>1. 1 \in 1 .. Len(fb) /\ at[i] + 1 <= k
              BY <2>1, <3>1, <3>4, <5>1
            <6>2. v[at[i] + 1] = fb[1]
              BY <1>3, <6>1, BytesOf
            <6> QED
              BY <1>6, <2>1, <5>1, <6>1, <6>2 DEF Number, Digits, w
          <5>2. CASE w = 2
            <6>1. 1 \in 1 .. Len(fb) /\ at[i] + 1 <= k /\ 2 \in 1 .. Len(fb) /\ at[i] + 2 <= k
              BY <1>5, <1>6, <2>1, <3>1, <3>4, <5>2
            <6>2. v[at[i] + 1] = fb[1] /\ v[at[i] + 2] = fb[2]
              BY <1>3, <6>1, BytesOf
            <6> QED
              BY <1>6, <2>1, <5>2, <6>1, <6>2 DEF Number, Digits, w
          <5> QED
            BY <3>2, <5>1, <5>2
        <4>3. Read(v, name) = Meant(t, x)
          BY <3>1, <4>1, <4>2
        <4> QED
          BY <4>3 DEF i
      <3> QED
        BY <3>3, <3>4
    <2> QED
      BY <2>2, <2>3
  <1> QED
    BY <1>10, <1>11

LEMMA ValuesInvFaithful == ValuesInv => ValuesFaithful
  <1> SUFFICES ASSUME ValuesInv PROVE ValuesFaithful
    OBVIOUS
  <1>1. ValuesTypeOK
    BY DEF ValuesInv
  <1>2. ASSUME outcome = "done", NEW name \in FieldNames
        PROVE  Read(encoded, name) = Meant(schema[First(name)].type, vals[First(name)])
    <2>1. Len(encoded) \in Nat
      BY <1>1 DEF ValuesTypeOK
    <2>2. Len(encoded) \in 0 .. Len(encoded)
      BY <2>1
    <2>3. CutTo(encoded, Len(encoded))
      BY <1>1, <2>2, CutIs
    <2> QED
      BY <1>2, <2>3, ReadIs
  <1>3. ReadsBack
    BY <1>2 DEF ReadsBack
  <1>4. ASSUME outcome = "done", NEW k \in 0 .. Len(encoded), NEW name \in FieldNames
        PROVE  Read(SubSeq(encoded, 1, k), name) \in {Error, Read(encoded, name)}
    <2>1. CutTo(SubSeq(encoded, 1, k), k)
      BY <1>1, CutIs
    <2> QED
      BY <1>2, <1>4, <2>1, ReadIs
  <1>5. PrefixReads
    BY <1>4 DEF PrefixReads
  <1> QED
    BY <1>1, <1>3, <1>5 DEF ValuesFaithful

\* What Encode accepts is read back as it was passed, each field by its name, for any base, schemas
\* and arguments; and in a value that was cut anywhere a field is read so or is an error
\* (Encode, locate, fixed, varField).
THEOREM ValuesAreFaithful == ValuesSpec => []ValuesFaithful
BY ValuesStart, ValuesStep, ValuesInvFaithful, PTL DEF ValuesSpec

----------------------------------------------------------------------------
(****************************************************************************)
(* For every set of headers, records and objects and every limit: the rows  *)
(* an input parser stores are those its source says, and the violation it   *)
(* reports is the first one.                                                *)
(****************************************************************************)

\* Keys.

\* A NUL ends what is before it: two sequences with one that agree, agree on both sides.
LEMMA SplitAtNul ==
    ASSUME NEW x \in Seq(Nat), NEW y \in Seq(Nat), NEW u \in Seq(Nat), NEW w \in Seq(Nat),
           ~HasNul(u), ~HasNul(w), Append(x, 0) \o u = Append(y, 0) \o w
    PROVE  x = y /\ u = w
  <1> DEFINE a == Append(x, 0)
             b == Append(y, 0)
  <1>1. /\ a \in Seq(Nat) /\ Len(a) = Len(x) + 1 /\ Len(x) \in Nat
        /\ a[Len(x) + 1] = 0 /\ \A i \in 1 .. Len(x) : a[i] = x[i]
    BY AppendProperties
  <1>2. /\ b \in Seq(Nat) /\ Len(b) = Len(y) + 1 /\ Len(y) \in Nat
        /\ b[Len(y) + 1] = 0 /\ \A i \in 1 .. Len(y) : b[i] = y[i]
    BY AppendProperties
  <1> DEFINE z == a \o u
  <1>3. z = b \o w
    OBVIOUS
  <1> HIDE DEF a, b, z
  <1>4. /\ Len(u) \in Nat /\ Len(z) = Len(a) + Len(u)
        /\ \A o \in 1 .. Len(a) : z[o] = a[o]
        /\ \A o \in 1 .. Len(u) : z[Len(a) + o] = u[o]
    <2>1. a \in Seq(Nat) /\ u \in Seq(Nat) /\ z = a \o u
      BY <1>1 DEF z
    <2> QED
      BY <2>1, Joined
  <1>5. /\ Len(w) \in Nat /\ Len(z) = Len(b) + Len(w)
        /\ \A o \in 1 .. Len(b) : z[o] = b[o]
        /\ \A o \in 1 .. Len(w) : z[Len(b) + o] = w[o]
    <2>1. b \in Seq(Nat) /\ w \in Seq(Nat) /\ z = b \o w
      BY <1>2, <1>3
    <2> QED
      BY <2>1, Joined
  <1>6. /\ \A o \in 1 .. Len(u) : u[o] # 0
        /\ \A o \in 1 .. Len(w) : w[o] # 0
    BY DEF HasNul
  <1>7. ~(Len(x) < Len(y))
    <2> SUFFICES ASSUME Len(x) < Len(y) PROVE FALSE
      OBVIOUS
    <2>1. (Len(y) + 1) - Len(a) \in 1 .. Len(u) /\ Len(a) + ((Len(y) + 1) - Len(a)) = Len(b)
          /\ Len(b) \in 1 .. Len(b)
      <3>1. /\ Len(x) \in Nat /\ Len(y) \in Nat /\ Len(u) \in Nat /\ Len(w) \in Nat
            /\ Len(a) = Len(x) + 1 /\ Len(b) = Len(y) + 1
        BY <1>1, <1>2, <1>4, <1>5
      <3>2. Len(a) + Len(u) = Len(b) + Len(w)
        BY <1>4, <1>5
      <3> QED
        BY <3>1, <3>2
    <2>2. z[Len(b)] = 0
      BY <1>2, <1>5, <2>1
    <2> QED
      BY <1>4, <1>6, <2>1, <2>2
  <1>8. ~(Len(y) < Len(x))
    <2> SUFFICES ASSUME Len(y) < Len(x) PROVE FALSE
      OBVIOUS
    <2>1. (Len(x) + 1) - Len(b) \in 1 .. Len(w) /\ Len(b) + ((Len(x) + 1) - Len(b)) = Len(a)
          /\ Len(a) \in 1 .. Len(a)
      <3>1. /\ Len(y) \in Nat /\ Len(x) \in Nat /\ Len(w) \in Nat /\ Len(u) \in Nat
            /\ Len(b) = Len(y) + 1 /\ Len(a) = Len(x) + 1
        BY <1>1, <1>2, <1>4, <1>5
      <3>2. Len(b) + Len(w) = Len(a) + Len(u)
        BY <1>4, <1>5
      <3> QED
        BY <3>1, <3>2
    <2>2. z[Len(a)] = 0
      BY <1>1, <1>4, <2>1
    <2> QED
      BY <1>5, <1>6, <2>1, <2>2
  <1>9. Len(x) = Len(y) /\ Len(a) = Len(b) /\ Len(u) = Len(w)
    BY <1>1, <1>2, <1>4, <1>5, <1>7, <1>8
  <1>10. \A i \in 1 .. Len(x) : x[i] = y[i]
    <2> TAKE i \in 1 .. Len(x)
    <2>1. i \in 1 .. Len(a) /\ i \in 1 .. Len(b) /\ i \in 1 .. Len(y)
      BY <1>1, <1>2, <1>9
    <2> QED
      BY <1>1, <1>2, <1>4, <1>5, <2>1
  <1>11. \A i \in 1 .. Len(u) : u[i] = w[i]
    BY <1>4, <1>5, <1>9
  <1> QED
    BY <1>9, <1>10, <1>11, SeqEqual

\* The key of the first cells.
KeysUpTo(cells, g) ==
    /\ g \in [0 .. Len(cells) -> Seq(Nat)]
    /\ \A i \in 1 .. Len(cells) :
          g[i] = (IF i = 1 THEN <<>> ELSE Append(g[i - 1], 0)) \o cells[i]
    /\ KeyOf(cells) = g[Len(cells)]

LEMMA KeyIs ==
    ASSUME NEW cells \in Seq(Seq(Nat))
    PROVE  \E g : KeysUpTo(cells, g)
  <1> DEFINE n == Len(cells)
             After(i, k) == IF i \in 1 .. n THEN (IF i = 1 THEN <<>> ELSE Append(k, 0)) \o cells[i]
                            ELSE k
             step == [i \in Nat |-> [k \in Seq(Nat) |-> After(i + 1, k)]]
             Steps(g) == g = [i \in 0 .. n |->
                                 IF i = 0 THEN <<>>
                                 ELSE (IF i = 1 THEN <<>> ELSE Append(g[i - 1], 0)) \o cells[i]]
             c == CHOOSE g : Steps(g)
  <1>1. KeyOf(cells) = c[n]
    BY DEF KeyOf
  <1>2. n \in Nat /\ \A i \in 1 .. n : cells[i] \in Seq(Nat)
    OBVIOUS
  <1>3. ASSUME NEW i \in Nat, NEW k \in Seq(Nat) PROVE After(i, k) \in Seq(Nat)
    <2>1. <<>> \in Seq(Nat) /\ Append(k, 0) \in Seq(Nat)
      OBVIOUS
    <2> QED
      BY <1>2, <2>1, ConcatProperties
  <1>4. step \in [Nat -> [Seq(Nat) -> Seq(Nat)]]
    BY <1>3
  <1>5. PICK f : Iterates(Seq(Nat), <<>>, step, f)
    <2> HIDE DEF step
    <2>1. <<>> \in Seq(Nat)
      OBVIOUS
    <2> QED
      BY <1>4, <2>1, Recursion
  <1>6. f \in [Nat -> Seq(Nat)] /\ f[0] = <<>> /\ \A i \in Nat : f[i + 1] = After(i + 1, f[i])
    <2> HIDE DEF After
    <2> QED
      BY <1>5 DEF Iterates
  <1> DEFINE u == [i \in 0 .. n |-> f[i]]
  <1>7. Steps(u)
    <2>1. \A i \in 0 .. n : u[i] = f[i]
      OBVIOUS
    <2>2. u = [i \in 0 .. n |-> u[i]]
      OBVIOUS
    <2> HIDE DEF u
    <2>3. ASSUME NEW i \in 0 .. n, i # 0
          PROVE  u[i] = (IF i = 1 THEN <<>> ELSE Append(u[i - 1], 0)) \o cells[i]
      <3>1. i - 1 \in Nat /\ (i - 1) + 1 = i /\ i - 1 \in 0 .. n /\ i \in 1 .. n
        BY <1>2, <2>3
      <3>2. f[i] = After(i, f[i - 1])
        BY <1>6, <3>1
      <3> QED
        BY <2>1, <3>1, <3>2
    <2>4. \A i \in 0 .. n : u[i] = IF i = 0 THEN <<>>
                                   ELSE (IF i = 1 THEN <<>> ELSE Append(u[i - 1], 0)) \o cells[i]
      BY <1>6, <2>1, <2>3
    <2> QED
      BY <2>2, <2>4
  <1>8. Steps(c)
    <2> HIDE DEF Steps
    <2> QED
      BY <1>7
  <1> HIDE DEF c
  <1>9. /\ DOMAIN c = 0 .. n
        /\ \A i \in 0 .. n : c[i] = IF i = 0 THEN <<>>
                                    ELSE (IF i = 1 THEN <<>> ELSE Append(c[i - 1], 0)) \o cells[i]
    BY <1>8
  <1> DEFINE Bad == {i \in Nat : i <= n /\ c[i] \notin Seq(Nat)}
  <1>10. Bad = {}
    <2> SUFFICES ASSUME Bad # {} PROVE FALSE
      OBVIOUS
    <2>1. PICK i \in Bad : \A o \in Bad : i <= o
      <3> HIDE DEF Bad
      <3>1. Bad \in SUBSET Nat
        BY DEF Bad
      <3> QED
        BY <3>1, LeastNatural
    <2>2. i \in 0 .. n /\ c[i] \notin Seq(Nat)
      BY <1>2
    <2>3. i # 0
      <3>1. <<>> \in Seq(Nat)
        OBVIOUS
      <3> QED
        BY <1>9, <2>2, <3>1
    <2>4. i - 1 \in Nat /\ i - 1 <= n /\ ~(i <= i - 1) /\ i \in 1 .. n
      BY <1>2, <2>2, <2>3
    <2>5. c[i - 1] \in Seq(Nat)
      BY <2>1, <2>4
    <2>6. (IF i = 1 THEN <<>> ELSE Append(c[i - 1], 0)) \o cells[i] \in Seq(Nat)
      BY <1>3, <2>4, <2>5
    <2> QED
      BY <1>9, <2>2, <2>3, <2>6
  <1>11. \A i \in 0 .. n : c[i] \in Seq(Nat)
    BY <1>10
  <1>12. c = [i \in 0 .. n |-> c[i]]
    <2> HIDE DEF Steps
    <2> QED
      BY <1>8 DEF Steps
  <1>13. c \in [0 .. n -> Seq(Nat)]
    BY <1>11, <1>12
  <1>14. \A i \in 1 .. n : c[i] = (IF i = 1 THEN <<>> ELSE Append(c[i - 1], 0)) \o cells[i]
    <2> TAKE i \in 1 .. n
    <2>1. i \in 0 .. n /\ i # 0
      BY <1>2
    <2> QED
      BY <1>9, <2>1
  <1> QED
    BY <1>1, <1>13, <1>14 DEF KeysUpTo

Plain(cells) == cells \in Seq(Seq(Nat)) /\ \A i \in DOMAIN cells : ~HasNul(cells[i])

\* The cells of a key can be told from it, if there are as many.
LEMMA KeyTellsCells ==
    ASSUME NEW p, NEW q, Plain(p), Plain(q), Len(p) = Len(q), KeyOf(p) = KeyOf(q)
    PROVE  p = q
  <1> DEFINE n == Len(p)
  <1>1. /\ p \in Seq(Seq(Nat)) /\ q \in Seq(Seq(Nat)) /\ n \in Nat
        /\ \A i \in 1 .. n : /\ p[i] \in Seq(Nat) /\ ~HasNul(p[i])
                             /\ q[i] \in Seq(Nat) /\ ~HasNul(q[i])
    <2>1. p \in Seq(Seq(Nat)) /\ q \in Seq(Seq(Nat))
      BY DEF Plain
    <2>2. n \in Nat /\ DOMAIN p = 1 .. n /\ DOMAIN q = 1 .. n
      BY <2>1
    <2>3. \A i \in 1 .. n : p[i] \in Seq(Nat) /\ q[i] \in Seq(Nat)
      BY <2>1
    <2> QED
      BY <2>1, <2>2, <2>3 DEF Plain
  <1>2. PICK g : KeysUpTo(p, g)
    BY <1>1, KeyIs
  <1>3. PICK h : KeysUpTo(q, h)
    BY <1>1, KeyIs
  <1>4. /\ \A i \in 0 .. n : g[i] \in Seq(Nat)
        /\ \A i \in 1 .. n : g[i] = (IF i = 1 THEN <<>> ELSE Append(g[i - 1], 0)) \o p[i]
        /\ KeyOf(p) = g[n]
    BY <1>2 DEF KeysUpTo
  <1>5. /\ \A i \in 0 .. n : h[i] \in Seq(Nat)
        /\ \A i \in 1 .. n : h[i] = (IF i = 1 THEN <<>> ELSE Append(h[i - 1], 0)) \o q[i]
        /\ KeyOf(q) = h[n]
    BY <1>3 DEF KeysUpTo
  <1> DEFINE Same(i) == \A j \in 1 .. i : p[j] = q[j]
             Bad == {i \in Nat : i <= n /\ g[i] = h[i] /\ ~Same(i)}
  <1>6. Bad = {}
    <2> SUFFICES ASSUME Bad # {} PROVE FALSE
      OBVIOUS
    <2>1. PICK i \in Bad : \A o \in Bad : i <= o
      <3> HIDE DEF Bad
      <3>1. Bad \in SUBSET Nat
        BY DEF Bad
      <3> QED
        BY <3>1, LeastNatural
    <2>2. i \in Nat /\ i <= n /\ g[i] = h[i] /\ ~Same(i)
      OBVIOUS
    <2>3. i \in 1 .. n
      BY <1>1, <2>2
    <2>4. CASE i = 1
      <3>1. g[1] = <<>> \o p[1] /\ h[1] = <<>> \o q[1]
        BY <1>4, <1>5, <2>3, <2>4
      <3>2. g[1] = p[1] /\ h[1] = q[1]
        BY <1>1, <2>3, <2>4, <3>1, ConcatEmptySeq
      <3> QED
        BY <2>2, <2>4, <3>2
    <2>5. CASE i # 1
      <3>1. i - 1 \in Nat /\ i - 1 <= n /\ ~(i <= i - 1) /\ i - 1 \in 0 .. n
        <4>1. n \in Nat
          BY <1>1
        <4> QED
          BY <4>1, <2>3
      <3>2. Append(g[i - 1], 0) \o p[i] = Append(h[i - 1], 0) \o q[i]
        BY <1>4, <1>5, <2>2, <2>3, <2>5
      <3>3. g[i - 1] = h[i - 1] /\ p[i] = q[i]
        <4>1. g[i - 1] \in Seq(Nat) /\ h[i - 1] \in Seq(Nat)
          BY <1>4, <1>5, <3>1
        <4>2. p[i] \in Seq(Nat) /\ q[i] \in Seq(Nat) /\ ~HasNul(p[i]) /\ ~HasNul(q[i])
          BY <1>1, <2>3
        <4> DEFINE x == g[i - 1]
                   y == h[i - 1]
                   u == p[i]
                   w == q[i]
        <4>3. /\ x \in Seq(Nat) /\ y \in Seq(Nat) /\ u \in Seq(Nat) /\ w \in Seq(Nat)
              /\ ~HasNul(u) /\ ~HasNul(w) /\ Append(x, 0) \o u = Append(y, 0) \o w
          BY <3>2, <4>1, <4>2
        <4> HIDE DEF x, y, u, w
        <4>4. x = y /\ u = w
          BY <4>3, SplitAtNul
        <4> QED
          BY <4>4 DEF x, y, u, w
      <3>4. Same(i - 1)
        BY <2>1, <3>1, <3>3
      <3>5. \A j \in 1 .. i : j \in 1 .. i - 1 \/ j = i
        BY <2>3
      <3> QED
        BY <2>2, <3>3, <3>4, <3>5
    <2> QED
      BY <2>4, <2>5
  <1>7. g[n] = h[n]
    BY <1>4, <1>5
  <1>8. Same(n)
    <2>1. n \in Nat /\ n <= n
      BY <1>1
    <2> HIDE DEF Same, n
    <2> QED
      BY <1>6, <1>7, <2>1
  <1> QED
    BY <1>1, <1>8, SeqEqual

----------------------------------------------------------------------------
\* Order.

\* Places that can be put in an order, by names that are numbers.
Orderly(names, P) == P \in SUBSET Nat /\ IsFiniteSet(P) /\ \A x \in P : names[x] \in Nat
AheadOf(names, P, x) == {y \in P : Precedes(names, y, x)}

LEMMA PrecedesIsAnOrder ==
    ASSUME NEW names, NEW P, Orderly(names, P), NEW x \in P, NEW y \in P, NEW z \in P
    PROVE  /\ ~Precedes(names, x, x)
           /\ x # y => Precedes(names, x, y) \/ Precedes(names, y, x)
           /\ ~(Precedes(names, x, y) /\ Precedes(names, y, x))
           /\ Precedes(names, x, y) /\ Precedes(names, y, z) => Precedes(names, x, z)
  BY DEF Orderly, Precedes

\* A place has fewer ahead of it than those it is ahead of.
LEMMA RanksGrow ==
    ASSUME NEW names, NEW P, Orderly(names, P), NEW x \in P, NEW y \in P
    PROVE  /\ Cardinality(AheadOf(names, P, x)) \in 0 .. Cardinality(P) - 1
           /\ Precedes(names, x, y) =>
                  Cardinality(AheadOf(names, P, x)) < Cardinality(AheadOf(names, P, y))
  <1> DEFINE A(a) == AheadOf(names, P, a)
  <1>1. P \in SUBSET Nat /\ IsFiniteSet(P) /\ Cardinality(P) \in Nat
    BY FS_CardinalityType DEF Orderly
  <1>2. ASSUME NEW a \in P
        PROVE  A(a) \in SUBSET P /\ IsFiniteSet(A(a)) /\ Cardinality(A(a)) \in Nat
    <2>1. A(a) \in SUBSET P
      BY DEF AheadOf
    <2> QED
      BY <1>1, <2>1, FS_Subset, FS_CardinalityType
  <1>3. Cardinality(A(x)) < Cardinality(P)
    <2>1. x \notin A(x)
      BY PrecedesIsAnOrder DEF AheadOf
    <2>2. Cardinality(A(x)) <= Cardinality(P) /\ Cardinality(A(x)) # Cardinality(P)
      BY <1>1, <1>2, <2>1, FS_Subset
    <2> QED
      BY <1>1, <1>2, <2>2
  <1>4. ASSUME Precedes(names, x, y) PROVE Cardinality(A(x)) < Cardinality(A(y))
    <2>1. A(x) \in SUBSET A(y)
      BY <1>4, PrecedesIsAnOrder DEF AheadOf
    <2>2. x \in A(y) /\ x \notin A(x)
      BY <1>4, PrecedesIsAnOrder DEF AheadOf
    <2>3. Cardinality(A(x)) <= Cardinality(A(y)) /\ Cardinality(A(x)) # Cardinality(A(y))
      BY <1>2, <2>1, <2>2, FS_Subset
    <2> QED
      BY <1>2, <2>3
  <1> QED
    BY <1>1, <1>2, <1>3, <1>4

\* s passes the places of P in order.
Sorts(names, P, s) ==
    s \in SetToSeqs(P) /\ \A i, j \in DOMAIN s : i < j => Precedes(names, s[i], s[j])

\* There is an order to pass them in: by the number of those ahead.
LEMMA CanBeSorted ==
    ASSUME NEW names, NEW P, Orderly(names, P)
    PROVE  \E s : Sorts(names, P, s)
  <1> DEFINE rank(a) == Cardinality(AheadOf(names, P, a))
             n == Cardinality(P)
             f == [a \in P |-> rank(a) + 1]
             s == [m \in 1 .. n |-> CHOOSE a \in P : f[a] = m]
  <1>1. IsFiniteSet(P) /\ n \in Nat
    BY FS_CardinalityType DEF Orderly
  <1>2. \A a \in P : rank(a) \in 0 .. n - 1
    BY RanksGrow
  <1>3. \A a, c \in P : Precedes(names, a, c) => rank(a) < rank(c)
    BY RanksGrow
  <1>4. \A a, c \in P : a # c => Precedes(names, a, c) \/ Precedes(names, c, a)
    BY PrecedesIsAnOrder
  <1> HIDE DEF rank, n
  <1>5. f \in [P -> 1 .. n] /\ \A a \in P : f[a] = rank(a) + 1
    BY <1>1, <1>2
  <1> HIDE DEF f
  <1>6. f \in Surjection(P, 1 .. n)
    <2>1. f \in Injection(P, 1 .. n)
      BY <1>2, <1>3, <1>4, <1>5 DEF Injection, IsInjective
    <2>2. IsFiniteSet(1 .. n) /\ Cardinality(1 .. n) = n
      BY <1>1, FS_Interval
    <2> QED
      BY <2>1, <2>2, FS_Injection DEF n
  <1>7. \A m \in 1 .. n : \E a \in P : f[a] = m
    BY <1>6 DEF Surjection
  <1>8. \A m \in 1 .. n : s[m] \in P /\ f[s[m]] = m
    BY <1>7
  <1>9. s \in [1 .. n -> P]
    BY <1>7
  <1> HIDE DEF s
  <1>10. s \in SetToSeqs(P)
    BY <1>8, <1>9 DEF SetToSeqs, n
  <1>11. ASSUME NEW i \in 1 .. n, NEW j \in 1 .. n, i < j
         PROVE  Precedes(names, s[i], s[j])
    <2>1. s[i] \in P /\ s[j] \in P /\ rank(s[i]) + 1 = i /\ rank(s[j]) + 1 = j
      BY <1>5, <1>8
    <2>2. rank(s[i]) \in Int /\ rank(s[j]) \in Int
      BY <1>2, <2>1
    <2>3. ~(rank(s[j]) < rank(s[i])) /\ s[i] # s[j]
      BY <1>1, <1>11, <2>1, <2>2
    <2> QED
      BY <1>3, <1>4, <2>1, <2>3
  <1> QED
    BY <1>9, <1>10, <1>11 DEF Sorts

LEMMA InOrderSorts ==
    ASSUME NEW names, NEW P, Orderly(names, P)
    PROVE  Sorts(names, P, InOrder(names, P))
  <1>1. InOrder(names, P) = CHOOSE s : Sorts(names, P, s)
    BY DEF InOrder, Sorts
  <1> QED
    BY <1>1, CanBeSorted

\* In any such order a place has ahead of it those passed before.
LEMMA SortedRank ==
    ASSUME NEW names, NEW P, Orderly(names, P), NEW s, Sorts(names, P, s), NEW m \in DOMAIN s
    PROVE  Cardinality(AheadOf(names, P, s[m])) = m - 1
  <1> DEFINE n == Cardinality(P)
             A == AheadOf(names, P, s[m])
             g == [j \in 1 .. m - 1 |-> s[j]]
  <1>1. IsFiniteSet(P) /\ n \in Nat
    BY FS_CardinalityType DEF Orderly
  <1>2. /\ s \in [1 .. n -> P] /\ \A i, j \in 1 .. n : i # j => s[i] # s[j]
        /\ \A i, j \in 1 .. n : i < j => Precedes(names, s[i], s[j])
    BY DEF Sorts, SetToSeqs
  <1> HIDE DEF n
  <1>3. s \in Surjection(1 .. n, P)
    <2>1. s \in Injection(1 .. n, P)
      BY <1>2 DEF Injection, IsInjective
    <2>2. IsFiniteSet(1 .. n) /\ Cardinality(1 .. n) = n
      BY <1>1, FS_Interval
    <2> QED
      BY <1>1, <2>1, <2>2, FS_Injection DEF n
  <1>4. m \in 1 .. n /\ s[m] \in P
    BY <1>2
  <1>5. \A j \in 1 .. m - 1 : j \in 1 .. n /\ j < m /\ s[j] \in A
    <2> TAKE j \in 1 .. m - 1
    <2>1. j \in 1 .. n /\ j < m
      BY <1>1, <1>4
    <2> QED
      BY <1>2, <1>4, <2>1 DEF AheadOf
  <1>6. \A a \in A : \E j \in 1 .. m - 1 : s[j] = a
    <2> TAKE a \in A
    <2>1. a \in P /\ Precedes(names, a, s[m])
      BY DEF AheadOf
    <2>2. PICK j \in 1 .. n : s[j] = a
      BY <1>3, <2>1 DEF Surjection
    <2>3. j # m /\ ~(m < j)
      BY <1>2, <1>4, <2>1, <2>2, PrecedesIsAnOrder
    <2>4. j \in 1 .. m - 1
      BY <1>1, <1>4, <2>3
    <2> QED
      BY <2>2, <2>4
  <1> HIDE DEF A
  <1>7. g \in Bijection(1 .. m - 1, A)
    <2>1. g \in [1 .. m - 1 -> A] /\ \A j \in 1 .. m - 1 : g[j] = s[j]
      BY <1>5
    <2> HIDE DEF g
    <2> QED
      BY <1>2, <1>5, <1>6, <2>1 DEF Bijection, Injection, IsInjective, Surjection
  <1>8. m - 1 \in Nat /\ IsFiniteSet(1 .. m - 1) /\ Cardinality(1 .. m - 1) = m - 1
    <2>1. m - 1 \in Nat
      BY <1>1, <1>4
    <2> QED
      BY <2>1, FS_Interval
  <1> HIDE DEF g
  <1>9. ExistsBijection(1 .. m - 1, A)
    BY <1>7 DEF ExistsBijection
  <1>10. Cardinality(A) = m - 1
    BY <1>8, <1>9, FS_Bijection
  <1> QED
    BY <1>10 DEF A

LEMMA SortedPlaces ==
    ASSUME NEW names, NEW P, Orderly(names, P), NEW s, Sorts(names, P, s)
    PROVE  /\ Cardinality(P) \in Nat /\ s \in [1 .. Cardinality(P) -> P]
           /\ s \in Seq(P) /\ Len(s) = Cardinality(P)
           /\ \A x \in P : \E m \in DOMAIN s : s[m] = x
  <1> DEFINE n == Cardinality(P)
  <1>1. IsFiniteSet(P) /\ n \in Nat
    BY FS_CardinalityType DEF Orderly
  <1>2. s \in [1 .. n -> P] /\ \A i, j \in 1 .. n : i # j => s[i] # s[j]
    BY DEF Sorts, SetToSeqs
  <1> HIDE DEF n
  <1>3. s \in Surjection(1 .. n, P)
    <2>1. s \in Injection(1 .. n, P)
      BY <1>2 DEF Injection, IsInjective
    <2>2. IsFiniteSet(1 .. n) /\ Cardinality(1 .. n) = n
      BY <1>1, FS_Interval
    <2> QED
      BY <1>1, <2>1, <2>2, FS_Injection DEF n
  <1>4. s \in Seq(P) /\ Len(s) = n
    BY <1>1, <1>2
  <1> QED
    BY <1>1, <1>2, <1>3, <1>4 DEF Surjection, n

\* No two places have as many ahead.
LEMMA RanksDiffer ==
    ASSUME NEW names, NEW P, Orderly(names, P), NEW x \in P, NEW y \in P,
           Cardinality(AheadOf(names, P, x)) = Cardinality(AheadOf(names, P, y))
    PROVE  x = y
  <1>1. IsFiniteSet(P) /\ Cardinality(P) \in Nat
    BY FS_CardinalityType DEF Orderly
  <1>2. /\ ~(Cardinality(AheadOf(names, P, x)) < Cardinality(AheadOf(names, P, y)))
        /\ ~(Cardinality(AheadOf(names, P, y)) < Cardinality(AheadOf(names, P, x)))
    BY <1>1, RanksGrow
  <1> QED
    BY <1>2, RanksGrow, PrecedesIsAnOrder

\* The dimensions a record means are its cells in order.
NamesIn(rec) == [i \in DOMAIN rec |-> rec[i].name]
CellsIn(rec, s) == [m \in DOMAIN s |-> rec[s[m]].cell]
ValueIn(rec) == rec[CHOOSE i \in DOMAIN rec : rec[i].name = ValueColumn].cell

LEMMA MeaningIs ==
    ASSUME NEW rec, NEW names, names = NamesIn(rec),
           Orderly(names, DimPlaces(names)), NEW s, Sorts(names, DimPlaces(names), s)
    PROVE  Meaning(rec).dims = CellsIn(rec, s) /\ Meaning(rec).val = ValueIn(rec)
  <1> DEFINE P == DimPlaces(names)
             n == Cardinality(P)
             Ahead(i) == {j \in DimPlaces(names) : Precedes(names, j, i)}
             At(m) == CHOOSE i \in DimPlaces(names) : Cardinality(Ahead(i)) = m - 1
  <1>1. /\ Meaning(rec).dims = [m \in 1 .. Cardinality(DimPlaces(names)) |-> rec[At(m)].cell]
        /\ Meaning(rec).val = ValueIn(rec)
    BY DEF Meaning, NamesIn, ValueIn
  <1>2. DOMAIN s = 1 .. n /\ \A m \in 1 .. n : s[m] \in P
    BY SortedPlaces
  <1>3. ASSUME NEW m \in 1 .. n PROVE At(m) = s[m]
    <2>1. Cardinality(AheadOf(names, P, s[m])) = m - 1 /\ s[m] \in P
      BY <1>2, SortedRank
    <2>2. \A i : Ahead(i) = AheadOf(names, P, i)
      BY DEF AheadOf
    <2>3. At(m) = CHOOSE i \in P : Cardinality(AheadOf(names, P, i)) = m - 1
      BY <2>2
    <2> DEFINE c == CHOOSE i \in P : Cardinality(AheadOf(names, P, i)) = m - 1
    <2>4. c \in P /\ Cardinality(AheadOf(names, P, c)) = m - 1
      BY <2>1
    <2> HIDE DEF c, P
    <2>5. Orderly(names, P)
      BY DEF P
    <2>6. c = s[m]
      BY <2>1, <2>4, <2>5, RanksDiffer
    <2> QED
      BY <2>3, <2>6 DEF c
  <1> HIDE DEF At
  <1> QED
    BY <1>1, <1>2, <1>3 DEF CellsIn

\* The order of places depends on their own names alone.
LEMMA SameOrder ==
    ASSUME NEW a, NEW c, NEW P, \A x \in P : a[x] = c[x]
    PROVE  InOrder(a, P) = InOrder(c, P)
  <1>1. ASSUME NEW s \in SetToSeqs(P)
        PROVE  (\A i, j \in DOMAIN s : i < j => Precedes(a, s[i], s[j]))
                   <=> (\A i, j \in DOMAIN s : i < j => Precedes(c, s[i], s[j]))
    <2>1. \A i \in DOMAIN s : s[i] \in P
      BY DEF SetToSeqs
    <2>2. \A i, j \in DOMAIN s : Precedes(a, s[i], s[j]) <=> Precedes(c, s[i], s[j])
      BY <2>1 DEF Precedes
    <2> QED
      BY <2>2
  <1> QED
    BY <1>1 DEF InOrder

----------------------------------------------------------------------------
\* The invariant.

Record == UNION {[F -> [name : Nat, cell : Seq(Nat)]] : F \in {E \in SUBSET Nat : IsFiniteSet(E)}}
\* A record that may be followed by others of k dimensions.
Regular(rec, k) ==
    /\ rec \in Record
    /\ Plain(Meaning(rec).dims) /\ Len(Meaning(rec).dims) = k
    /\ Meaning(rec).val \in Seq(Nat)

\* The fields of o are those of every object.
FirstObject(o, ds, old) ==
    /\ o \in Objects
    /\ ds = InOrder([f \in NamesOf(o) |-> f], NamesOf(o))
    /\ old = IsLegacy(o) /\ (ValueColumn \in DOMAIN o \/ old)

ReadInv ==
    /\ format \in {"csv", "ndjson"} /\ line \in 0 .. MaxLines + 1 /\ legacy \in BOOLEAN
    /\ format = "csv" => /\ line = 0 => recs = <<>>
                         /\ Reading /\ line >= 1 =>
                               /\ header \in Headers /\ dims = SortedDims(header)
                               /\ \E i : ValuePositions(header) = {i}
    /\ format = "ndjson" => \/ dims = <<>> /\ legacy = FALSE /\ recs = <<>>
                            \/ dims # <<>> /\ \E o : FirstObject(o, dims, legacy)
RecordsInv ==
    /\ recs \in Seq([line : Nat, rec : Record])
    /\ \A i \in DOMAIN recs : Regular(recs[i].rec, Len(dims)) /\ recs[i].line \in 1 .. line
    /\ \A i, j \in DOMAIN recs : i < j => recs[i].line < recs[j].line
RowOf(r) == [key |-> KeyOf(Meaning(r.rec).dims), val |-> Meaning(r.rec).val, line |-> r.line]
StoredInv ==
    /\ stored \in Seq([key : Seq(Nat), val : Seq(Nat), line : Nat]) /\ limitErr \in 0 .. line
    /\ Len(stored) <= Len(recs)
    /\ \A i \in 1 .. Len(stored) : stored[i] = RowOf(recs[i]) /\ Keeps(recs[i].rec)
    /\ limitErr = 0 => Len(stored) = Len(recs)
    /\ limitErr # 0 => LET v == Len(stored) + 1
                       IN v <= Len(recs) /\ recs[v].line = limitErr /\ ~Keeps(recs[v].rec)
Ends == {"malformed", "novalue", "nodims", "cancelled"}
ResultInv ==
    \/ Reading
    \/ result.kind \in Ends
    \/ result.kind = "ok" /\ limitErr = 0
    \/ /\ result.kind = "duplicate" /\ limitErr # 0
       /\ Duplicates # {} /\ FirstDuplicate < limitErr /\ result.line = FirstDuplicate
    \/ /\ result.kind = "limit" /\ limitErr # 0 /\ result.line = limitErr
       /\ ~(Duplicates # {} /\ FirstDuplicate < limitErr)

SourceInv == ReadInv /\ RecordsInv /\ StoredInv /\ ResultInv

----------------------------------------------------------------------------
\* What a record means.

\* Cells at places in order, none of them with a NUL.
Picked(f, s) == [m \in DOMAIN s |-> f[s[m]]]

LEMMA PlainCells ==
    ASSUME NEW P, NEW s \in Seq(P), NEW f, \A x \in P : f[x] \in Seq(Nat),
           \A m \in DOMAIN s : ~HasNul(f[s[m]])
    PROVE  Plain(Picked(f, s)) /\ Len(Picked(f, s)) = Len(s)
  <1> DEFINE c == Picked(f, s)
  <1>1. DOMAIN s = 1 .. Len(s) /\ Len(s) \in Nat /\ \A m \in DOMAIN s : s[m] \in P
    OBVIOUS
  <1>2. c \in [1 .. Len(s) -> Seq(Nat)] /\ \A m \in DOMAIN s : c[m] = f[s[m]]
    BY <1>1 DEF Picked
  <1> HIDE DEF c
  <1>3. c \in Seq(Seq(Nat)) /\ Len(c) = Len(s)
    <2> DEFINE Cells == Seq(Nat)
    <2>1. c \in [1 .. Len(s) -> Cells] /\ Len(s) \in Nat
      BY <1>1, <1>2
    <2> HIDE DEF Cells
    <2>2. c \in Seq(Cells) /\ Len(c) = Len(s)
      BY <2>1
    <2> QED
      BY <2>2 DEF Cells
  <1>4. \A m \in DOMAIN c : ~HasNul(c[m])
    BY <1>1, <1>2
  <1> QED
    BY <1>3, <1>4 DEF Plain, c

LEMMA FirstNumbers ==
    ASSUME NEW n \in Nat
    PROVE  1 .. n \in SUBSET Nat /\ IsFiniteSet(1 .. n) /\ Cardinality(1 .. n) = n
  <1>1. 1 .. n \in SUBSET Nat
    OBVIOUS
  <1> QED
    BY <1>1, FS_Interval

RecordOf(h, cells) == [i \in DOMAIN cells |-> [name |-> h[i], cell |-> cells[i]]]

LEMMA RecordOfCells ==
    ASSUME NEW h \in Headers, NEW v, ValuePositions(h) = {v}, NEW cells \in Records,
           Len(cells) = Len(h), NEW ds, ds = SortedDims(h),
           \A i \in DOMAIN ds : ~HasNul(cells[ds[i]])
    PROVE  LET rec == RecordOf(h, cells)
           IN  /\ Regular(rec, Len(ds))
               /\ Meaning(rec).dims = Picked(cells, ds) /\ Meaning(rec).val = cells[v]
  <1> DEFINE n == Len(h)
             rec == [i \in DOMAIN cells |-> [name |-> h[i], cell |-> cells[i]]]
             names == [i \in DOMAIN rec |-> rec[i].name]
             P == DimPlaces(h)
  <1>1. /\ n \in Nat /\ DOMAIN h = 1 .. n /\ h \in [1 .. n -> Nat]
        /\ DOMAIN cells = 1 .. n /\ cells \in [1 .. n -> Seq(Nat)]
    <2>1. h \in Seq(Nat) /\ cells \in Seq(Seq(Nat))
      BY RecordsAssumption
    <2> QED
      BY <2>1
  <1> HIDE DEF n
  <1>2. /\ DOMAIN rec = 1 .. n
        /\ \A i \in 1 .. n : rec[i].name = h[i] /\ rec[i].cell = cells[i]
    BY <1>1
  <1>3. names = h
    <2>1. names = [i \in 1 .. n |-> h[i]]
      BY <1>2
    <2> HIDE DEF names
    <2> QED
      BY <1>1, <2>1
  <1>4. rec \in Record
    <2>1. rec \in [1 .. n -> [name : Nat, cell : Seq(Nat)]]
      BY <1>1
    <2>2. 1 .. n \in SUBSET Nat /\ IsFiniteSet(1 .. n)
      BY <1>1, FirstNumbers
    <2> HIDE DEF rec
    <2> QED
      BY <2>1, <2>2 DEF Record
  <1> HIDE DEF rec
  <1>5. Orderly(h, P) /\ P \in SUBSET (1 .. n)
    <2>1. P \in SUBSET (1 .. n)
      BY <1>1 DEF DimPlaces
    <2>2. IsFiniteSet(1 .. n) /\ \A x \in 1 .. n : h[x] \in Nat /\ x \in Nat
      BY <1>1, FirstNumbers
    <2>3. IsFiniteSet(P)
      BY <2>1, <2>2, FS_Subset
    <2> HIDE DEF P
    <2> QED
      BY <2>1, <2>2, <2>3 DEF Orderly
  <1>6. Sorts(h, P, ds)
    BY <1>5, InOrderSorts DEF SortedDims
  <1>7. ds \in Seq(P) /\ \A m \in DOMAIN ds : ds[m] \in 1 .. n
    <2>1. ds \in Seq(P)
      BY <1>5, <1>6, SortedPlaces
    <2> HIDE DEF P
    <2>2. \A m \in DOMAIN ds : ds[m] \in P
      BY <2>1
    <2> QED
      BY <1>5, <2>1, <2>2
  <1>8. Meaning(rec).dims = CellsIn(rec, ds) /\ Meaning(rec).val = ValueIn(rec)
    <2>1. h = NamesIn(rec)
      BY <1>3 DEF NamesIn
    <2>2. Orderly(h, DimPlaces(h)) /\ Sorts(h, DimPlaces(h), ds)
      BY <1>5, <1>6
    <2> HIDE DEF names, P
    <2> QED
      BY <2>1, <2>2, MeaningIs
  <1>9. Meaning(rec).dims = [m \in DOMAIN ds |-> cells[ds[m]]]
    BY <1>2, <1>7, <1>8 DEF CellsIn
  <1>10. Meaning(rec).val = cells[v] /\ v \in 1 .. n
    <2>1. v \in 1 .. n /\ \A i \in 1 .. n : h[i] = ValueColumn <=> i = v
      BY <1>1 DEF ValuePositions
    <2> DEFINE c == CHOOSE i \in DOMAIN rec : rec[i].name = ValueColumn
    <2>2. c \in DOMAIN rec /\ rec[c].name = ValueColumn
      BY <1>2, <2>1
    <2> HIDE DEF c
    <2>3. c = v
      BY <1>2, <2>1, <2>2
    <2> QED
      BY <1>2, <1>8, <2>1, <2>3 DEF c, ValueIn
  <1>11. Plain(Meaning(rec).dims) /\ Len(Meaning(rec).dims) = Len(ds)
    <2>1. \A x \in P : cells[x] \in Seq(Nat)
      BY <1>1, <1>5
    <2> HIDE DEF P
    <2>2. \A m \in DOMAIN ds : ~HasNul(cells[ds[m]])
      OBVIOUS
    <2>3. Plain(Picked(cells, ds)) /\ Len(Picked(cells, ds)) = Len(ds)
      BY <1>7, <2>1, <2>2, PlainCells
    <2> QED
      BY <1>9, <2>3 DEF Picked
  <1>12. Regular(rec, Len(ds))
    <2>1. cells[v] \in Seq(Nat)
      BY <1>1, <1>10
    <2> QED
      BY <1>4, <1>9, <1>10, <1>11, <2>1 DEF Regular
  <1> QED
    BY <1>9, <1>10, <1>12 DEF rec, RecordOf, Picked

RecordFrom(o, v) ==
    [f \in DOMAIN o |-> [name |-> IF f = v THEN ValueColumn ELSE f, cell |-> o[f]]]

LEMMA RecordOfObject ==
    ASSUME NEW o \in Objects, NEW first, NEW ds, NEW old, FirstObject(first, ds, old),
           SameFields(o, ds, old), NEW v, v = IF old THEN ValueField ELSE ValueColumn,
           \A i \in DOMAIN ds : o[ds[i]] # NotScalar /\ ~HasNul(o[ds[i]]), o[v] # NotScalar
    PROVE  LET rec == RecordFrom(o, v)
           IN  /\ Regular(rec, Len(ds))
               /\ Meaning(rec).dims = Picked(o, ds) /\ Meaning(rec).val = o[v]
  <1> DEFINE N == NamesOf(first)
             fields == DOMAIN o
             id == [f \in N |-> f]
             Name(f) == IF f = v THEN ValueColumn ELSE f
             rec == [f \in fields |-> [name |-> Name(f), cell |-> o[f]]]
             names == [f \in fields |-> Name(f)]
  <1>1. /\ fields \in SUBSET Nat /\ IsFiniteSet(fields)
        /\ \A f \in fields : o[f] # NotScalar => o[f] \in Seq(Nat)
    BY ObjectsAssumption
  <1>2. /\ N \in SUBSET Nat /\ IsFiniteSet(N) /\ v \notin N /\ ValueColumn \notin N
        /\ ValueColumn \in Nat
    <2>1. first \in Objects /\ old = IsLegacy(first)
      BY DEF FirstObject
    <2>2. DOMAIN first \in SUBSET Nat /\ IsFiniteSet(DOMAIN first)
      BY <2>1, ObjectsAssumption
    <2>3. N \in SUBSET (DOMAIN first)
      BY NamesAssumption DEF NamesOf, IsLegacy
    <2>4. IsFiniteSet(N)
      BY <2>2, <2>3, FS_Subset
    <2>5. v \notin N /\ ValueColumn \notin N /\ ValueColumn \in Nat
      BY <2>1, NamesAssumption DEF NamesOf
    <2> HIDE DEF N
    <2> QED
      BY <2>2, <2>3, <2>4, <2>5
  <1>3. ds = InOrder(id, N)
    BY DEF FirstObject
  <1> HIDE DEF N
  <1>4. Orderly(id, N)
    BY <1>2 DEF Orderly
  <1>5. Sorts(id, N, ds)
    BY <1>3, <1>4, InOrderSorts
  <1>6. /\ ds \in Seq(N) /\ Len(ds) = Cardinality(N) /\ Cardinality(N) \in Nat
        /\ \A x \in N : \E m \in DOMAIN ds : ds[m] = x
    <2> HIDE DEF id
    <2> QED
      BY <1>4, <1>5, SortedPlaces
  <1>7. fields = N \cup {v}
    <2>1. ToSet(ds) = N
      <3>1. \A m \in DOMAIN ds : ds[m] \in N
        BY <1>6
      <3> QED
        BY <1>6, <3>1 DEF ToSet
    <2>2. N \cup {v} \in SUBSET fields /\ Cardinality(fields) = Cardinality(N) + 1
      BY <1>6, <2>1 DEF SameFields, NoneMissing
    <2>3. IsFiniteSet(N \cup {v}) /\ Cardinality(N \cup {v}) = Cardinality(N) + 1
      BY <1>2, FS_AddElement
    <2> HIDE DEF fields
    <2> QED
      BY <1>1, <2>2, <2>3, FS_Subset
  <1>8. /\ DOMAIN rec = fields /\ \A f \in fields : rec[f].name = Name(f) /\ rec[f].cell = o[f]
        /\ DOMAIN names = fields /\ \A f \in fields : names[f] = Name(f)
    OBVIOUS
  <1>9. NamesIn(rec) = names
    BY DEF NamesIn
  <1>10. \A f \in fields : o[f] \in Seq(Nat)
    <2> TAKE f \in fields
    <2>1. CASE f = v
      BY <1>1, <2>1
    <2>2. CASE f # v
      <3>1. PICK m \in DOMAIN ds : ds[m] = f
        BY <1>6, <1>7, <2>2
      <3>2. o[ds[m]] # NotScalar
        OBVIOUS
      <3> QED
        BY <1>1, <3>1, <3>2
    <2> QED
      BY <2>1, <2>2
  <1>11. rec \in Record
    <2>1. \A f \in fields : Name(f) \in Nat
      BY <1>1, <1>2
    <2> HIDE DEF Name
    <2>2. rec \in [fields -> [name : Nat, cell : Seq(Nat)]]
      BY <1>10, <2>1
    <2> HIDE DEF rec, fields
    <2> QED
      BY <1>1, <2>2 DEF Record
  <1> HIDE DEF rec, names
  <1>12. /\ DimPlaces(names) = N /\ \A f \in N : names[f] = f
         /\ \A f \in fields : names[f] = ValueColumn <=> f = v
    <2>1. \A f \in N : f # v /\ f # ValueColumn /\ f \in fields
      BY <1>2, <1>7
    <2>2. \A f \in N : names[f] = f
      BY <1>8, <2>1
    <2>3. \A f \in fields : names[f] = ValueColumn <=> f = v
      BY <1>7, <1>8, <2>1
    <2> HIDE DEF fields
    <2> QED
      BY <1>7, <1>8, <2>1, <2>2, <2>3 DEF DimPlaces
  <1>13. Orderly(names, N)
    BY <1>2, <1>12 DEF Orderly
  <1>14. Sorts(names, N, ds)
    <2>1. InOrder(id, N) = InOrder(names, N)
      <3>1. \A x \in N : id[x] = names[x]
        BY <1>12
      <3> HIDE DEF id
      <3> QED
        BY <3>1, SameOrder
    <2> HIDE DEF id
    <2> QED
      BY <1>3, <1>13, <2>1, InOrderSorts
  <1>15. Meaning(rec).dims = CellsIn(rec, ds) /\ Meaning(rec).val = ValueIn(rec)
    <2>1. Orderly(names, DimPlaces(names)) /\ Sorts(names, DimPlaces(names), ds)
      BY <1>12, <1>13, <1>14
    <2> QED
      BY <1>9, <2>1, MeaningIs
  <1>16. Meaning(rec).dims = Picked(o, ds)
    <2>1. \A m \in DOMAIN ds : ds[m] \in fields
      BY <1>6, <1>7
    <2> HIDE DEF fields
    <2> QED
      BY <1>8, <1>15, <2>1 DEF CellsIn, Picked
  <1>17. Meaning(rec).val = o[v] /\ o[v] \in Seq(Nat)
    <2> DEFINE c == CHOOSE i \in DOMAIN rec : rec[i].name = ValueColumn
    <2>1. v \in fields /\ \A f \in fields : rec[f].name = ValueColumn <=> f = v
      BY <1>7, <1>8, <1>12
    <2> HIDE DEF fields, Name
    <2>2. c \in fields /\ rec[c].name = ValueColumn
      BY <1>8, <2>1
    <2>3. ValueIn(rec) = rec[c].cell
      BY DEF ValueIn
    <2> HIDE DEF c
    <2>4. c = v
      BY <2>1, <2>2
    <2> QED
      BY <1>8, <1>10, <1>15, <2>1, <2>3, <2>4
  <1>18. Plain(Picked(o, ds)) /\ Len(Picked(o, ds)) = Len(ds)
    <2>1. \A x \in N : o[x] \in Seq(Nat)
      BY <1>7, <1>10
    <2>2. \A m \in DOMAIN ds : ~HasNul(o[ds[m]])
      OBVIOUS
    <2> QED
      BY <1>6, <2>1, <2>2, PlainCells
  <1>19. Regular(rec, Len(ds))
    BY <1>11, <1>16, <1>17, <1>18 DEF Regular
  <1> QED
    BY <1>16, <1>17, <1>19 DEF rec, RecordFrom

----------------------------------------------------------------------------
\* The steps.

LEMMA KeyIsText ==
    ASSUME NEW cells, Plain(cells)
    PROVE  KeyOf(cells) \in Seq(Nat)
  <1>1. cells \in Seq(Seq(Nat)) /\ Len(cells) \in Nat
    BY DEF Plain
  <1>2. PICK g : KeysUpTo(cells, g)
    BY <1>1, KeyIs
  <1> QED
    BY <1>1, <1>2 DEF KeysUpTo

\* A record noted, and stored unless there was a violation.
LEMMA NewRecord ==
    ASSUME RecordsInv, StoredInv, line \in Nat, line' = line + 1,
           NEW rec, Regular(rec, Len(dims')), dims' = dims \/ recs = <<>>,
           SinkAdd(KeyOf(Meaning(rec).dims), Meaning(rec).val), Note(rec)
    PROVE  RecordsInv' /\ StoredInv'
  <1> DEFINE n == Len(recs)
             k == Len(stored)
             r == [line |-> line + 1, rec |-> rec]
             key == KeyOf(Meaning(rec).dims)
             val == Meaning(rec).val
             RecSet == [line : Nat, rec : Record]
             RowSet == [key : Seq(Nat), val : Seq(Nat), line : Nat]
             row == [key |-> key, val |-> val, line |-> line + 1]
  <1>1. r \in RecSet /\ rec \in Record /\ key \in Seq(Nat) /\ val \in Seq(Nat) /\ row \in RowSet
    BY KeyIsText DEF Regular
  <1>2. /\ recs \in Seq(RecSet) /\ n \in Nat /\ DOMAIN recs = 1 .. n
        /\ stored \in Seq(RowSet) /\ k \in Nat /\ k <= n
    BY DEF RecordsInv, StoredInv
  <1>3. /\ recs' \in Seq(RecSet) /\ Len(recs') = n + 1 /\ DOMAIN recs' = 1 .. n + 1
        /\ recs'[n + 1] = r /\ \A i \in 1 .. n : recs'[i] = recs[i]
    <2>1. recs' = Append(recs, r)
      BY DEF Note
    <2> HIDE DEF r, RecSet
    <2>2. /\ recs' \in Seq(RecSet) /\ Len(recs') = n + 1
          /\ recs'[n + 1] = r /\ \A i \in 1 .. n : recs'[i] = recs[i]
      BY <1>1, <1>2, <2>1, AppendProperties
    <2> QED
      BY <1>2, <2>2
  <1> HIDE DEF RecSet
  <1>4. \A i \in 1 .. n : /\ recs[i].line \in 1 .. line /\ Regular(recs[i].rec, Len(dims))
                          /\ \A j \in 1 .. n : i < j => recs[i].line < recs[j].line
    BY <1>2 DEF RecordsInv
  <1>5. RecordsInv'
    <2>1. ASSUME NEW i \in 1 .. n + 1
          PROVE  Regular(recs'[i].rec, Len(dims')) /\ recs'[i].line \in 1 .. line'
      <3>1. CASE i \in 1 .. n
        <4>1. Len(dims') = Len(dims)
          <5>1. recs # <<>>
            BY <1>2, <3>1
          <5> QED
            BY <5>1
        <4> QED
          BY <1>3, <1>4, <3>1, <4>1
      <3>2. CASE i = n + 1
        BY <1>3, <3>2
      <3> QED
        BY <1>2, <3>1, <3>2
    <2>2. ASSUME NEW i \in 1 .. n + 1, NEW j \in 1 .. n + 1, i < j
          PROVE  recs'[i].line < recs'[j].line
      <3>1. i \in 1 .. n
        BY <1>2, <2>2
      <3>2. CASE j \in 1 .. n
        BY <1>3, <1>4, <2>2, <3>1, <3>2
      <3>3. CASE j = n + 1
        <4>1. recs'[j].line = line + 1 /\ recs'[i].line = recs[i].line
              /\ recs[i].line \in Nat /\ recs[i].line <= line
          BY <1>3, <1>4, <3>1, <3>3
        <4> QED
          BY <4>1
      <3> QED
        BY <1>2, <3>2, <3>3
    <2> QED
      BY <1>3, <2>1, <2>2 DEF RecordsInv, RecSet
  <1>6. /\ limitErr \in 0 .. line
        /\ \A i \in 1 .. k : stored[i] = RowOf(recs[i]) /\ Keeps(recs[i].rec)
        /\ limitErr = 0 => k = n
        /\ limitErr # 0 => k + 1 <= n /\ recs[k + 1].line = limitErr /\ ~Keeps(recs[k + 1].rec)
    BY DEF StoredInv
  <1>7. \A i \in 1 .. k : i \in 1 .. n
    BY <1>2
  <1>8. Keeps(rec) <=> ~TooLong(key, val)
    BY DEF Keeps
  <1>9. CASE Stopped
    <2>1. stored' = stored /\ limitErr' = limitErr /\ limitErr # 0
      BY <1>9 DEF SinkAdd, Stopped
    <2>2. k + 1 \in 1 .. n
      BY <1>2, <1>6, <2>1
    <2>3. recs'[k + 1] = recs[k + 1] /\ \A i \in 1 .. k : recs'[i] = recs[i]
      BY <1>3, <1>7, <2>2
    <2>4. stored' \in Seq(RowSet) /\ limitErr' \in 0 .. line' /\ Len(stored') <= Len(recs')
      BY <1>2, <1>3, <1>6, <2>1
    <2>5. \A i \in 1 .. Len(stored') : stored'[i] = RowOf(recs'[i]) /\ Keeps(recs'[i].rec)
      BY <1>6, <2>1, <2>3
    <2>6. limitErr' # 0
      BY <2>1
    <2>7. /\ Len(stored') + 1 <= Len(recs') /\ recs'[Len(stored') + 1].line = limitErr'
          /\ ~Keeps(recs'[Len(stored') + 1].rec)
      BY <1>2, <1>3, <1>6, <2>1, <2>2, <2>3
    <2> QED
      BY <1>5, <2>4, <2>5, <2>6, <2>7 DEF StoredInv, RowSet
  <1>10. CASE ~Stopped /\ TooLong(key, val)
    <2>1. stored' = stored /\ limitErr' = line + 1 /\ limitErr = 0
      BY <1>10 DEF SinkAdd, Stopped
    <2>2. k = n /\ recs'[k + 1] = r /\ ~Keeps(rec)
      BY <1>3, <1>6, <1>8, <1>10, <2>1
    <2>3. \A i \in 1 .. k : recs'[i] = recs[i]
      BY <1>3, <1>7
    <2>4. stored' \in Seq(RowSet) /\ limitErr' \in 0 .. line' /\ Len(stored') <= Len(recs')
      BY <1>2, <1>3, <2>1
    <2>5. \A i \in 1 .. Len(stored') : stored'[i] = RowOf(recs'[i]) /\ Keeps(recs'[i].rec)
      BY <1>6, <2>1, <2>3
    <2>6. limitErr' # 0
      BY <2>1
    <2>7. /\ Len(stored') + 1 <= Len(recs') /\ recs'[Len(stored') + 1].line = limitErr'
          /\ ~Keeps(recs'[Len(stored') + 1].rec)
      BY <1>2, <1>3, <2>1, <2>2
    <2> QED
      BY <1>5, <2>4, <2>5, <2>6, <2>7 DEF StoredInv, RowSet
  <1>11. CASE ~Stopped /\ ~TooLong(key, val)
    <2>1. stored' = Append(stored, row) /\ limitErr' = limitErr /\ limitErr = 0
      BY <1>11 DEF SinkAdd, Stopped
    <2>2. k = n /\ Keeps(rec)
      BY <1>6, <1>8, <1>11, <2>1
    <2>3. /\ stored' \in Seq(RowSet) /\ Len(stored') = k + 1 /\ stored'[k + 1] = row
          /\ \A i \in 1 .. k : stored'[i] = stored[i]
      <3> HIDE DEF row, RowSet
      <3> QED
        BY <1>1, <1>2, <2>1, AppendProperties
    <2>4. row = RowOf(r)
      BY DEF RowOf
    <2>5. ASSUME NEW i \in 1 .. k + 1
          PROVE  stored'[i] = RowOf(recs'[i]) /\ Keeps(recs'[i].rec)
      <3>1. CASE i \in 1 .. k
        BY <1>3, <1>6, <1>7, <2>3, <3>1
      <3>2. CASE i = k + 1
        BY <1>3, <2>2, <2>3, <2>4, <3>2
      <3> QED
        BY <1>2, <3>1, <3>2
    <2>6. stored' \in Seq(RowSet) /\ limitErr' \in 0 .. line' /\ Len(stored') <= Len(recs')
      BY <1>2, <1>3, <2>1, <2>2, <2>3
    <2>7. \A i \in 1 .. Len(stored') : stored'[i] = RowOf(recs'[i]) /\ Keeps(recs'[i].rec)
      BY <2>3, <2>5
    <2>8. limitErr' = 0 /\ Len(stored') = Len(recs')
      BY <1>3, <2>1, <2>2, <2>3
    <2> QED
      BY <1>5, <2>6, <2>7, <2>8 DEF StoredInv, RowSet
  <1> QED
    BY <1>5, <1>9, <1>10, <1>11

LEMMA SameRecords ==
    ASSUME RecordsInv, StoredInv, line \in Nat, line' \in Nat, line <= line',
           UNCHANGED <<recs, stored, limitErr>>, dims' = dims \/ recs = <<>>
    PROVE  RecordsInv' /\ StoredInv'
  <1>1. RecordsInv'
    <2>1. recs # <<>> => dims' = dims
      OBVIOUS
    <2>2. \A i \in DOMAIN recs : recs # <<>>
      BY DEF RecordsInv
    <2>3. \A i \in DOMAIN recs : recs[i].line \in 1 .. line'
      BY DEF RecordsInv
    <2> QED
      BY <2>1, <2>2, <2>3 DEF RecordsInv
  <1>2. StoredInv'
    BY DEF StoredInv
  <1> QED
    BY <1>1, <1>2

LEMMA SourceStart == SourceInit => SourceInv
  <1> SUFFICES ASSUME SourceInit PROVE SourceInv
    OBVIOUS
  <1>1. ReadInv /\ Reading
    <2>1. line = 0 /\ ~(line >= 1) /\ 0 \in 0 .. MaxLines + 1
      BY LimitsOfRows DEF SourceInit
    <2> QED
      BY <2>1 DEF SourceInit, ReadInv, Reading
  <1>2. recs = <<>> /\ stored = <<>> /\ limitErr = 0 /\ line = 0
    BY DEF SourceInit
  <1>3. RecordsInv /\ StoredInv
    BY <1>2 DEF RecordsInv, StoredInv
  <1> QED
    BY <1>1, <1>3 DEF SourceInv, ResultInv

LEMMA ReadHeaderInv ==
    ASSUME SourceInv, NEW h \in Headers, ReadHeader(h)
    PROVE  SourceInv'
  <1>1. /\ Reading /\ format = "csv" /\ line = 0 /\ line' = 1 /\ header' = h
        /\ UNCHANGED <<format, legacy, stored, limitErr, recs>>
        /\ ReadInv /\ RecordsInv /\ StoredInv
    BY DEF ReadHeader, SourceInv
  <1>2. recs = <<>> /\ legacy \in BOOLEAN
    BY <1>1 DEF ReadInv
  <1>3. RecordsInv' /\ StoredInv'
    BY <1>1, <1>2, SameRecords
  <1>4. line' \in 0 .. MaxLines + 1
    BY <1>1, LimitsOfRows
  <1>5. CASE \E e \in Ends : Failed(e) /\ UNCHANGED dims
    <2>1. ~Reading' /\ result'.kind \in Ends
      BY <1>5 DEF Failed, Reading, Ends
    <2>2. ReadInv'
      BY <1>1, <1>2, <1>4, <2>1 DEF ReadInv
    <2> QED
      BY <1>3, <2>1, <2>2 DEF SourceInv, ResultInv
  <1>6. CASE /\ ~(Cardinality(ValuePositions(h)) > 1) /\ ValuePositions(h) # {}
             /\ dims' = SortedDims(h) /\ UNCHANGED result
    <2>1. \E i : ValuePositions(h) = {i}
      <3> DEFINE V == ValuePositions(h)
      <3>1. h \in Seq(Nat) /\ Len(h) \in Nat
        BY RecordsAssumption
      <3>2. V \in SUBSET (1 .. Len(h)) /\ IsFiniteSet(1 .. Len(h))
        BY <3>1, FirstNumbers DEF ValuePositions
      <3>3. IsFiniteSet(V) /\ Cardinality(V) \in Nat
        BY <3>2, FS_Subset, FS_CardinalityType
      <3>4. Cardinality(V) # 0
        BY <1>6, <3>3, FS_EmptySet
      <3>5. Cardinality(V) = 1
        BY <1>6, <3>3, <3>4
      <3> HIDE DEF V
      <3>6. \E i : V = {i}
        BY <3>3, <3>5, FS_Singleton
      <3> QED
        BY <3>6 DEF V
    <2>2. Reading' /\ result' = result
      BY <1>1, <1>6 DEF Reading
    <2>3. ReadInv'
      BY <1>1, <1>2, <1>4, <1>6, <2>1 DEF ReadInv
    <2> QED
      BY <1>3, <2>2, <2>3 DEF SourceInv, ResultInv
  <1> QED
    BY <1>5, <1>6 DEF ReadHeader, Ends

LEMMA ReadRecordInv ==
    ASSUME SourceInv, NEW cells \in Records, ReadRecord(cells)
    PROVE  SourceInv'
  <1>1. /\ Reading /\ format = "csv" /\ line >= 1 /\ MoreLines /\ Len(cells) = Len(header)
        /\ line' = line + 1 /\ UNCHANGED <<format, header, dims, legacy>>
        /\ ReadInv /\ RecordsInv /\ StoredInv
    BY DEF ReadRecord, SourceInv
  <1>2. /\ line \in Nat /\ line' \in 0 .. MaxLines + 1 /\ line' # 0
        /\ header \in Headers /\ dims = SortedDims(header) /\ \E v : ValuePositions(header) = {v}
    <2>1. line \in 0 .. MaxLines + 1
      BY <1>1 DEF ReadInv
    <2>2. line < MaxLines + 1
      BY <1>1 DEF MoreLines
    <2>3. line \in Nat /\ line + 1 \in 0 .. MaxLines + 1 /\ line + 1 # 0
      BY <2>1, <2>2, LimitsOfRows
    <2>4. header \in Headers /\ dims = SortedDims(header) /\ \E v : ValuePositions(header) = {v}
      BY <1>1 DEF ReadInv
    <2> QED
      BY <1>1, <2>3, <2>4
  <1>3. ReadInv'
    BY <1>1, <1>2 DEF ReadInv
  <1>4. CASE \E i \in DOMAIN dims : HasNul(cells[dims[i]])
    <2>1. Failed("malformed") /\ UNCHANGED <<stored, limitErr, recs>>
      BY <1>4 DEF ReadRecord
    <2>2. result'.kind \in Ends
      BY <2>1 DEF Failed, Ends
    <2>3. line <= line' /\ line' \in Nat
      BY <1>1, <1>2
    <2>4. RecordsInv' /\ StoredInv'
      BY <1>1, <1>2, <2>1, <2>3, SameRecords
    <2> QED
      BY <1>3, <2>2, <2>4 DEF SourceInv, ResultInv
  <1>5. CASE \A i \in DOMAIN dims : ~HasNul(cells[dims[i]])
    <2> DEFINE rec == RecordOf(header, cells)
               key == KeyOf(Picked(cells, dims))
               val == cells[CHOOSE i \in ValuePositions(header) : TRUE]
    <2>1. SinkAdd(key, val) /\ Note(rec) /\ UNCHANGED result
      BY <1>5 DEF ReadRecord, RecordOf, Picked
    <2>2. PICK v : ValuePositions(header) = {v}
      BY <1>2
    <2>3. Regular(rec, Len(dims)) /\ key = KeyOf(Meaning(rec).dims) /\ val = Meaning(rec).val
      <3>1. (CHOOSE i \in {v} : TRUE) = v
        OBVIOUS
      <3>2. val = cells[v]
        BY <2>2, <3>1
      <3> HIDE DEF val
      <3>3. /\ Regular(rec, Len(dims))
            /\ Meaning(rec).dims = Picked(cells, dims) /\ Meaning(rec).val = cells[v]
        BY <1>1, <1>2, <1>5, <2>2, RecordOfCells
      <3> QED
        BY <3>2, <3>3
    <2> HIDE DEF rec, key, val
    <2>4. SinkAdd(KeyOf(Meaning(rec).dims), Meaning(rec).val) /\ Regular(rec, Len(dims'))
      BY <1>1, <2>1, <2>3
    <2>5. RecordsInv' /\ StoredInv'
      BY <1>1, <1>2, <2>1, <2>4, NewRecord
    <2>6. Reading'
      BY <1>1, <2>1 DEF Reading
    <2> QED
      BY <1>3, <2>5, <2>6 DEF SourceInv, ResultInv
  <1> QED
    BY <1>4, <1>5

LEMMA ReadObjectInv ==
    ASSUME SourceInv, NEW o \in Objects, ReadObject(o)
    PROVE  SourceInv'
  <1> DEFINE first == dims = <<>>
             ds == IF first THEN InOrder([f \in NamesOf(o) |-> f], NamesOf(o)) ELSE dims
             old == IF first THEN IsLegacy(o) ELSE legacy
             v == IF old THEN ValueField ELSE ValueColumn
             Bad == \/ ~SameFields(o, ds, old)
                    \/ \E i \in DOMAIN ds : o[ds[i]] = NotScalar \/ HasNul(o[ds[i]])
                    \/ o[v] = NotScalar
             Sound == /\ SinkAdd(KeyOf([i \in DOMAIN ds |-> o[ds[i]]]), o[v])
                      /\ Note([f \in DOMAIN o |-> [name |-> IF f = v THEN ValueColumn ELSE f,
                                                   cell |-> o[f]]])
                      /\ UNCHANGED result
  <1>1. /\ Reading /\ format = "ndjson" /\ MoreLines
        /\ line' = line + 1 /\ UNCHANGED <<format, header>>
        /\ ReadInv /\ RecordsInv /\ StoredInv
    BY DEF ReadObject, SourceInv
  <1>2. line \in Nat /\ line' \in 0 .. MaxLines + 1 /\ line' \in Nat /\ line <= line'
    <2>1. line \in 0 .. MaxLines + 1
      BY <1>1 DEF ReadInv
    <2>2. line < MaxLines
      BY <1>1, LimitsOfRows DEF MoreLines
    <2> QED
      BY <1>1, <2>1, <2>2, LimitsOfRows
  <1>3. \/ dims = <<>> /\ legacy = FALSE /\ recs = <<>>
        \/ dims # <<>> /\ \E p : FirstObject(p, dims, legacy)
    BY <1>1 DEF ReadInv
  <1>4. CASE \E e \in Ends : Failed(e) /\ UNCHANGED <<dims, legacy, stored, limitErr, recs>>
    <2>1. result'.kind \in Ends
      BY <1>4 DEF Failed
    <2>2. RecordsInv' /\ StoredInv'
      BY <1>1, <1>2, <1>4, SameRecords
    <2>3. ReadInv'
      BY <1>1, <1>2, <1>3, <1>4 DEF ReadInv
    <2> QED
      BY <2>1, <2>2, <2>3 DEF SourceInv, ResultInv
  <1>5. CASE /\ ~(first /\ ValueColumn \notin DOMAIN o /\ ~old)
             /\ ds # <<>> /\ dims' = ds /\ legacy' = old
             /\ IF Bad THEN Failed("malformed") /\ UNCHANGED <<stored, limitErr, recs>> ELSE Sound
    <2>1. PICK p : FirstObject(p, ds, old)
      <3>1. CASE first
        <4>1. FirstObject(o, ds, old)
          BY <1>5, <3>1 DEF FirstObject
        <4> QED
          BY <4>1
      <3>2. CASE ~first
        BY <1>3, <3>2
      <3> QED
        BY <3>1, <3>2
    <2>2. old \in BOOLEAN
      BY <1>1 DEF IsLegacy, ReadInv
    <2>3. dims' = dims \/ recs = <<>>
      BY <1>3, <1>5
    <2> HIDE DEF ds, old
    <2>4. ReadInv'
      <3>1. dims' # <<>> /\ FirstObject(p, dims', legacy')
        BY <1>5, <2>1
      <3> QED
        BY <1>1, <1>2, <1>5, <2>2, <3>1 DEF ReadInv
    <2>5. CASE Bad
      <3>1. Failed("malformed") /\ UNCHANGED <<stored, limitErr, recs>>
        BY <1>5, <2>5
      <3>2. result'.kind \in Ends
        BY <3>1 DEF Failed, Ends
      <3>3. RecordsInv' /\ StoredInv'
        BY <1>1, <1>2, <2>3, <3>1, SameRecords
      <3> QED
        BY <2>4, <3>2, <3>3 DEF SourceInv, ResultInv
    <2>6. CASE ~Bad
      <3> DEFINE rec == RecordFrom(o, v)
                 key == KeyOf(Picked(o, ds))
                 val == o[v]
      <3>1. Sound
        BY <1>5, <2>6
      <3>2. SinkAdd(key, val) /\ Note(rec) /\ UNCHANGED result
        BY <3>1 DEF RecordFrom, Picked
      <3>3. Regular(rec, Len(ds)) /\ Meaning(rec).dims = Picked(o, ds) /\ Meaning(rec).val = val
        <4> HIDE DEF Sound
        <4>1. /\ SameFields(o, ds, old) /\ o[v] # NotScalar
              /\ \A i \in DOMAIN ds : o[ds[i]] # NotScalar /\ ~HasNul(o[ds[i]])
          BY <2>6
        <4> DEFINE w == v
        <4>2. w = IF old THEN ValueField ELSE ValueColumn
          OBVIOUS
        <4> HIDE DEF v, Bad
        <4> QED
          BY <2>1, <4>1, <4>2, RecordOfObject
      <3> HIDE DEF rec, val, Sound, Bad
      <3>4. SinkAdd(KeyOf(Meaning(rec).dims), Meaning(rec).val) /\ Regular(rec, Len(dims'))
        BY <1>5, <3>2, <3>3
      <3>5. RecordsInv' /\ StoredInv'
        BY <1>1, <1>2, <2>3, <3>2, <3>4, NewRecord
      <3>6. Reading'
        BY <1>1, <3>2 DEF Reading
      <3> QED
        BY <2>4, <3>5, <3>6 DEF SourceInv, ResultInv
    <2> QED
      BY <2>5, <2>6
  <1>6. \/ \E e \in Ends : Failed(e) /\ UNCHANGED <<dims, legacy, stored, limitErr, recs>>
        \/ /\ ~(first /\ ValueColumn \notin DOMAIN o /\ ~old)
           /\ ds # <<>> /\ dims' = ds /\ legacy' = old
           /\ IF Bad THEN Failed("malformed") /\ UNCHANGED <<stored, limitErr, recs>> ELSE Sound
    BY DEF ReadObject, Ends
  <1> QED
    BY <1>4, <1>5, <1>6

\* A line that is no record, and the ends.
LEMMA OtherStepsInv ==
    ASSUME SourceInv, BlankLine \/ BadLine \/ SourceCancelled \/ EndOfSource
    PROVE  SourceInv'
  <1>1. /\ Reading /\ ReadInv /\ RecordsInv /\ StoredInv
        /\ UNCHANGED <<format, header, dims, legacy, stored, limitErr, recs>>
    BY DEF SourceInv, BlankLine, BadLine, SourceCancelled, EndOfSource
  <1>2. line \in 0 .. MaxLines + 1
    BY <1>1 DEF ReadInv
  <1>3. line' \in 0 .. MaxLines + 1 /\ line <= line' /\ line \in Nat /\ line' \in Nat
    <2>1. CASE BlankLine \/ BadLine
      <3>1. line' = line + 1 /\ MoreLines
        BY <2>1 DEF BlankLine, BadLine
      <3>2. line < MaxLines + 1
        BY <1>2, <3>1, LimitsOfRows DEF MoreLines
      <3> QED
        BY <1>2, <3>1, <3>2, LimitsOfRows
    <2>2. CASE SourceCancelled \/ EndOfSource
      BY <1>2, <2>2, LimitsOfRows DEF SourceCancelled, EndOfSource
    <2> QED
      BY <2>1, <2>2
  <1>4. RecordsInv' /\ StoredInv'
    BY <1>1, <1>3, SameRecords
  <1>5. Duplicates' = Duplicates /\ (Duplicates # {} => FirstDuplicate' = FirstDuplicate)
    BY <1>1 DEF Duplicates, FirstDuplicate
  <1>6. CASE BlankLine
    <2>1. Reading' /\ format = "ndjson"
      BY <1>1, <1>6 DEF BlankLine, Reading
    <2>2. ReadInv'
      BY <1>1, <1>3, <2>1 DEF ReadInv
    <2> QED
      BY <1>4, <2>1, <2>2 DEF SourceInv, ResultInv
  <1>7. CASE BadLine \/ SourceCancelled
    <2>1. result'.kind \in Ends
      BY <1>7 DEF BadLine, SourceCancelled, Failed, Ends
    <2>2. ~Reading'
      BY <2>1 DEF Reading, Ends
    <2>3. line' = 0 => line = 0
      BY <1>3
    <2>4. ReadInv'
      BY <1>1, <1>3, <2>2, <2>3 DEF ReadInv
    <2> QED
      BY <1>4, <2>1, <2>4 DEF SourceInv, ResultInv
  <1>8. CASE EndOfSource
    <2>1. /\ result' = IF limitErr = 0 THEN [kind |-> "ok", line |-> 0]
                       ELSE IF Duplicates # {} /\ FirstDuplicate < limitErr
                       THEN [kind |-> "duplicate", line |-> FirstDuplicate]
                       ELSE [kind |-> "limit", line |-> limitErr]
          /\ line' = line
      BY <1>8 DEF EndOfSource
    <2>2. ~Reading'
      BY <2>1 DEF Reading
    <2>3. ReadInv'
      BY <1>1, <2>1, <2>2 DEF ReadInv
    <2>4. ResultInv'
      <3>1. CASE limitErr = 0
        BY <1>1, <2>1, <3>1 DEF ResultInv
      <3>2. CASE limitErr # 0 /\ Duplicates # {} /\ FirstDuplicate < limitErr
        BY <1>1, <1>5, <2>1, <3>2 DEF ResultInv
      <3>3. CASE limitErr # 0 /\ ~(Duplicates # {} /\ FirstDuplicate < limitErr)
        BY <1>1, <1>5, <2>1, <3>3 DEF ResultInv
      <3> QED
        BY <3>1, <3>2, <3>3
    <2> QED
      BY <1>4, <2>3, <2>4 DEF SourceInv
  <1> QED
    BY <1>6, <1>7, <1>8

LEMMA SourceStep == SourceInv /\ [SourceNext]_sourceVars => SourceInv'
  <1> SUFFICES ASSUME SourceInv, [SourceNext]_sourceVars PROVE SourceInv'
    OBVIOUS
  <1>1. CASE \E h \in Headers : ReadHeader(h)
    BY <1>1, ReadHeaderInv
  <1>2. CASE \E cells \in Records : ReadRecord(cells)
    BY <1>2, ReadRecordInv
  <1>3. CASE \E o \in Objects : ReadObject(o)
    BY <1>3, ReadObjectInv
  <1>4. CASE BlankLine \/ BadLine \/ SourceCancelled \/ EndOfSource
    BY <1>4, OtherStepsInv
  <1>5. CASE UNCHANGED sourceVars
    <2>1. UNCHANGED <<format, line, header, dims, legacy, stored, limitErr, recs, result>>
      BY <1>5 DEF sourceVars
    <2>2. ReadInv' /\ RecordsInv' /\ StoredInv'
      BY <2>1 DEF SourceInv, ReadInv, RecordsInv, StoredInv, Reading
    <2>3. ResultInv'
      BY <2>1 DEF SourceInv, ResultInv, Reading, Duplicates, FirstDuplicate
    <2> QED
      BY <2>2, <2>3 DEF SourceInv
  <1> QED
    BY <1>1, <1>2, <1>3, <1>4, <1>5 DEF SourceNext

----------------------------------------------------------------------------
\* The properties.

\* What is stored of a record.
LEMMA StoredIs ==
    ASSUME SourceInv
    PROVE  /\ Len(stored) \in Nat /\ DOMAIN stored = 1 .. Len(stored)
           /\ Len(recs) \in Nat /\ DOMAIN recs = 1 .. Len(recs) /\ Len(stored) <= Len(recs)
           /\ \A i \in 1 .. Len(stored) :
                 /\ i \in 1 .. Len(recs) /\ stored[i] \in [key : Seq(Nat), val : Seq(Nat), line : Nat]
                 /\ stored[i].key = KeyOf(Meaning(recs[i].rec).dims)
                 /\ stored[i].val = Meaning(recs[i].rec).val /\ stored[i].line = recs[i].line
                 /\ Keeps(recs[i].rec)
           /\ \A i \in 1 .. Len(recs) :
                 recs[i].line \in 1 .. line /\ recs[i].line \in Nat
                 /\ Regular(recs[i].rec, Len(dims))
           /\ \A i, j \in 1 .. Len(recs) : i < j => recs[i].line < recs[j].line
  <1>1. RecordsInv /\ StoredInv
    BY DEF SourceInv
  <1>2. /\ recs \in Seq([line : Nat, rec : Record])
        /\ stored \in Seq([key : Seq(Nat), val : Seq(Nat), line : Nat])
        /\ Len(stored) <= Len(recs)
    BY <1>1 DEF RecordsInv, StoredInv
  <1>3. /\ Len(stored) \in Nat /\ DOMAIN stored = 1 .. Len(stored)
        /\ Len(recs) \in Nat /\ DOMAIN recs = 1 .. Len(recs)
        /\ \A i \in 1 .. Len(stored) : stored[i] \in [key : Seq(Nat), val : Seq(Nat), line : Nat]
    <2> DEFINE RowSet == [key : Seq(Nat), val : Seq(Nat), line : Nat]
               RecSet == [line : Nat, rec : Record]
    <2>1. stored \in Seq(RowSet) /\ recs \in Seq(RecSet)
      BY <1>2
    <2> HIDE DEF RowSet, RecSet
    <2>2. /\ Len(stored) \in Nat /\ DOMAIN stored = 1 .. Len(stored)
          /\ \A i \in 1 .. Len(stored) : stored[i] \in RowSet
      BY <2>1
    <2>3. Len(recs) \in Nat /\ DOMAIN recs = 1 .. Len(recs)
      BY <2>1
    <2> QED
      BY <2>2, <2>3 DEF RowSet
  <1>4. /\ \A i \in 1 .. Len(recs) :
              recs[i].line \in 1 .. line /\ Regular(recs[i].rec, Len(dims))
        /\ \A i, j \in 1 .. Len(recs) : i < j => recs[i].line < recs[j].line
    BY <1>1, <1>3 DEF RecordsInv
  <1>5. ASSUME NEW i \in 1 .. Len(stored)
        PROVE  /\ i \in 1 .. Len(recs)
               /\ stored[i].key = KeyOf(Meaning(recs[i].rec).dims)
               /\ stored[i].val = Meaning(recs[i].rec).val /\ stored[i].line = recs[i].line
               /\ Keeps(recs[i].rec)
    <2>1. stored[i] = RowOf(recs[i]) /\ Keeps(recs[i].rec)
      BY <1>1 DEF StoredInv
    <2> QED
      BY <1>2, <1>3, <2>1 DEF RowOf
  <1>6. \A i \in 1 .. Len(recs) : recs[i].line \in Nat
    BY <1>4
  <1> QED
    BY <1>2, <1>3, <1>4, <1>5, <1>6

\* Two records of one key have the same dimensions.
LEMMA OneKey ==
    ASSUME SourceInv, NEW i \in 1 .. Len(recs), NEW j \in 1 .. Len(recs)
    PROVE  KeyOf(Meaning(recs[i].rec).dims) = KeyOf(Meaning(recs[j].rec).dims)
               <=> Meaning(recs[i].rec).dims = Meaning(recs[j].rec).dims
  <1> DEFINE p == Meaning(recs[i].rec).dims
             q == Meaning(recs[j].rec).dims
  <1>1. Plain(p) /\ Plain(q) /\ Len(p) = Len(q)
    BY StoredIs DEF Regular
  <1> HIDE DEF p, q
  <1>2. KeyOf(p) = KeyOf(q) => p = q
    BY <1>1, KeyTellsCells
  <1> QED
    BY <1>2 DEF p, q

LEMMA SourceInvSound == SourceInv => RowsSound
  <1> SUFFICES ASSUME SourceInv PROVE RowsSound
    OBVIOUS
  <1>1. ReadInv /\ StoredInv /\ ResultInv
    BY DEF SourceInv
  <1>2. RowsFaithful
    <2>1. limitErr = 0 => Len(stored) = Len(recs)
      BY <1>1 DEF StoredInv
    <2> QED
      BY <2>1, StoredIs DEF RowsFaithful
  <1>3. KeysInjective
    <2> SUFFICES ASSUME NEW i \in 1 .. Len(stored), NEW j \in 1 .. Len(stored),
                        stored[i].key = stored[j].key
                 PROVE  Meaning(recs[i].rec).dims = Meaning(recs[j].rec).dims
      BY StoredIs DEF KeysInjective
    <2> QED
      BY StoredIs, OneKey
  <1>4. SourceTypeOK
    <2>1. ASSUME NEW i \in 1 .. Len(stored)
          PROVE  /\ Len(stored[i].key) <= MaxKeyLen /\ Len(stored[i].val) <= MaxValueLen
                 /\ stored[i].line \in 1 .. line
      <3>1. ~TooLong(stored[i].key, stored[i].val)
        BY StoredIs DEF Keeps
      <3>2. stored[i].key \in Seq(Nat) /\ stored[i].val \in Seq(Nat)
        BY StoredIs
      <3>3. Len(stored[i].key) \in Nat /\ Len(stored[i].val) \in Nat
        BY <3>2
      <3>4. Len(stored[i].key) <= MaxKeyLen /\ Len(stored[i].val) <= MaxValueLen
        BY <3>1, <3>3, LimitsOfRows DEF TooLong
      <3>5. stored[i].line \in 1 .. line
        BY StoredIs
      <3> QED
        BY <3>4, <3>5
    <2>2. result.kind \in {"reading", "ok", "malformed", "novalue", "nodims", "limit", "duplicate", "cancelled"}
      BY <1>1 DEF ResultInv, Reading, Ends
    <2>3. /\ format \in {"csv", "ndjson"} /\ line \in 0 .. MaxLines + 1 /\ legacy \in BOOLEAN
          /\ limitErr \in 0 .. line
      BY <1>1 DEF ReadInv, StoredInv
    <2> QED
      BY <2>1, <2>2, <2>3, StoredIs DEF SourceTypeOK
  <1> QED
    BY <1>2, <1>3, <1>4 DEF RowsSound

\* The first row with the key of an earlier one.
LEMMA FirstDuplicateIs ==
    ASSUME SourceInv, Duplicates # {}
    PROVE  \E d \in 1 .. Len(stored) :
               /\ FirstDuplicate = stored[d].line /\ d \in Duplicates
               /\ \A k \in Duplicates : d <= k
  <1>1. Duplicates \in SUBSET Nat
    BY StoredIs DEF Duplicates
  <1>2. \E d \in Duplicates : \A k \in Duplicates : d <= k
    BY <1>1, LeastNatural
  <1> DEFINE d == CHOOSE j \in Duplicates : \A k \in Duplicates : j <= k
  <1>3. d \in Duplicates /\ \A k \in Duplicates : d <= k
    BY <1>2
  <1>4. FirstDuplicate = stored[d].line
    BY DEF FirstDuplicate
  <1> HIDE DEF d
  <1>5. d \in 1 .. Len(stored)
    BY <1>3, StoredIs DEF Duplicates
  <1> QED
    BY <1>3, <1>4, <1>5

LEMMA SourceInvEarliest == SourceInv => EarliestReported
  <1> SUFFICES ASSUME SourceInv PROVE EarliestReported
    OBVIOUS
  <1> DEFINE before == {i \in DOMAIN recs : recs[i].line < result.line}
             sameKey(i, j) == Meaning(recs[i].rec).dims = Meaning(recs[j].rec).dims
             k == Len(stored)
             Earliest == /\ \A i \in before : Keeps(recs[i].rec)
                         /\ \A i, j \in before : sameKey(i, j) => i = j
                         /\ \E i \in DOMAIN recs :
                               /\ recs[i].line = result.line
                               /\ IF result.kind = "limit" THEN ~Keeps(recs[i].rec)
                                  ELSE \E j \in before : sameKey(i, j)
  <1>1. StoredInv /\ ResultInv
    BY DEF SourceInv
  <1>2. limitErr # 0 => /\ k + 1 \in 1 .. Len(recs) /\ recs[k + 1].line = limitErr
                        /\ ~Keeps(recs[k + 1].rec)
    <2>1. limitErr # 0 => /\ k + 1 <= Len(recs) /\ recs[k + 1].line = limitErr
                          /\ ~Keeps(recs[k + 1].rec)
      BY <1>1 DEF StoredInv
    <2>2. k \in Nat /\ Len(recs) \in Nat
      BY StoredIs
    <2> HIDE DEF k
    <2>3. k + 1 <= Len(recs) => k + 1 \in 1 .. Len(recs)
      BY <2>2
    <2> QED
      BY <2>1, <2>3
  <1>3. \A i, j \in 1 .. Len(recs) : recs[i].line < recs[j].line <=> i < j
    <2> TAKE i, j \in 1 .. Len(recs)
    <2>1. recs[i].line \in Nat /\ recs[j].line \in Nat /\ i \in Nat /\ j \in Nat
      BY StoredIs
    <2>2. (i < j => recs[i].line < recs[j].line) /\ (j < i => recs[j].line < recs[i].line)
      BY StoredIs
    <2>3. i = j => recs[i].line = recs[j].line
      OBVIOUS
    <2> QED
      BY <2>1, <2>2, <2>3
  <1>4. \A i, j \in 1 .. k : sameKey(i, j) => stored[i].key = stored[j].key
    BY StoredIs
  <1>5. ASSUME NEW m \in 1 .. k + 1, m \in 1 .. Len(recs), result.line = recs[m].line,
               \A j \in Duplicates : m <= j
        PROVE  /\ \A i : i \in before <=> i \in 1 .. m - 1
               /\ \A i \in before : i \in 1 .. k /\ Keeps(recs[i].rec)
               /\ \A i, j \in before : sameKey(i, j) => i = j
    <2>1. \A i : i \in before <=> i \in 1 .. m - 1
      BY <1>3, <1>5, StoredIs
    <2> HIDE DEF before
    <2>2. \A i \in before : i \in 1 .. k /\ Keeps(recs[i].rec)
      BY <2>1, StoredIs
    <2>3. ASSUME NEW i \in before, NEW j \in before, sameKey(i, j), i < j PROVE FALSE
      <3>1. i \in 1 .. k /\ j \in 1 .. k /\ j \in 1 .. m - 1 /\ i \in 1 .. j - 1
        BY <2>1, <2>2, <2>3
      <3>2. stored[i].key = stored[j].key
        BY <1>4, <2>3, <3>1
      <3>3. j \in Duplicates
        BY <3>1, <3>2, StoredIs DEF Duplicates
      <3> QED
        BY <1>5, <3>1, <3>3
    <2>4. ASSUME NEW i \in before, NEW j \in before, sameKey(i, j) PROVE i = j
      <3>1. i \in Nat /\ j \in Nat /\ sameKey(j, i)
        BY <2>1, <2>4
      <3>2. ~(i < j) /\ ~(j < i)
        BY <2>3, <2>4, <3>1
      <3> QED
        BY <3>1, <3>2
    <2> QED
      BY <2>1, <2>2, <2>4
  <1>6. ASSUME result.kind = "limit" PROVE Earliest
    <2>1. /\ limitErr # 0 /\ result.line = limitErr
          /\ ~(Duplicates # {} /\ FirstDuplicate < limitErr)
      BY <1>1, <1>6 DEF ResultInv, Reading, Ends
    <2>2. Duplicates = {}
      <3> SUFFICES ASSUME Duplicates # {} PROVE FALSE
        OBVIOUS
      <3>1. PICK d \in 1 .. k : FirstDuplicate = stored[d].line
        BY FirstDuplicateIs
      <3>2. d \in 1 .. Len(recs) /\ d < k + 1 /\ stored[d].line = recs[d].line
        BY <3>1, StoredIs
      <3> QED
        BY <1>2, <1>3, <2>1, <3>1, <3>2
    <2>3. k + 1 \in 1 .. k + 1 /\ k + 1 \in 1 .. Len(recs) /\ result.line = recs[k + 1].line
          /\ \A j \in Duplicates : k + 1 <= j
      BY <1>2, <2>1, <2>2, StoredIs
    <2>4. /\ \A i \in before : Keeps(recs[i].rec)
          /\ \A i, j \in before : sameKey(i, j) => i = j
      BY <1>5, <2>3
    <2>5. k + 1 \in DOMAIN recs /\ ~Keeps(recs[k + 1].rec)
      BY <1>2, <2>1, StoredIs
    <2> QED
      BY <1>6, <2>3, <2>4, <2>5
  <1>7. ASSUME result.kind = "duplicate" PROVE Earliest
    <2>1. /\ limitErr # 0 /\ Duplicates # {} /\ result.line = FirstDuplicate
      BY <1>1, <1>7 DEF ResultInv, Reading, Ends
    <2>2. PICK d \in 1 .. k : /\ FirstDuplicate = stored[d].line /\ d \in Duplicates
                              /\ \A j \in Duplicates : d <= j
      BY <2>1, FirstDuplicateIs
    <2>3. d \in 1 .. k + 1 /\ d \in 1 .. Len(recs) /\ result.line = recs[d].line
      BY <2>1, <2>2, StoredIs
    <2>4. /\ \A i : i \in before <=> i \in 1 .. d - 1
          /\ \A i \in before : Keeps(recs[i].rec)
          /\ \A i, j \in before : sameKey(i, j) => i = j
      BY <1>5, <2>2, <2>3
    <2>5. PICK i \in 1 .. d - 1 : stored[i].key = stored[d].key
      BY <2>2 DEF Duplicates
    <2>6. i \in 1 .. k /\ i \in 1 .. Len(recs)
      BY <2>2, <2>5, StoredIs
    <2>7. sameKey(d, i)
      BY <2>2, <2>3, <2>5, <2>6, StoredIs, OneKey
    <2>8. d \in DOMAIN recs /\ i \in before
      BY <2>3, <2>4, <2>5, StoredIs
    <2> HIDE DEF before, sameKey
    <2> QED
      BY <1>7, <2>3, <2>4, <2>7, <2>8
  <1>8. ASSUME result.kind = "ok" PROVE \A i \in DOMAIN recs : Keeps(recs[i].rec)
    <2>1. limitErr = 0
      BY <1>1, <1>8 DEF ResultInv, Reading, Ends
    <2>2. k = Len(recs)
      BY <1>1, <2>1 DEF StoredInv
    <2> QED
      BY <2>2, StoredIs
  <1>9. result.kind \in {"limit", "duplicate"} => Earliest
    BY <1>6, <1>7
  <1> QED
    BY <1>8, <1>9 DEF EarliestReported

\* What the Builder holds of a source is what the source says, whatever its format, the
\* order of its columns and the fields of its objects (RowsSound).
THEOREM RowsAreFaithful == SourceSpec => []RowsSound
  <1>1. SourceInit => SourceInv
    BY SourceStart
  <1>2. SourceInv /\ [SourceNext]_sourceVars => SourceInv'
    BY SourceStep
  <1>3. SourceInv => RowsSound
    BY SourceInvSound
  <1> QED
    BY <1>1, <1>2, <1>3, PTL DEF SourceSpec

\* The violation reported is the earliest of the source (EarliestReported).
THEOREM EarliestIsReported == SourceSpec => []EarliestReported
  <1>1. SourceInit => SourceInv
    BY SourceStart
  <1>2. SourceInv /\ [SourceNext]_sourceVars => SourceInv'
    BY SourceStep
  <1>3. SourceInv => EarliestReported
    BY SourceInvEarliest
  <1> QED
    BY <1>1, <1>2, <1>3, PTL DEF SourceSpec

----------------------------------------------------------------------------
(****************************************************************************)
(* For every limit and every number of rows: the sample attos-size takes    *)
(* has the size asked for, repeats no row, and keeps each with the same     *)
(* number of draws.                                                         *)
(****************************************************************************)

\* A sample of the first n rows: no more of them than the limit, each once, and all of them in
\* their order while there is room.
IsSample(s, n, lim) ==
    /\ s \in Seq(1 .. n) /\ IsInjective(s)
    /\ lim <= 0 \/ n <= lim => Len(s) = n /\ \A i \in 1 .. n : s[i] = i
    /\ lim > 0 /\ n >= lim => Len(s) = lim

LEMMA EmptySample ==
    ASSUME NEW lim \in Int
    PROVE  IsSample(<<>>, 0, lim)
  BY DEF IsSample, IsInjective

LEMMA AppendedRow ==
    ASSUME NEW n \in Nat, NEW lim \in Int, NEW s, IsSample(s, n, lim), HasRoom(s, lim)
    PROVE  IsSample(Append(s, n + 1), n + 1, lim)
  <1> DEFINE t == Append(s, n + 1)
  <1>1. s \in Seq(1 .. n) /\ IsInjective(s)
    BY DEF IsSample
  <1>2. lim <= 0 \/ n < lim
    BY DEF IsSample, HasRoom
  <1>3. Len(s) = n /\ \A i \in 1 .. n : s[i] = i
    BY <1>2 DEF IsSample
  <1>4. t \in Seq(1 .. n + 1) /\ Len(t) = n + 1
    <2>1. s \in Seq(1 .. n + 1) /\ n + 1 \in 1 .. n + 1
      BY <1>1, <1>3
    <2> QED
      BY <1>3, <2>1
  <1>5. \A i \in 1 .. n + 1 : t[i] = i
    BY <1>1, <1>3
  <1> HIDE DEF t
  <1>6. IsInjective(t)
    <2>1. DOMAIN t = 1 .. n + 1
      BY <1>4
    <2> QED
      BY <1>5, <2>1 DEF IsInjective
  <1>7. lim > 0 /\ n + 1 >= lim => Len(t) = lim
    BY <1>2, <1>4
  <1>8. IsSample(t, n + 1, lim)
    BY <1>4, <1>5, <1>6, <1>7 DEF IsSample
  <1> QED
    BY <1>8 DEF t

\* A row that is drawn replaces one.
LEMMA ReplacedRow ==
    ASSUME NEW n \in Nat, NEW lim \in Int, NEW s, IsSample(s, n, lim), ~HasRoom(s, lim),
           NEW j \in Nat, j < lim
    PROVE  /\ IsSample([s EXCEPT ![j + 1] = n + 1], n + 1, lim)
           /\ j + 1 \in DOMAIN s /\ n >= lim /\ lim > 0
  <1> DEFINE t == [s EXCEPT ![j + 1] = n + 1]
  <1>1. s \in Seq(1 .. n) /\ IsInjective(s) /\ Len(s) \in Nat
    BY DEF IsSample
  <1>2. lim > 0 /\ Len(s) >= lim
    BY <1>1 DEF HasRoom
  <1>3. n >= lim /\ Len(s) = lim
    <2>1. CASE n >= lim
      BY <1>2, <2>1 DEF IsSample
    <2>2. CASE n <= lim
      BY <1>2, <2>2 DEF IsSample
    <2> QED
      BY <2>1, <2>2
  <1>4. DOMAIN s = 1 .. lim /\ j + 1 \in 1 .. lim
    BY <1>1, <1>3
  <1>5. /\ DOMAIN t = 1 .. lim /\ t[j + 1] = n + 1
        /\ \A i \in 1 .. lim : i # j + 1 => t[i] = s[i]
    BY <1>4
  <1>6. \A i \in 1 .. lim : s[i] \in 1 .. n
    BY <1>1, <1>4
  <1>7. t \in Seq(1 .. n + 1) /\ Len(t) = lim
    <2>1. t \in [1 .. lim -> 1 .. n + 1]
      <3>1. s \in [1 .. lim -> 1 .. n + 1] /\ n + 1 \in 1 .. n + 1
        BY <1>1, <1>3, <1>6
      <3> QED
        BY <3>1
    <2> HIDE DEF t
    <2>2. lim \in Nat
      BY <1>2
    <2> QED
      BY <2>1, <2>2
  <1> HIDE DEF t
  <1>8. IsInjective(t)
    <2> SUFFICES ASSUME NEW a \in 1 .. lim, NEW b \in 1 .. lim, t[a] = t[b] PROVE a = b
      BY <1>5 DEF IsInjective
    <2>1. \A x, y \in 1 .. lim : s[x] = s[y] => x = y
      BY <1>1, <1>4 DEF IsInjective
    <2> QED
      BY <1>5, <1>6, <2>1
  <1>9. lim > 0 /\ n + 1 > lim
    BY <1>2, <1>3
  <1>10. IsSample(t, n + 1, lim)
    BY <1>7, <1>8, <1>9 DEF IsSample
  <1> QED
    BY <1>2, <1>3, <1>4, <1>10 DEF t

\* A row that is not drawn leaves the sample as it is.
LEMMA SkippedRow ==
    ASSUME NEW n \in Nat, NEW lim \in Int, NEW s, IsSample(s, n, lim), ~HasRoom(s, lim)
    PROVE  IsSample(s, n + 1, lim)
  <1>1. s \in Seq(1 .. n) /\ IsInjective(s) /\ Len(s) \in Nat
    BY DEF IsSample
  <1>2. lim > 0 /\ Len(s) >= lim
    BY <1>1 DEF HasRoom
  <1>3. n >= lim /\ Len(s) = lim
    <2>1. CASE n >= lim
      BY <1>2, <2>1 DEF IsSample
    <2>2. CASE n <= lim
      BY <1>2, <2>2 DEF IsSample
    <2> QED
      BY <2>1, <2>2
  <1>4. s \in Seq(1 .. n + 1)
    BY <1>1
  <1>5. ~(lim <= 0 \/ n + 1 <= lim)
    BY <1>2, <1>3
  <1> QED
    BY <1>1, <1>3, <1>4, <1>5 DEF IsSample

LEMMA KeptIsSample ==
    ASSUME NEW n \in Nat, NEW lim \in Int, NEW s, IsSample(s, n, lim), NEW j \in Draws(n + 1)
    PROVE  IsSample(Kept(s, lim, n + 1, j), n + 1, lim)
  <1>1. j \in Nat
    BY DEF Draws
  <1>2. CASE HasRoom(s, lim)
    BY <1>2, AppendedRow DEF Kept
  <1>3. CASE ~HasRoom(s, lim) /\ j < lim
    BY <1>1, <1>3, ReplacedRow DEF Kept
  <1>4. CASE ~HasRoom(s, lim) /\ ~(j < lim)
    BY <1>4, SkippedRow DEF Kept
  <1> QED
    BY <1>2, <1>3, <1>4

----------------------------------------------------------------------------
\* The samples that n draws lead to.

Unrolls(f, n, lim, d) ==
    f = [i \in 0 .. n |-> IF i = 0 THEN <<>> ELSE Kept(f[i - 1], lim, i, d[i])]

\* Kept keeps a sequence of rows, whatever the draw.
LEMMA KeptType ==
    ASSUME NEW s \in Seq(Nat), NEW lim, NEW row \in Nat, NEW j
    PROVE  Kept(s, lim, row, j) \in Seq(Nat)
  <1>1. Append(s, row) \in Seq(Nat)
    OBVIOUS
  <1>2. [s EXCEPT ![j + 1] = row] \in Seq(Nat)
    <2>1. s \in [1 .. Len(s) -> Nat] /\ Len(s) \in Nat
      OBVIOUS
    <2>2. [s EXCEPT ![j + 1] = row] \in [1 .. Len(s) -> Nat]
      BY <2>1
    <2> QED
      BY <2>1, <2>2
  <1> QED
    BY <1>1, <1>2 DEF Kept

LEMMA Unrolling ==
    ASSUME NEW n \in Nat, NEW lim, NEW d
    PROVE  \E f : Unrolls(f, n, lim, d)
  <1> DEFINE step == [k \in Nat |-> [s \in Seq(Nat) |-> Kept(s, lim, k + 1, d[k + 1])]]
  <1>1. step \in [Nat -> [Seq(Nat) -> Seq(Nat)]]
    <2> SUFFICES ASSUME NEW k \in Nat, NEW s \in Seq(Nat)
                 PROVE  Kept(s, lim, k + 1, d[k + 1]) \in Seq(Nat)
      OBVIOUS
    <2>1. k + 1 \in Nat
      OBVIOUS
    <2> QED
      BY <2>1, KeptType
  <1>2. ASSUME NEW k \in Nat, NEW s \in Seq(Nat)
        PROVE  step[k][s] = Kept(s, lim, k + 1, d[k + 1])
    OBVIOUS
  <1> HIDE DEF step
  <1>3. <<>> \in Seq(Nat)
    OBVIOUS
  <1>4. PICK f : Recurs(Seq(Nat), <<>>, step, n, f)
    BY <1>1, <1>3, RecursionUpTo
  <1>5. /\ f \in [0 .. n -> Seq(Nat)] /\ f[0] = <<>>
        /\ \A k \in 0 .. n - 1 : f[k + 1] = step[k][f[k]]
    BY <1>4 DEF Recurs
  <1>6. ASSUME NEW i \in 0 .. n, i # 0 PROVE f[i] = Kept(f[i - 1], lim, i, d[i])
    <2>1. i - 1 \in 0 .. n - 1 /\ i - 1 \in Nat /\ (i - 1) + 1 = i /\ i - 1 \in 0 .. n
      BY <1>6
    <2>2. f[i] = step[i - 1][f[i - 1]] /\ f[i - 1] \in Seq(Nat)
      BY <1>5, <2>1
    <2>3. step[i - 1][f[i - 1]] = Kept(f[i - 1], lim, (i - 1) + 1, d[(i - 1) + 1])
      BY <1>2, <2>1, <2>2
    <2> QED
      BY <2>1, <2>2, <2>3
  <1>7. ASSUME NEW i \in 0 .. n
        PROVE  f[i] = IF i = 0 THEN <<>> ELSE Kept(f[i - 1], lim, i, d[i])
    BY <1>5, <1>6
  <1>8. Unrolls(f, n, lim, d)
    <2>1. f = [i \in 0 .. n |-> f[i]]
      BY <1>5
    <2> QED
      BY <1>7, <2>1 DEF Unrolls
  <1> QED
    BY <1>8

LEMMA UnrollsAgree ==
    ASSUME NEW n \in Nat, NEW m \in Nat, n <= m, NEW lim, NEW d, NEW e, NEW f, NEW g,
           Unrolls(f, n, lim, d), Unrolls(g, m, lim, e), \A i \in 1 .. n : d[i] = e[i]
    PROVE  f[n] = g[n]
  <1> DEFINE Apart == {i \in Nat : i <= n /\ f[i] # g[i]}
  <1> SUFFICES ASSUME Apart # {} PROVE FALSE
    OBVIOUS
  <1>1. PICK i \in Apart : \A j \in Apart : i <= j
    <2> HIDE DEF Apart
    <2>1. Apart \in SUBSET Nat
      BY DEF Apart
    <2> QED
      BY <2>1, LeastNatural
  <1>2. i \in Nat /\ i <= n /\ f[i] # g[i] /\ i \in 0 .. n /\ i \in 0 .. m
    OBVIOUS
  <1>3. f[i] = IF i = 0 THEN <<>> ELSE Kept(f[i - 1], lim, i, d[i])
    BY <1>2 DEF Unrolls
  <1>4. g[i] = IF i = 0 THEN <<>> ELSE Kept(g[i - 1], lim, i, e[i])
    BY <1>2 DEF Unrolls
  <1>5. i # 0
    BY <1>2, <1>3, <1>4
  <1>6. i - 1 \in Nat /\ i - 1 <= n /\ ~(i <= i - 1) /\ i \in 1 .. n
    BY <1>2, <1>5
  <1>7. f[i - 1] = g[i - 1]
    BY <1>1, <1>6
  <1>8. d[i] = e[i]
    BY <1>6
  <1> QED
    BY <1>2, <1>3, <1>4, <1>7, <1>8

LEMMA SampleIs ==
    ASSUME NEW n \in Nat, NEW lim, NEW d, NEW f, Unrolls(f, n, lim, d)
    PROVE  SampleOf(n, lim, d) = f[n]
  <1> DEFINE g == CHOOSE g : Unrolls(g, n, lim, d)
  <1>1. Unrolls(g, n, lim, d)
    OBVIOUS
  <1>2. SampleOf(n, lim, d) = g[n]
    BY DEF SampleOf, Unrolls
  <1> HIDE DEF g
  <1> QED
    BY <1>1, <1>2, UnrollsAgree

\* Draws without the last one.
FirstDraws(d, n) == [i \in 1 .. n |-> d[i]]

LEMMA NoRows ==
    ASSUME NEW lim, NEW d
    PROVE  SampleOf(0, lim, d) = <<>>
  <1>1. PICK f : Unrolls(f, 0, lim, d)
    BY Unrolling
  <1>2. f[0] = <<>>
    <2>1. 0 \in 0 .. 0
      OBVIOUS
    <2> QED
      BY <1>1, <2>1 DEF Unrolls
  <1> QED
    BY <1>1, <1>2, SampleIs

LEMMA NextRow ==
    ASSUME NEW n \in Nat, NEW lim, NEW d
    PROVE  SampleOf(n + 1, lim, d) = Kept(SampleOf(n, lim, FirstDraws(d, n)), lim, n + 1, d[n + 1])
  <1>1. n + 1 \in Nat /\ n <= n + 1 /\ n + 1 \in 0 .. n + 1 /\ n + 1 # 0 /\ (n + 1) - 1 = n
    OBVIOUS
  <1>2. PICK f : Unrolls(f, n, lim, FirstDraws(d, n))
    BY Unrolling
  <1>3. PICK g : Unrolls(g, n + 1, lim, d)
    BY <1>1, Unrolling
  <1>4. \A i \in 1 .. n : FirstDraws(d, n)[i] = d[i]
    BY DEF FirstDraws
  <1>5. f[n] = g[n]
    BY <1>1, <1>2, <1>3, <1>4, UnrollsAgree
  <1>6. g[n + 1] = Kept(g[(n + 1) - 1], lim, n + 1, d[n + 1])
    BY <1>1, <1>3 DEF Unrolls
  <1>7. SampleOf(n, lim, FirstDraws(d, n)) = f[n]
    BY <1>2, SampleIs
  <1>8. SampleOf(n + 1, lim, d) = g[n + 1]
    BY <1>1, <1>3, SampleIs
  <1> QED
    BY <1>1, <1>5, <1>6, <1>7, <1>8

LEMMA FirstDrawsAre ==
    ASSUME NEW n \in Nat, NEW d \in DrawsOf(n + 1)
    PROVE  FirstDraws(d, n) \in DrawsOf(n) /\ d[n + 1] \in Draws(n + 1) /\ d[n + 1] \in 0 .. n
  <1>1. \A i \in 1 .. n + 1 : d[i] \in 0 .. i - 1
    BY DEF DrawsOf, Draws
  <1>2. n + 1 \in 1 .. n + 1 /\ \A i \in 1 .. n : i \in 1 .. n + 1
    OBVIOUS
  <1>3. ASSUME NEW i \in 1 .. n PROVE d[i] \in Draws(i) /\ d[i] \in 0 .. n - 1
    BY <1>1, <1>2 DEF Draws
  <1>4. d[n + 1] \in Draws(n + 1) /\ d[n + 1] \in 0 .. n
    BY <1>1, <1>2 DEF Draws
  <1>5. FirstDraws(d, n) \in DrawsOf(n)
    BY <1>3 DEF FirstDraws, DrawsOf
  <1> QED
    BY <1>4, <1>5

LEMMA SampleIsSample ==
    ASSUME NEW n \in Nat, NEW lim \in Int, NEW d \in DrawsOf(n)
    PROVE  IsSample(SampleOf(n, lim, d), n, lim)
  <1> DEFINE Bad == {m \in Nat : \E e \in DrawsOf(m) : ~IsSample(SampleOf(m, lim, e), m, lim)}
  <1> SUFFICES ASSUME Bad # {} PROVE FALSE
    OBVIOUS
  <1>1. PICK m \in Bad : \A k \in Bad : m <= k
    <2> HIDE DEF Bad
    <2>1. Bad \in SUBSET Nat
      BY DEF Bad
    <2> QED
      BY <2>1, LeastNatural
  <1>2. PICK e \in DrawsOf(m) : ~IsSample(SampleOf(m, lim, e), m, lim)
    OBVIOUS
  <1>3. m # 0
    BY <1>2, NoRows, EmptySample
  <1>4. PICK k \in Nat : m = k + 1
    <2>1. m - 1 \in Nat /\ m = (m - 1) + 1
      BY <1>3
    <2> QED
      BY <2>1
  <1>5. FirstDraws(e, k) \in DrawsOf(k) /\ e[k + 1] \in Draws(k + 1)
    BY <1>4, FirstDrawsAre
  <1>6. k \notin Bad
    BY <1>1, <1>4
  <1>7. IsSample(SampleOf(k, lim, FirstDraws(e, k)), k, lim)
    BY <1>5, <1>6
  <1> DEFINE s == SampleOf(k, lim, FirstDraws(e, k))
  <1>8. IsSample(Kept(s, lim, k + 1, e[k + 1]), k + 1, lim)
    BY <1>5, <1>7, KeptIsSample
  <1>9. SampleOf(k + 1, lim, e) = Kept(s, lim, k + 1, e[k + 1])
    BY NextRow
  <1> HIDE DEF s
  <1> QED
    BY <1>2, <1>4, <1>8, <1>9

----------------------------------------------------------------------------
\* How many draws there are, and how many keep a row.

\* The draws for one row more whose parts are in Q.
Extending(Q, n) == {d \in DrawsOf(n + 1) : <<FirstDraws(d, n), d[n + 1]>> \in Q}

Longer(d, n, j) == [i \in 1 .. n + 1 |-> IF i = n + 1 THEN j ELSE d[i]]

LEMMA LongerIs ==
    ASSUME NEW n \in Nat, NEW d \in DrawsOf(n), NEW j \in 0 .. n
    PROVE  /\ Longer(d, n, j) \in DrawsOf(n + 1)
           /\ FirstDraws(Longer(d, n, j), n) = d /\ Longer(d, n, j)[n + 1] = j
  <1>1. n + 1 \in 1 .. n + 1
    OBVIOUS
  <1>2. d = [i \in 1 .. n |-> d[i]] /\ \A i \in 1 .. n : d[i] \in 0 .. i - 1
    BY DEF DrawsOf, Draws
  <1>3. Longer(d, n, j)[n + 1] = j
    BY <1>1 DEF Longer
  <1>4. \A i \in 1 .. n : Longer(d, n, j)[i] = d[i]
    BY DEF Longer
  <1>5. FirstDraws(Longer(d, n, j), n) = d
    BY <1>2, <1>4 DEF FirstDraws
  <1>6. ASSUME NEW i \in 1 .. n + 1
        PROVE  Longer(d, n, j)[i] \in Draws(i) /\ Longer(d, n, j)[i] \in 0 .. (n + 1) - 1
    <2>1. CASE i = n + 1
      BY <1>3, <2>1 DEF Draws
    <2>2. CASE i # n + 1
      <3>1. i \in 1 .. n
        BY <2>2
      <3> QED
        BY <1>2, <1>4, <3>1 DEF Draws
    <2> QED
      BY <2>1, <2>2
  <1>7. Longer(d, n, j) \in [1 .. n + 1 -> 0 .. (n + 1) - 1]
    <2>1. Longer(d, n, j) = [i \in 1 .. n + 1 |-> Longer(d, n, j)[i]]
      BY DEF Longer
    <2> QED
      BY <1>6, <2>1
  <1> QED
    BY <1>3, <1>5, <1>6, <1>7 DEF DrawsOf

LEMMA SameDraws ==
    ASSUME NEW n \in Nat, NEW d \in DrawsOf(n + 1)
    PROVE  d = Longer(FirstDraws(d, n), n, d[n + 1])
  <1>1. d = [i \in 1 .. n + 1 |-> d[i]]
    BY DEF DrawsOf
  <1>2. ASSUME NEW i \in 1 .. n + 1
        PROVE  d[i] = IF i = n + 1 THEN d[n + 1] ELSE FirstDraws(d, n)[i]
    BY DEF FirstDraws
  <1> QED
    BY <1>1, <1>2 DEF Longer

LEMMA CountExtending ==
    ASSUME NEW n \in Nat, NEW Q \in SUBSET (DrawsOf(n) \X (0 .. n)), IsFiniteSet(Q)
    PROVE  IsFiniteSet(Extending(Q, n)) /\ Cardinality(Extending(Q, n)) = Cardinality(Q)
  <1> DEFINE f == [d \in Extending(Q, n) |-> <<FirstDraws(d, n), d[n + 1]>>]
             g == [q \in Q |-> Longer(q[1], n, q[2])]
  <1>1. ASSUME NEW q \in Q
        PROVE  /\ g[q] \in Extending(Q, n)
               /\ FirstDraws(g[q], n) = q[1] /\ g[q][n + 1] = q[2]
    <2>1. q[1] \in DrawsOf(n) /\ q[2] \in 0 .. n /\ q = <<q[1], q[2]>>
      OBVIOUS
    <2>2. g[q] = Longer(q[1], n, q[2])
      OBVIOUS
    <2> HIDE DEF g
    <2>3. g[q] \in DrawsOf(n + 1) /\ FirstDraws(g[q], n) = q[1] /\ g[q][n + 1] = q[2]
      BY <2>1, <2>2, LongerIs
    <2>4. g[q] \in Extending(Q, n)
      BY <2>1, <2>3 DEF Extending
    <2> QED
      BY <2>3, <2>4
  <1>2. g \in [Q -> Extending(Q, n)]
    BY <1>1
  <1>3. ASSUME NEW d \in Extending(Q, n) PROVE \E q \in Q : g[q] = d
    <2> DEFINE q == <<FirstDraws(d, n), d[n + 1]>>
    <2>1. d \in DrawsOf(n + 1) /\ q \in Q
      BY DEF Extending
    <2>2. g[q] = Longer(FirstDraws(d, n), n, d[n + 1])
      BY <2>1
    <2>3. g[q] = d
      BY <2>1, <2>2, SameDraws
    <2> QED
      BY <2>1, <2>3
  <1> HIDE DEF g
  <1>4. ASSUME NEW a \in Q, NEW b \in Q, g[a] = g[b] PROVE a = b
    <2>1. a[1] = b[1] /\ a[2] = b[2]
      BY <1>1, <1>4
    <2>2. a \in DrawsOf(n) \X (0 .. n) /\ b \in DrawsOf(n) \X (0 .. n)
      OBVIOUS
    <2>3. a = <<a[1], a[2]>> /\ b = <<b[1], b[2]>>
      BY <2>2
    <2> QED
      BY <2>1, <2>3
  <1>5. DOMAIN g = Q
    BY <1>2
  <1>6. g \in Bijection(Q, Extending(Q, n))
    BY <1>2, <1>3, <1>4, <1>5 DEF Bijection, Injection, Surjection, IsInjective
  <1> QED
    BY <1>6, FS_Bijection DEF ExistsBijection

LEMMA DrawsGrow ==
    ASSUME NEW n \in Nat, IsFiniteSet(DrawsOf(n))
    PROVE  /\ IsFiniteSet(DrawsOf(n + 1))
           /\ Cardinality(DrawsOf(n + 1)) = Cardinality(DrawsOf(n)) * (n + 1)
  <1> DEFINE Q == DrawsOf(n) \X (0 .. n)
  <1>1. IsFiniteSet(0 .. n) /\ Cardinality(0 .. n) = n + 1
    <2>1. 0 \in Int /\ n \in Int /\ ~(0 > n) /\ n - 0 + 1 = n + 1
      OBVIOUS
    <2> QED
      BY <2>1, FS_Interval
  <1>2. IsFiniteSet(Q) /\ Cardinality(Q) = Cardinality(DrawsOf(n)) * (n + 1)
    <2>1. IsFiniteSet(DrawsOf(n) \X (0 .. n))
          /\ Cardinality(DrawsOf(n) \X (0 .. n)) = Cardinality(DrawsOf(n)) * Cardinality(0 .. n)
      BY <1>1, FS_Product
    <2> QED
      BY <1>1, <2>1
  <1>3. Extending(Q, n) = DrawsOf(n + 1)
    <2>1. ASSUME NEW d \in DrawsOf(n + 1) PROVE <<FirstDraws(d, n), d[n + 1]>> \in Q
      BY FirstDrawsAre
    <2> HIDE DEF Q
    <2> QED
      BY <2>1 DEF Extending
  <1>4. Q \in SUBSET (DrawsOf(n) \X (0 .. n))
    OBVIOUS
  <1> HIDE DEF Q
  <1>5. IsFiniteSet(Extending(Q, n)) /\ Cardinality(Extending(Q, n)) = Cardinality(Q)
    BY <1>2, <1>4, CountExtending
  <1> QED
    BY <1>2, <1>3, <1>5

LEMMA DrawsFinite ==
    ASSUME NEW n \in Nat
    PROVE  IsFiniteSet(DrawsOf(n)) /\ Cardinality(DrawsOf(n)) \in Nat
  <1> DEFINE Bad == {m \in Nat : ~IsFiniteSet(DrawsOf(m))}
  <1>1. Bad = {}
    <2> SUFFICES ASSUME Bad # {} PROVE FALSE
      OBVIOUS
    <2>1. PICK m \in Bad : \A k \in Bad : m <= k
      <3> HIDE DEF Bad
      <3>1. Bad \in SUBSET Nat
        BY DEF Bad
      <3> QED
        BY <3>1, LeastNatural
    <2>2. CASE m = 0
      <3>1. DrawsOf(0) \subseteq {<<>>}
        <4> SUFFICES ASSUME NEW d \in DrawsOf(0) PROVE d = <<>>
          OBVIOUS
        <4>1. d = [i \in 1 .. 0 |-> d[i]]
          BY DEF DrawsOf
        <4>2. d \in Seq(Nat) /\ Len(d) = 0
          <5>1. DOMAIN d = 1 .. 0 /\ 0 \in Nat /\ d \in [1 .. 0 -> Nat]
            BY <4>1
          <5> QED
            BY <5>1
        <4> QED
          BY <4>2
      <3>2. IsFiniteSet({<<>>})
        BY FS_Singleton
      <3>3. IsFiniteSet(DrawsOf(0))
        BY <3>1, <3>2, FS_Subset
      <3> QED
        BY <2>1, <2>2, <3>3
    <2>3. CASE m # 0
      <3>1. m \in Nat /\ ~IsFiniteSet(DrawsOf(m))
        OBVIOUS
      <3>2. PICK k \in Nat : m = k + 1
        <4>1. m - 1 \in Nat /\ m = (m - 1) + 1
          BY <2>3, <3>1
        <4> QED
          BY <4>1
      <3>3. IsFiniteSet(DrawsOf(k))
        <4>1. ~(m <= k)
          BY <3>2
        <4> QED
          BY <2>1, <4>1
      <3> QED
        BY <3>1, <3>2, <3>3, DrawsGrow
    <2> QED
      BY <2>2, <2>3
  <1>2. IsFiniteSet(DrawsOf(n))
    BY <1>1
  <1> QED
    BY <1>2, FS_CardinalityType

\* A sample that is full, and what a draw does to it.
LEMMA FullSample ==
    ASSUME NEW n \in Nat, NEW lim \in Nat \ {0}, lim <= n, NEW s, IsSample(s, n, lim)
    PROVE  /\ ~HasRoom(s, lim) /\ DOMAIN s = 1 .. lim
           /\ \A i \in 1 .. lim : s[i] \in 1 .. n
           /\ \A a, b \in 1 .. lim : s[a] = s[b] => a = b
  <1>1. s \in Seq(1 .. n) /\ IsInjective(s) /\ Len(s) = lim
    BY DEF IsSample
  <1>2. DOMAIN s = 1 .. lim /\ ~HasRoom(s, lim)
    BY <1>1 DEF HasRoom
  <1>3. \A i \in 1 .. lim : s[i] \in 1 .. n
    BY <1>1, <1>2
  <1> QED
    BY <1>1, <1>2, <1>3 DEF IsInjective

LEMMA NewRowKept ==
    ASSUME NEW n \in Nat, NEW lim \in Nat \ {0}, lim <= n, NEW s, IsSample(s, n, lim),
           NEW j \in 0 .. n
    PROVE  n + 1 \in Range(Kept(s, lim, n + 1, j)) <=> j < lim
  <1>1. ~HasRoom(s, lim) /\ DOMAIN s = 1 .. lim /\ \A i \in 1 .. lim : s[i] \in 1 .. n
    BY FullSample
  <1>2. CASE j < lim
    <2> DEFINE t == [s EXCEPT ![j + 1] = n + 1]
    <2>1. Kept(s, lim, n + 1, j) = t
      BY <1>1, <1>2 DEF Kept
    <2>2. j + 1 \in DOMAIN t /\ t[j + 1] = n + 1
      BY <1>1, <1>2
    <2> HIDE DEF t
    <2>3. n + 1 \in Range(t)
      BY <2>2 DEF Range
    <2> QED
      BY <1>2, <2>1, <2>3
  <1>3. CASE ~(j < lim)
    <2>1. Kept(s, lim, n + 1, j) = s
      BY <1>1, <1>3 DEF Kept
    <2>2. n + 1 \notin Range(s)
      BY <1>1 DEF Range
    <2> QED
      BY <1>3, <2>1, <2>2
  <1> QED
    BY <1>2, <1>3

LEMMA OldRowKept ==
    ASSUME NEW n \in Nat, NEW lim \in Nat \ {0}, lim <= n, NEW s, IsSample(s, n, lim),
           NEW j \in 0 .. n, NEW r \in 1 .. n
    PROVE  r \in Range(Kept(s, lim, n + 1, j))
               <=> r \in Range(s) /\ ~(j < lim /\ s[j + 1] = r)
  <1>1. /\ ~HasRoom(s, lim) /\ DOMAIN s = 1 .. lim
        /\ \A a, b \in 1 .. lim : s[a] = s[b] => a = b
    BY FullSample
  <1>2. CASE j < lim
    <2> DEFINE t == [s EXCEPT ![j + 1] = n + 1]
    <2>1. Kept(s, lim, n + 1, j) = t
      BY <1>1, <1>2 DEF Kept
    <2>2. /\ DOMAIN t = 1 .. lim /\ j + 1 \in 1 .. lim /\ t[j + 1] = n + 1
          /\ \A i \in 1 .. lim : i # j + 1 => t[i] = s[i]
      BY <1>1, <1>2
    <2> HIDE DEF t
    <2>3. ASSUME r \in Range(t) PROVE r \in Range(s) /\ s[j + 1] # r
      <3>1. PICK i \in 1 .. lim : t[i] = r
        BY <2>2, <2>3 DEF Range
      <3>2. i # j + 1
        <4>1. n + 1 # r
          OBVIOUS
        <4> QED
          BY <2>2, <3>1, <4>1
      <3>3. s[i] = r
        BY <2>2, <3>1, <3>2
      <3> QED
        BY <1>1, <2>2, <3>2, <3>3 DEF Range
    <2>4. ASSUME r \in Range(s), s[j + 1] # r PROVE r \in Range(t)
      <3>1. PICK i \in 1 .. lim : s[i] = r
        BY <1>1, <2>4 DEF Range
      <3>2. t[i] = r
        BY <2>2, <2>4, <3>1
      <3> QED
        BY <2>2, <3>2 DEF Range
    <2> QED
      BY <1>2, <2>1, <2>3, <2>4
  <1>3. CASE ~(j < lim)
    BY <1>1, <1>3 DEF Kept
  <1> QED
    BY <1>2, <1>3

\* Draws that keep the row after n rows, and the next draw that replaces it.
Replacing(r, n, lim) ==
    {q \in DrawsKeeping(r, n, lim) \X (0 .. n) : q[2] < lim /\ SampleOf(n, lim, q[1])[q[2] + 1] = r}

LEMMA CountReplacing ==
    ASSUME NEW n \in Nat, NEW lim \in Nat \ {0}, lim <= n, NEW r \in 1 .. n
    PROVE  /\ IsFiniteSet(Replacing(r, n, lim))
           /\ Cardinality(Replacing(r, n, lim)) = Cardinality(DrawsKeeping(r, n, lim))
  <1> DEFINE K == DrawsKeeping(r, n, lim)
             Gone == Replacing(r, n, lim)
             f == [q \in Gone |-> q[1]]
  <1>1. IsFiniteSet(K) /\ K \subseteq DrawsOf(n)
    <2>1. K \in SUBSET DrawsOf(n)
      BY DEF DrawsKeeping
    <2> HIDE DEF K
    <2> QED
      BY <2>1, DrawsFinite, FS_Subset
  <1>2. ASSUME NEW d \in K PROVE d \in DrawsOf(n) /\ IsSample(SampleOf(n, lim, d), n, lim)
    BY <1>1, SampleIsSample
  <1>3. ASSUME NEW q \in Gone
        PROVE  /\ q[1] \in K /\ q[2] \in 0 .. n /\ q = <<q[1], q[2]>>
               /\ q[2] < lim /\ SampleOf(n, lim, q[1])[q[2] + 1] = r
    BY DEF Replacing
  <1>4. ASSUME NEW a \in Gone, NEW b \in Gone, a[1] = b[1] PROVE a = b
    <2> DEFINE s == SampleOf(n, lim, a[1])
    <2>1. IsSample(s, n, lim)
      BY <1>2, <1>3
    <2>2. s[a[2] + 1] = r /\ s[b[2] + 1] = r
      BY <1>3, <1>4
    <2> HIDE DEF s
    <2>3. a[2] + 1 \in 1 .. lim /\ b[2] + 1 \in 1 .. lim
      BY <1>3
    <2>4. a[2] + 1 = b[2] + 1
      BY <2>1, <2>2, <2>3, FullSample
    <2>5. a[2] = b[2]
      BY <1>3, <2>4
    <2> QED
      BY <1>3, <1>4, <2>5
  <1>5. ASSUME NEW d \in K PROVE \E q \in Gone : q[1] = d
    <2> DEFINE s == SampleOf(n, lim, d)
    <2>1. IsSample(s, n, lim) /\ r \in Range(s)
      BY <1>2 DEF DrawsKeeping
    <2>2. DOMAIN s = 1 .. lim
      <3> HIDE DEF s
      <3> QED
        BY <2>1, FullSample
    <2>3. PICK i \in 1 .. lim : s[i] = r
      BY <2>1, <2>2 DEF Range
    <2>4. i - 1 \in 0 .. n /\ i - 1 < lim /\ (i - 1) + 1 = i
      OBVIOUS
    <2> DEFINE q == <<d, i - 1>>
    <2>5. q \in K \X (0 .. n) /\ q[1] = d /\ q[2] = i - 1
      BY <2>4
    <2>6. q \in Gone
      BY <2>3, <2>4, <2>5 DEF Replacing
    <2> QED
      BY <2>5, <2>6
  <1> HIDE DEF K, Gone
  <1>6. f \in [Gone -> K] /\ DOMAIN f = Gone /\ \A q \in Gone : f[q] = q[1]
    BY <1>3
  <1> HIDE DEF f
  <1>7. f \in Bijection(Gone, K)
    BY <1>4, <1>5, <1>6 DEF Bijection, Injection, Surjection, IsInjective
  <1>8. IsFiniteSet(Gone)
    <2>1. f \in Injection(Gone, K)
      BY <1>7 DEF Bijection
    <2> QED
      BY <1>1, <2>1, FS_Injection
  <1>9. Cardinality(Gone) = Cardinality(K)
    BY <1>7, <1>8, FS_Bijection DEF ExistsBijection
  <1> QED
    BY <1>8, <1>9 DEF K, Gone

LEMMA CountKeepingOld ==
    ASSUME NEW n \in Nat, NEW lim \in Nat \ {0}, lim <= n, NEW r \in 1 .. n
    PROVE  /\ Cardinality(DrawsKeeping(r, n, lim)) \in Nat
           /\ Cardinality(DrawsKeeping(r, n + 1, lim)) = n * Cardinality(DrawsKeeping(r, n, lim))
  <1> DEFINE K == DrawsKeeping(r, n, lim)
             P == K \X (0 .. n)
             Gone == Replacing(r, n, lim)
             Q == P \ Gone
  <1>1. IsFiniteSet(K) /\ Cardinality(K) \in Nat /\ K \subseteq DrawsOf(n)
    <2>1. K \in SUBSET DrawsOf(n)
      BY DEF DrawsKeeping
    <2> HIDE DEF K
    <2> QED
      BY <2>1, DrawsFinite, FS_Subset, FS_CardinalityType
  <1>2. IsFiniteSet(0 .. n) /\ Cardinality(0 .. n) = n + 1
    <2>1. 0 \in Int /\ n \in Int /\ ~(0 > n) /\ n - 0 + 1 = n + 1
      OBVIOUS
    <2> QED
      BY <2>1, FS_Interval
  <1>3. IsFiniteSet(P) /\ Cardinality(P) = Cardinality(K) * (n + 1)
    <2>1. IsFiniteSet(K \X (0 .. n))
          /\ Cardinality(K \X (0 .. n)) = Cardinality(K) * Cardinality(0 .. n)
      <3> HIDE DEF K
      <3> QED
        BY <1>1, <1>2, FS_Product
    <2> QED
      BY <1>2, <2>1
  <1>4. Cardinality(Gone) = Cardinality(K)
    BY CountReplacing
  <1>5. Gone \subseteq P
    BY DEF Replacing
  <1>6. P \in SUBSET (DrawsOf(n) \X (0 .. n))
    BY <1>1
  <1>7. Extending(Q, n) = DrawsKeeping(r, n + 1, lim)
    <2>1. ASSUME NEW d \in DrawsOf(n + 1)
          PROVE  <<FirstDraws(d, n), d[n + 1]>> \in Q <=> r \in Range(SampleOf(n + 1, lim, d))
      <3> DEFINE b == FirstDraws(d, n)
                 j == d[n + 1]
                 s == SampleOf(n, lim, b)
      <3>1. b \in DrawsOf(n) /\ j \in 0 .. n
        BY FirstDrawsAre
      <3>2. IsSample(s, n, lim)
        BY <3>1, SampleIsSample
      <3>3. SampleOf(n + 1, lim, d) = Kept(s, lim, n + 1, j)
        BY NextRow
      <3>4. <<b, j>> \in P <=> r \in Range(s)
        BY <3>1 DEF DrawsKeeping
      <3>5. <<b, j>> \in Gone <=> <<b, j>> \in P /\ j < lim /\ s[j + 1] = r
        BY DEF Replacing
      <3>6. r \in Range(Kept(s, lim, n + 1, j)) <=> r \in Range(s) /\ ~(j < lim /\ s[j + 1] = r)
        <4> HIDE DEF b, j, s
        <4> QED
          BY <3>1, <3>2, OldRowKept
      <3> HIDE DEF P, Gone, s
      <3> QED
        BY <3>3, <3>4, <3>5, <3>6
    <2> HIDE DEF Q
    <2> QED
      BY <2>1 DEF Extending, DrawsKeeping
  <1> HIDE DEF K, P, Gone
  <1>8. IsFiniteSet(Q) /\ Cardinality(Q) = Cardinality(P) - Cardinality(Gone)
    <2>1. P \cap Gone = Gone
      BY <1>5
    <2>2. IsFiniteSet(P \ Gone) /\ Cardinality(P \ Gone) = Cardinality(P) - Cardinality(P \cap Gone)
      BY <1>3, FS_Difference
    <2> QED
      BY <2>1, <2>2
  <1>9. Q \in SUBSET (DrawsOf(n) \X (0 .. n))
    BY <1>6
  <1> HIDE DEF Q
  <1>10. Cardinality(Extending(Q, n)) = Cardinality(Q)
    BY <1>8, <1>9, CountExtending
  <1>11. Cardinality(K) * (n + 1) - Cardinality(K) = n * Cardinality(K)
    BY <1>1
  <1>12. Cardinality(DrawsKeeping(r, n + 1, lim)) = n * Cardinality(K)
    BY <1>3, <1>4, <1>7, <1>8, <1>10, <1>11
  <1> QED
    BY <1>1, <1>12 DEF K

LEMMA CountKeepingNew ==
    ASSUME NEW n \in Nat, NEW lim \in Nat \ {0}, lim <= n
    PROVE  Cardinality(DrawsKeeping(n + 1, n + 1, lim)) = lim * Cardinality(DrawsOf(n))
  <1> DEFINE Q == DrawsOf(n) \X (0 .. lim - 1)
  <1>1. IsFiniteSet(0 .. lim - 1) /\ Cardinality(0 .. lim - 1) = lim
    <2>1. 0 \in Int /\ lim - 1 \in Int /\ ~(0 > lim - 1) /\ (lim - 1) - 0 + 1 = lim
      OBVIOUS
    <2> QED
      BY <2>1, FS_Interval
  <1>2. IsFiniteSet(DrawsOf(n)) /\ Cardinality(DrawsOf(n)) \in Nat
    BY DrawsFinite
  <1>3. IsFiniteSet(Q) /\ Cardinality(Q) = Cardinality(DrawsOf(n)) * Cardinality(0 .. lim - 1)
    BY <1>1, <1>2, FS_Product
  <1>4. Q \in SUBSET (DrawsOf(n) \X (0 .. n))
    <2>1. 0 .. lim - 1 \subseteq 0 .. n
      OBVIOUS
    <2> QED
      BY <2>1
  <1>5. Extending(Q, n) = DrawsKeeping(n + 1, n + 1, lim)
    <2>1. ASSUME NEW d \in DrawsOf(n + 1)
          PROVE  <<FirstDraws(d, n), d[n + 1]>> \in Q <=> n + 1 \in Range(SampleOf(n + 1, lim, d))
      <3> DEFINE b == FirstDraws(d, n)
                 j == d[n + 1]
                 s == SampleOf(n, lim, b)
      <3>1. b \in DrawsOf(n) /\ j \in 0 .. n
        BY FirstDrawsAre
      <3>2. IsSample(s, n, lim)
        BY <3>1, SampleIsSample
      <3>3. SampleOf(n + 1, lim, d) = Kept(s, lim, n + 1, j)
        BY NextRow
      <3>4. <<b, j>> \in Q <=> j < lim
        <4> HIDE DEF b, j
        <4>1. j \in 0 .. lim - 1 <=> j < lim
          BY <3>1
        <4> QED
          BY <3>1, <4>1
      <3>5. n + 1 \in Range(Kept(s, lim, n + 1, j)) <=> j < lim
        <4> HIDE DEF b, j, s
        <4> QED
          BY <3>1, <3>2, NewRowKept
      <3> HIDE DEF Q, s
      <3> QED
        BY <3>3, <3>4, <3>5
    <2> HIDE DEF Q
    <2> QED
      BY <2>1 DEF Extending, DrawsKeeping
  <1> HIDE DEF Q
  <1>6. Cardinality(Extending(Q, n)) = Cardinality(Q)
    BY <1>3, <1>4, CountExtending
  <1>7. Cardinality(DrawsOf(n)) * lim = lim * Cardinality(DrawsOf(n))
    BY <1>2
  <1> QED
    BY <1>1, <1>3, <1>5, <1>6, <1>7

\* A sample with room has every row.
LEMMA AllKept ==
    ASSUME NEW n \in Nat, NEW lim \in Int, lim <= 0 \/ n <= lim, NEW r \in 1 .. n
    PROVE  DrawsKeeping(r, n, lim) = DrawsOf(n)
  <1>1. ASSUME NEW d \in DrawsOf(n) PROVE r \in Range(SampleOf(n, lim, d))
    <2> DEFINE s == SampleOf(n, lim, d)
    <2>1. IsSample(s, n, lim)
      BY SampleIsSample
    <2> HIDE DEF s
    <2>2. s \in Seq(1 .. n) /\ Len(s) = n /\ s[r] = r
      BY <2>1 DEF IsSample
    <2>3. r \in DOMAIN s
      BY <2>2
    <2>4. r \in Range(s)
      BY <2>2, <2>3 DEF Range
    <2> QED
      BY <2>4 DEF s
  <1> QED
    BY <1>1 DEF DrawsKeeping

\* Of n draws, lim keep a row, whichever it is.
LEMMA ShareKept ==
    ASSUME NEW n \in Nat, NEW lim \in Nat \ {0}, lim <= n, NEW r \in 1 .. n
    PROVE  Cardinality(DrawsKeeping(r, n, lim)) * n = lim * Cardinality(DrawsOf(n))
  <1> DEFINE Even(m) == \A x \in 1 .. m :
                 Cardinality(DrawsKeeping(x, m, lim)) * m = lim * Cardinality(DrawsOf(m))
             Bad == {m \in Nat : lim <= m /\ ~Even(m)}
  <1>1. Bad = {}
    <2> SUFFICES ASSUME Bad # {} PROVE FALSE
      OBVIOUS
    <2>1. PICK m \in Bad : \A k \in Bad : m <= k
      <3> HIDE DEF Bad
      <3>1. Bad \in SUBSET Nat
        BY DEF Bad
      <3> QED
        BY <3>1, LeastNatural
    <2>2. m \in Nat /\ lim <= m /\ ~Even(m)
      OBVIOUS
    <2>3. CASE m = lim
      <3>1. PICK x \in 1 .. m :
                Cardinality(DrawsKeeping(x, m, lim)) * m # lim * Cardinality(DrawsOf(m))
        BY <2>2
      <3>2. DrawsKeeping(x, m, lim) = DrawsOf(m)
        BY <2>2, <2>3, AllKept
      <3>3. Cardinality(DrawsOf(m)) \in Nat
        BY <2>2, DrawsFinite
      <3>4. Cardinality(DrawsOf(m)) * m = m * Cardinality(DrawsOf(m))
        BY <2>2, <3>3
      <3> QED
        BY <2>3, <3>1, <3>2, <3>4
    <2>4. CASE m # lim
      <3>1. PICK k \in Nat : m = k + 1 /\ lim <= k
        <4>1. m - 1 \in Nat /\ m = (m - 1) + 1 /\ lim <= m - 1
          BY <2>2, <2>4
        <4> QED
          BY <4>1
      <3>2. Even(k)
        <4>1. ~(m <= k)
          BY <3>1
        <4> HIDE DEF Even
        <4> QED
          BY <2>1, <3>1, <4>1
      <3>3. PICK x \in 1 .. k + 1 :
                Cardinality(DrawsKeeping(x, k + 1, lim)) * (k + 1)
                    # lim * Cardinality(DrawsOf(k + 1))
        BY <2>2, <3>1
      <3>4. PICK d \in Nat : d = Cardinality(DrawsOf(k))
        BY DrawsFinite
      <3>5. Cardinality(DrawsOf(k + 1)) = d * (k + 1)
        BY <3>4, DrawsFinite, DrawsGrow
      <3>6. CASE x = k + 1
        <4>1. Cardinality(DrawsKeeping(x, k + 1, lim)) = lim * d
          BY <3>1, <3>4, <3>6, CountKeepingNew
        <4>2. (lim * d) * (k + 1) = lim * (d * (k + 1))
          OBVIOUS
        <4> QED
          BY <3>3, <3>5, <4>1, <4>2
      <3>7. CASE x # k + 1
        <4>1. x \in 1 .. k
          BY <3>7
        <4>2. PICK c \in Nat : c = Cardinality(DrawsKeeping(x, k, lim))
          BY <3>1, <4>1, CountKeepingOld
        <4>3. Cardinality(DrawsKeeping(x, k + 1, lim)) = k * c
          BY <3>1, <4>1, <4>2, CountKeepingOld
        <4>4. c * k = lim * d
          BY <3>2, <3>4, <4>1, <4>2
        <4>5. (k * c) * (k + 1) = (c * k) * (k + 1) /\ (lim * d) * (k + 1) = lim * (d * (k + 1))
          OBVIOUS
        <4>6. (k * c) * (k + 1) = lim * (d * (k + 1))
          BY <4>4, <4>5
        <4> QED
          BY <3>3, <3>5, <4>3, <4>6
      <3> QED
        BY <3>6, <3>7
    <2> QED
      BY <2>3, <2>4
  <1>2. Even(n)
    <2> HIDE DEF Even
    <2> QED
      BY <1>1
  <1> QED
    BY <1>2

LEMMA Cancel ==
    ASSUME NEW a \in Nat, NEW b \in Nat, NEW n \in Nat \ {0}, a * n = b * n
    PROVE  a = b
  <1>1. ASSUME NEW p \in Nat, NEW q \in Nat, p < q, p * n = q * n PROVE FALSE
    <2>1. (p + 1) * n <= q * n
      BY <1>1, Multiples
    <2>2. (p + 1) * n = p * n + n /\ p * n \in Nat
      OBVIOUS
    <2> QED
      BY <1>1, <2>1, <2>2
  <1> QED
    BY <1>1

LEMMA SameShare ==
    ASSUME NEW n \in Nat, NEW lim \in Int, NEW r \in 1 .. n, NEW o \in 1 .. n
    PROVE  Cardinality(DrawsKeeping(r, n, lim)) = Cardinality(DrawsKeeping(o, n, lim))
  <1>1. CASE lim <= 0 \/ n <= lim
    <2>1. DrawsKeeping(r, n, lim) = DrawsOf(n)
      BY <1>1, AllKept
    <2>2. DrawsKeeping(o, n, lim) = DrawsOf(n)
      BY <1>1, AllKept
    <2> QED
      BY <2>1, <2>2
  <1>2. CASE ~(lim <= 0 \/ n <= lim)
    <2>1. lim \in Nat \ {0} /\ lim <= n /\ n \in Nat \ {0}
      BY <1>2
    <2>2. PICK a \in Nat : a = Cardinality(DrawsKeeping(r, n, lim))
      BY <2>1, CountKeepingOld
    <2>3. PICK b \in Nat : b = Cardinality(DrawsKeeping(o, n, lim))
      BY <2>1, CountKeepingOld
    <2>4. a * n = lim * Cardinality(DrawsOf(n))
      BY <2>1, <2>2, ShareKept
    <2>5. b * n = lim * Cardinality(DrawsOf(n))
      BY <2>1, <2>3, ShareKept
    <2>6. a = b
      BY <2>1, <2>4, <2>5, Cancel
    <2> QED
      BY <2>2, <2>3, <2>6
  <1> QED
    BY <1>1, <1>2

----------------------------------------------------------------------------
\* The inductive invariant: what has been kept is a sample of the rows read.
SampleInv ==
    /\ limit \in Limits /\ total \in 0 .. MaxRows
    /\ reading \in {"rows", "done", "failed"}
    /\ IsSample(sample, total, limit)

LEMMA SampleStart == SampleInit => SampleInv
  <1> SUFFICES ASSUME SampleInit PROVE SampleInv
    OBVIOUS
  <1>1. limit \in Int /\ limit \in Limits /\ total = 0 /\ sample = <<>> /\ reading = "rows"
    BY SampleAssumption DEF SampleInit
  <1>2. 0 \in 0 .. MaxRows
    BY SampleAssumption
  <1>3. IsSample(<<>>, 0, limit)
    BY <1>1, EmptySample
  <1> QED
    BY <1>1, <1>2, <1>3 DEF SampleInv

LEMMA SampleStep == SampleInv /\ [SampleNext]_sampleVars => SampleInv'
  <1> SUFFICES ASSUME SampleInv, [SampleNext]_sampleVars PROVE SampleInv'
    OBVIOUS
  <1>1. ASSUME NEW j \in Draws(total + 1), ReadRow(j) PROVE SampleInv'
    <2>1. PICK n \in Nat, lim \in Int, s \in Seq(1 .. total) :
              n = total /\ lim = limit /\ s = sample
      BY SampleAssumption DEF SampleInv, IsSample
    <2>2. IsSample(s, n, lim) /\ j \in Draws(n + 1)
      BY <2>1 DEF SampleInv
    <2>3. IsSample(Kept(s, lim, n + 1, j), n + 1, lim)
      BY <2>2, KeptIsSample
    <2>4. total' = n + 1 /\ sample' = Kept(s, lim, n + 1, j) /\ limit' = lim /\ reading' = reading
      BY <1>1, <2>1 DEF ReadRow
    <2>5. IsSample(sample', total', limit')
      BY <2>3, <2>4
    <2>6. total' \in 0 .. MaxRows
      BY <1>1, <2>1, SampleAssumption DEF SampleInv, ReadRow
    <2>7. limit' \in Limits /\ reading' \in {"rows", "done", "failed"}
      BY <2>1, <2>4 DEF SampleInv
    <2>8. IsSample(sample, total, limit)'
      BY <2>5
    <2> QED
      BY <2>6, <2>7, <2>8 DEF SampleInv
  <1>2. ASSUME UNCHANGED <<limit, total, sample>>, reading' \in {"rows", "done", "failed"}
        PROVE  SampleInv'
    <2>1. IsSample(sample', total', limit')
      BY <1>2 DEF SampleInv
    <2>2. IsSample(sample, total, limit)'
      BY <2>1
    <2> QED
      BY <1>2, <2>2 DEF SampleInv
  <1>3. CASE EndOfFile
    BY <1>2, <1>3 DEF EndOfFile
  <1>4. CASE BadRow
    BY <1>2, <1>4 DEF BadRow
  <1>5. CASE UNCHANGED sampleVars
    BY <1>2, <1>5 DEF sampleVars, SampleInv
  <1> QED
    BY <1>1, <1>3, <1>4, <1>5 DEF SampleNext

LEMMA SampleInvFair == SampleInv => SampleFair
  <1> SUFFICES ASSUME SampleInv PROVE SampleFair
    OBVIOUS
  <1>1. PICK n \in Nat, lim \in Int, s \in Seq(1 .. total) : n = total /\ lim = limit /\ s = sample
    BY SampleAssumption DEF SampleInv, IsSample
  <1>2. IsSample(s, n, lim)
    BY <1>1 DEF SampleInv
  <1>3. s \in Seq(1 .. n) /\ IsInjective(s)
    BY <1>2 DEF IsSample
  <1>4. lim > 0 => Len(s) <= lim
    <2>1. CASE n >= lim
      BY <1>2, <2>1 DEF IsSample
    <2>2. CASE n < lim
      BY <1>2, <2>2 DEF IsSample
    <2> QED
      BY <2>1, <2>2
  <1>5. ASSUME Len(s) = n PROVE Range(s) = 1 .. n
    <2>1. lim <= 0 \/ n <= lim
      BY <1>4, <1>5
    <2>2. \A i \in 1 .. n : s[i] = i
      BY <1>2, <2>1 DEF IsSample
    <2>3. DOMAIN s = 1 .. n
      BY <1>3, <1>5
    <2> QED
      BY <2>2, <2>3 DEF Range
  <1>6. SampleTypeOK
    BY <1>1, <1>3, <1>4 DEF SampleTypeOK, SampleInv
  <1>7. RowsOnce
    BY <1>1, <1>3, <1>5 DEF RowsOnce, Exact
  <1>8. EquallyLikely
    <2>1. \A row, other \in 1 .. n :
              Cardinality(DrawsKeeping(row, n, lim)) = Cardinality(DrawsKeeping(other, n, lim))
      BY SameShare
    <2> QED
      BY <1>1, <2>1 DEF EquallyLikely
  <1> QED
    BY <1>6, <1>7, <1>8 DEF SampleFair

\* The sample attos-size takes has the size asked for, repeats no row, is every row when the
\* report says so, and favours no row: the draws that keep it are as many for each
\* (sampleFile).
THEOREM SampleIsFair == SampleSpec => []SampleFair
  <1>1. SampleSpec => []SampleInv
    BY SampleStart, SampleStep, PTL DEF SampleSpec
  <1> QED
    BY <1>1, SampleInvFair, PTL
=============================================================================
