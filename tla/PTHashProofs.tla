---------------------------- MODULE PTHashProofs ----------------------------
(****************************************************************************)
(* For every set of rows, position function, number of buckets and width of *)
(* pilots: a table that is built is a minimal perfect hash of its rows, and *)
(* the remapping never runs out of spare positions.  For every form of the  *)
(* records and any number of readers and buffers: lookups and scans of the  *)
(* file that is made with the table are exact.  For every input of the      *)
(* codec: what it decodes of its own blocks is the input.                   *)
(****************************************************************************)
EXTENDS FormatV2, Lz4, SequenceTheorems, TotalsProofs

LEMMA Sizes ==
    /\ N \in Nat /\ N >= 1
    /\ IsFiniteSet(0 .. N - 1) /\ Cardinality(0 .. N - 1) = N
    /\ 0 \in Pilots /\ M \in Nat /\ M >= N
<1>1. N \in Nat /\ N # 0
  BY RowsAssumption, FS_CardinalityType, FS_EmptySet DEF N
<1>2. IsFiniteSet(0 .. N - 1) /\ Cardinality(0 .. N - 1) = N
  BY <1>1, FS_Interval
<1>3. 0 \in Pilots
  <2>1. 2 ^ PilotBits \in Nat \ {0}
    BY SizesAssumption
  <2> QED BY <2>1 DEF Pilots
<1> QED BY <1>1, <1>2, <1>3, SizesAssumption

----------------------------------------------------------------------------
\* The inductive invariant.

\* Where a row is, once its bucket has a pilot.
At(r) == Pos(r, pilots[bucketOf[xs[r]]])
Placed == {r \in Rows : bucketOf[xs[r]] \notin todo}

\* The bitmap holds the positions of the placed rows, which all differ.
PlacedInv ==
    /\ taken = {At(r) : r \in Placed}
    /\ \A r, s \in Placed : r # s => At(r) # At(s)

\* Remapping begins when every row is placed, and walks from N to M.
PhaseInv ==
    /\ pc \in {"remap", "done"} => todo = {}
    /\ pc \notin {"remap", "done"} => q = N
    /\ pc = "done" => q = M

\* What is spare was never taken nor handed out, and what was handed out went to one position.
FreeInv ==
    /\ free \in [N .. M - 1 -> 0 .. N - 1]
    /\ pc \in {"remap", "done"} => spare \subseteq SpareSlots
    /\ \A p \in taken : p >= N /\ p < q => free[p] \in SpareSlots \ spare
    /\ \A p, o \in taken : p >= N /\ p < q /\ o >= N /\ o < q /\ p # o => free[p] # free[o]

IInv == TypeOK /\ PlacedInv /\ PhaseInv /\ FreeInv /\ SpareSuffices

LEMMA InitIInv == Init => IInv
<1> SUFFICES ASSUME Init PROVE IInv
  OBVIOUS
<1>1. TypeOK
  BY Sizes, SizesAssumption, InputsAssumption DEF Init, TypeOK, Buckets
<1>2. Placed = {}
  BY <1>1 DEF Init, Placed, Members, TypeOK
<1>3. PlacedInv
  BY <1>2 DEF PlacedInv, Init
<1>4. PhaseInv /\ FreeInv /\ SpareSuffices
  BY Sizes DEF Init, PhaseInv, FreeInv, SpareSuffices
<1> QED BY <1>1, <1>3, <1>4 DEF IInv

----------------------------------------------------------------------------
\* Steps.

\* A step that leaves the tables alone and does not enter the remapping.
LEMMA StaysQuiet ==
    ASSUME IInv, pc' \notin {"remap", "done"}, q = N,
           pc' \in {"search", "remap", "done", "duplicate", "nopilot"},
           UNCHANGED <<inputVars, todo, pilots, taken, spare, q, free>>
    PROVE  IInv'
<1>1. TypeOK'
  BY DEF IInv, TypeOK, inputVars
<1>2. PlacedInv'
  BY DEF IInv, PlacedInv, At, Placed, Pos, inputVars
<1>3. PhaseInv' /\ SpareSuffices'
  BY DEF PhaseInv, SpareSuffices
<1>4. FreeInv'
  BY DEF IInv, FreeInv, SpareSlots
<1> QED BY <1>1, <1>2, <1>3, <1>4 DEF IInv

LEMMA PlaceBucketIInv ==
    ASSUME IInv, NEW b \in Buckets, NEW p \in Pilots, PlaceBucket(b, p)
    PROVE  IInv'
<1> USE DEF PlaceBucket
<1>1. \A r \in Rows : xs[r] \in Hashes /\ bucketOf[xs[r]] \in Buckets
                     /\ posOf[xs[r]] \in [Pilots -> Positions]
  BY DEF IInv, TypeOK
<1>2. \A r \in Rows : \A o \in Pilots : Pos(r, o) \in Positions
  BY <1>1 DEF Pos
<1>3. Members(b) \subseteq Rows
  BY DEF Members
<1>4. TypeOK'
  BY <1>2, <1>3 DEF IInv, TypeOK, inputVars
<1>5. \A r \in Members(b) : At(r)' = Pos(r, p)
  BY <1>1, <1>3 DEF IInv, TypeOK, At, Pos, Members, inputVars
<1>6. \A r \in Rows \ Members(b) : At(r)' = At(r)
  BY <1>1 DEF IInv, TypeOK, At, Pos, Members, inputVars
<1>7. Placed' = Placed \cup Members(b) /\ Placed \cap Members(b) = {}
  BY DEF Placed, Members, NextBucket, inputVars
<1>8. Placed \subseteq Rows \ Members(b)
  BY <1>7 DEF Placed
<1>9. PlacedInv'
  <2>1. taken' = {At(r)' : r \in Placed'}
    BY <1>5, <1>6, <1>7, <1>8 DEF IInv, PlacedInv
  <2>2. ASSUME NEW r \in Placed', NEW s \in Placed', r # s PROVE At(r)' # At(s)'
    <3>1. CASE r \in Placed /\ s \in Placed
      BY <3>1, <2>2, <1>6, <1>8 DEF IInv, PlacedInv
    <3>2. CASE r \in Members(b) /\ s \in Members(b)
      BY <3>2, <2>2, <1>5 DEF Fits, DistinctOnly
    <3>3. CASE r \in Placed /\ s \in Members(b)
      BY <3>3, <1>5, <1>6, <1>8 DEF IInv, PlacedInv, Fits, FreeOnly
    <3>4. CASE r \in Members(b) /\ s \in Placed
      BY <3>4, <1>5, <1>6, <1>8 DEF IInv, PlacedInv, Fits, FreeOnly
    <3> QED BY <3>1, <3>2, <3>3, <3>4, <1>7, <2>2
  <2> QED BY <2>1, <2>2 DEF PlacedInv
<1>10. q = N /\ q' = N /\ pc' = "search"
  BY DEF IInv, PhaseInv
<1>11. PhaseInv' /\ SpareSuffices'
  BY <1>10 DEF PhaseInv, SpareSuffices
<1>12. FreeInv'
  <2>1. taken' \subseteq Positions
    BY <1>4 DEF TypeOK
  <2>2. \A o \in taken' : o \in Int
    BY <2>1, Sizes DEF Positions
  <2> QED BY <1>10, <2>2, Sizes DEF IInv, FreeInv
<1> QED BY <1>4, <1>9, <1>11, <1>12 DEF IInv

\* All rows placed, the bitmap has as many positions as there are rows.
LEMMA AllPlaced ==
    ASSUME IInv, todo = {}
    PROVE  IsFiniteSet(taken) /\ Cardinality(taken) = N
<1>1. Placed = Rows
  BY DEF Placed
<1> DEFINE f == [r \in Rows |-> At(r)]
<1>2. f \in Bijection(Rows, taken)
  <2>1. f \in [Rows -> taken] /\ \A t \in taken : \E r \in Rows : f[r] = t
    BY <1>1 DEF IInv, PlacedInv
  <2>2. \A r, s \in Rows : f[r] = f[s] => r = s
    BY <1>1 DEF IInv, PlacedInv
  <2> HIDE DEF f
  <2>3. f \in Injection(Rows, taken) /\ f \in Surjection(Rows, taken)
    BY <2>1, <2>2 DEF Injection, Surjection, IsInjective
  <2> QED BY <2>3 DEF Bijection
<1>3. ExistsBijection(Rows, taken)
  BY <1>2 DEF ExistsBijection
<1> QED BY <1>3, RowsAssumption, FS_Bijection DEF N

LEMMA CollectIInv ==
    ASSUME IInv, Collect
    PROVE  IInv'
<1> USE DEF Collect
<1>1. TypeOK'
  BY DEF IInv, TypeOK, inputVars, SpareSlots
<1>2. PlacedInv'
  BY DEF IInv, PlacedInv, At, Placed, Pos, inputVars
<1>3. q = N /\ q' = N
  BY DEF IInv, PhaseInv
<1>4. PhaseInv'
  BY <1>3 DEF PhaseInv
<1>5. taken \subseteq Positions /\ Positions \subseteq Int
  BY Sizes DEF IInv, TypeOK, Positions
<1>6. FreeInv'
  BY <1>3, <1>5, Sizes DEF IInv, FreeInv, SpareSlots
<1>7. SpareSuffices'
  <2> DEFINE Low == 0 .. N - 1
  <2>1. IsFiniteSet(taken) /\ Cardinality(taken) = N
    BY AllPlaced
  <2>2. IsFiniteSet(Low) /\ Cardinality(Low) = N /\ N \in Nat
    BY Sizes
  <2>3. Cardinality(Low \ taken) = N - Cardinality(Low \cap taken)
    BY <2>2, FS_Difference
  <2>4. Cardinality(taken \ Low) = N - Cardinality(taken \cap Low)
    BY <2>1, FS_Difference
  <2>5. Low \cap taken = taken \cap Low
    OBVIOUS
  <2>6. {p \in taken : p >= N} = taken \ Low
    <3>1. \A p \in taken : p \in Nat
      BY <1>5, Sizes DEF Positions
    <3>2. \A p \in taken : p >= N <=> p \notin Low
      BY <3>1, <2>2
    <3> QED BY <3>2
  <2>7. Cardinality(Low \ taken) = Cardinality({p \in taken : p >= N})
    BY <2>3, <2>4, <2>5, <2>6
  <2> QED BY <2>7, <1>3 DEF SpareSuffices, SpareSlots
<1> QED BY <1>1, <1>2, <1>4, <1>6, <1>7 DEF IInv

LEMMA BuiltIInv ==
    ASSUME IInv, Built
    PROVE  IInv'
<1> USE DEF Built
<1>1. TypeOK'
  BY DEF IInv, TypeOK, inputVars
<1>2. PlacedInv'
  BY DEF IInv, PlacedInv, At, Placed, Pos, inputVars
<1>3. PhaseInv' /\ SpareSuffices'
  BY DEF IInv, PhaseInv, SpareSuffices
<1>4. FreeInv'
  BY DEF IInv, FreeInv, SpareSlots
<1> QED BY <1>1, <1>2, <1>3, <1>4 DEF IInv

LEMMA RemapIInv ==
    ASSUME IInv, Remap
    PROVE  IInv'
<1>0. /\ todo = {} /\ q \in N .. M - 1 /\ q' = q + 1 /\ pc' = "remap" /\ pc = "remap"
      /\ taken' = taken /\ todo' = todo /\ pilots' = pilots /\ inputVars' = inputVars
  BY Sizes DEF IInv, PhaseInv, TypeOK, Remap
<1>1. PlacedInv'
  BY <1>0 DEF IInv, PlacedInv, At, Placed, Pos, inputVars
<1>2. PhaseInv'
  BY <1>0 DEF PhaseInv
<1>3. /\ taken \subseteq Positions /\ N \in Nat /\ M \in Nat /\ q \in Nat
      /\ \A p \in taken : p \in Int
  BY <1>0, Sizes DEF IInv, TypeOK, Positions
<1>4. SpareSlots' = SpareSlots
  BY <1>0 DEF SpareSlots
<1>5. free \in [N .. M - 1 -> 0 .. N - 1] /\ spare \subseteq SpareSlots
  BY <1>0 DEF IInv, FreeInv
<1>6. IsFiniteSet(spare) /\ IsFiniteSet(taken)
  <2>1. IsFiniteSet(spare)
    BY <1>5, Sizes, FS_Subset DEF SpareSlots
  <2> QED BY <2>1, <1>0, AllPlaced
<1>7. Cardinality(spare) = Cardinality({p \in taken : p >= q})
  BY <1>0 DEF IInv, SpareSuffices
<1>8. CASE q \notin taken
  <2>1. UNCHANGED <<spare, free>>
    BY <1>8 DEF Remap
  <2>2. TypeOK'
    BY <2>1, <1>0, <1>3 DEF IInv, TypeOK, inputVars
  <2>3. {p \in taken : p >= q} = {p \in taken : p >= q + 1}
    <3>1. \A p \in taken : p >= q <=> p >= q + 1
      BY <1>3, <1>8
    <3> QED BY <3>1
  <2>4. SpareSuffices'
    BY <2>1, <2>3, <1>7, <1>0 DEF SpareSuffices
  <2>5. \A p \in taken : p < q + 1 => p < q
    BY <1>3, <1>8
  <2>6. FreeInv'
    BY <2>1, <2>5, <1>0, <1>4 DEF IInv, FreeInv
  <2> QED BY <2>2, <2>4, <2>6, <1>1, <1>2 DEF IInv
<1>9. CASE q \in taken
  <2>1. PICK s \in spare : free' = [free EXCEPT ![q] = s] /\ spare' = spare \ {s}
    BY <1>9 DEF Remap, SpareUsed
  <2>2. s \in 0 .. N - 1 /\ s \in SpareSlots
    BY <2>1, <1>5 DEF SpareSlots
  <2>3. free' \in [N .. M - 1 -> 0 .. N - 1] /\ free'[q] = s
        /\ \A p \in N .. M - 1 : p # q => free'[p] = free[p]
    BY <2>1, <2>2, <1>0, <1>5
  <2>4. TypeOK'
    <3>1. free' \in [N .. M - 1 -> Nat]
      BY <2>3
    <3> QED BY <3>1, <2>1, <1>0, <1>3 DEF IInv, TypeOK, inputVars
  <2>5. SpareSuffices'
    <3> DEFINE Left == {p \in taken : p >= q}
    <3>1. IsFiniteSet(Left)
      BY <1>6, FS_Subset
    <3>2. q \in Left /\ {p \in taken : p >= q + 1} = Left \ {q}
      <4>1. \A p \in taken : p >= q + 1 <=> p >= q /\ p # q
        BY <1>3
      <4>2. q \in Left
        BY <1>9, <1>3
      <4>3. {p \in taken : p >= q + 1} = Left \ {q}
        BY <4>1
      <4> QED BY <4>2, <4>3
    <3>3. Cardinality(Left \ {q}) = Cardinality(Left) - 1
      BY <3>1, <3>2, FS_RemoveElement
    <3>4. Cardinality(spare \ {s}) = Cardinality(spare) - 1
      BY <1>6, FS_RemoveElement
    <3>5. Cardinality(spare \ {s}) = Cardinality({p \in taken : p >= q + 1})
      BY <3>2, <3>3, <3>4, <1>7
    <3> QED BY <3>5, <2>1, <1>0 DEF SpareSuffices
  <2>6. FreeInv'
    <3>1. \A p \in taken : p >= N => p \in N .. M - 1
      BY <1>3 DEF Positions
    <3>2. \A p \in taken : p >= N /\ p < q + 1 => (p = q \/ p < q)
      BY <1>3
    <3>3. \A p \in taken : p >= N /\ p < q => p # q /\ free[p] \in SpareSlots \ spare /\ free'[p] = free[p]
      BY <3>1, <2>3, <1>3 DEF IInv, FreeInv
    <3>4. \A p \in taken : p >= N /\ p < q + 1 => free'[p] \in SpareSlots \ spare'
      BY <3>2, <3>3, <2>1, <2>2, <2>3
    <3>5. ASSUME NEW p \in taken, NEW o \in taken, p >= N, p < q + 1, o >= N, o < q + 1, p # o
          PROVE  free'[p] # free'[o]
      <4>1. CASE p < q /\ o < q
        BY <4>1, <3>5, <3>3 DEF IInv, FreeInv
      <4>2. CASE p = q /\ o < q
        BY <4>2, <3>5, <3>3, <2>1, <2>3
      <4>3. CASE p < q /\ o = q
        BY <4>3, <3>5, <3>3, <2>1, <2>3
      <4> QED BY <4>1, <4>2, <4>3, <3>2, <3>5
    <3>6. spare' \subseteq SpareSlots
      BY <2>1, <1>5
    <3> QED BY <3>4, <3>5, <3>6, <2>3, <1>0, <1>4 DEF FreeInv
  <2> QED BY <2>4, <2>5, <2>6, <1>1, <1>2 DEF IInv
<1> QED BY <1>8, <1>9

LEMMA NextIInv == IInv /\ [Next]_vars => IInv'
<1> SUFFICES ASSUME IInv, [Next]_vars PROVE IInv'
  OBVIOUS
<1>1. ASSUME NEW b \in Buckets, Duplicate(b) \/ NoPilot(b) PROVE IInv'
  <2>1. q = N
    BY <1>1 DEF Duplicate, NoPilot, IInv, PhaseInv
  <2> QED BY <1>1, <2>1, StaysQuiet DEF Duplicate, NoPilot
<1>2. ASSUME NEW b \in Buckets, NEW p \in Pilots, PlaceBucket(b, p) PROVE IInv'
  BY <1>2, PlaceBucketIInv
<1>3. CASE Collect
  BY <1>3, CollectIInv
<1>4. CASE Remap
  BY <1>4, RemapIInv
<1>5. CASE Built
  BY <1>5, BuiltIInv
<1>6. CASE UNCHANGED vars
  BY <1>6 DEF vars, inputVars, IInv, TypeOK, PlacedInv, PhaseInv, FreeInv, SpareSuffices,
              At, Placed, Pos, SpareSlots
<1> QED BY <1>1, <1>2, <1>3, <1>4, <1>5, <1>6 DEF Next

----------------------------------------------------------------------------
\* The theorems.

THEOREM Invariance == Spec => []IInv
BY InitIInv, NextIInv, PTL DEF Spec

\* Every variable of a build keeps its type, for any inputs (BuildWith).
THEOREM TypeCorrect == Spec => []TypeOK
<1>1. IInv => TypeOK
  BY DEF IInv
<1> QED BY <1>1, Invariance, PTL

\* The remapping finds a spare position for every position it remaps and uses them all, for
\* any number of rows and positions (free[fi] stays within its slice).
THEOREM RemapHasSpare == Spec => []SpareSuffices
<1>1. IInv => SpareSuffices
  BY DEF IInv
<1> QED BY <1>1, Invariance, PTL

\* The width found for a half holds every pilot of it.
LEMMA WidthHolds ==
    ASSUME TypeOK, NEW b \in Buckets
    PROVE  Width(b) \in 1 .. PilotBits /\ \A a \in Half(b) : pilots[a] < 2 ^ Width(b)
<1> DEFINE Holds(w) == \A a \in Half(b) : pilots[a] < 2 ^ w
<1> DEFINE Widths == {w \in 1 .. PilotBits : Holds(w)}
<1>1. \A a \in Half(b) : pilots[a] \in Pilots
  BY DEF TypeOK, Half
<1>2. PilotBits \in Widths
  <2>1. 2 ^ PilotBits \in Nat /\ PilotBits \in 1 .. PilotBits
    BY SizesAssumption
  <2> QED BY <2>1, <1>1 DEF Pilots
<1>3. PICK w \in Widths : \A v \in Widths : w <= v
  <2>1. Widths \in SUBSET Nat /\ Widths # {}
    BY <1>2
  <2> HIDE DEF Widths
  <2> QED BY <2>1, LeastNatural
<1>4. ASSUME NEW v \in 1 .. w - 1 PROVE \E a \in Half(b) : pilots[a] >= 2 ^ v
  <2>1. v \in 1 .. PilotBits /\ v \notin Widths
    BY <1>3, SizesAssumption
  <2>2. PICK a \in Half(b) : ~ (pilots[a] < 2 ^ v)
    BY <2>1
  <2>3. 2 ^ v \in Nat /\ pilots[a] \in Nat
    <3>1. 2 ^ v \in Nat
      BY <2>1, SizesAssumption
    <3>2. pilots[a] \in Nat
      BY <1>1 DEF Pilots
    <3> QED BY <3>1, <3>2
  <2> QED BY <2>2, <2>3
<1>5. \E u \in 1 .. PilotBits :
         /\ \A a \in Half(b) : pilots[a] < 2 ^ u
         /\ \A v \in 1 .. u - 1 : \E a \in Half(b) : pilots[a] >= 2 ^ v
  BY <1>3, <1>4
<1> QED BY <1>5 DEF Width

\* So the packed table yields the pilots that were found.
LEMMA PackingExact ==
    ASSUME TypeOK, NEW b \in Buckets
    PROVE  PackedPilot(b) = pilots[b]
<1>1. Width(b) \in 1 .. PilotBits /\ b \in Half(b)
  BY WidthHolds DEF Half
<1>2. pilots[b] < 2 ^ Width(b)
  BY <1>1, WidthHolds
<1>3. 2 ^ Width(b) \in Nat \ {0} /\ pilots[b] \in Nat
  <2>1. 2 ^ Width(b) \in Nat \ {0}
    BY <1>1, SizesAssumption
  <2>2. pilots[b] \in Nat
    BY DEF TypeOK, Pilots
  <2> QED BY <2>1, <2>2
<1> QED BY <1>2, <1>3 DEF PackedPilot

LEMMA DoneIsPerfect == IInv => MinimalPerfect
<1> SUFFICES ASSUME IInv, pc = "done" PROVE MinimalPerfect
  BY DEF MinimalPerfect
<1>1. TypeOK /\ todo = {} /\ q = M /\ N \in Nat /\ N >= 1 /\ M \in Nat
  BY Sizes DEF IInv, PhaseInv
<1> DEFINE P(x) == posOf[x][PackedPilot(bucketOf[x])]
<1>2. ASSUME NEW x \in Hashes PROVE P(x) \in Positions
  <2>1. bucketOf[x] \in Buckets /\ pilots[bucketOf[x]] \in Pilots
    BY <1>1 DEF TypeOK
  <2>2. PackedPilot(bucketOf[x]) \in Pilots
    BY <1>1, <2>1, PackingExact
  <2> QED BY <2>2, <1>1 DEF TypeOK
<1>3. \A x \in Hashes : Slot(x) = IF P(x) >= N THEN free[P(x)] ELSE P(x)
  BY DEF Slot
<1>4. \A x \in Hashes : P(x) \in Nat /\ P(x) < M
  BY <1>2, <1>1 DEF Positions
<1>5. ASSUME NEW x \in Hashes PROVE Slot(x) \in 0 .. N - 1
  <2>1. free \in [N .. M - 1 -> 0 .. N - 1]
    BY DEF IInv, FreeInv
  <2>2. P(x) >= N => P(x) \in N .. M - 1
    BY <1>4, <1>1
  <2>3. P(x) < N => P(x) \in 0 .. N - 1
    BY <1>4, <1>1
  <2> HIDE DEF P
  <2> QED BY <2>1, <2>2, <2>3, <1>1, <1>3, <1>4
<1>6. \A r \in Rows : xs[r] \in Hashes /\ P(xs[r]) = At(r)
  <2> SUFFICES ASSUME NEW r \in Rows PROVE xs[r] \in Hashes /\ P(xs[r]) = At(r)
    OBVIOUS
  <2>1. xs[r] \in Hashes /\ bucketOf[xs[r]] \in Buckets
    BY <1>1 DEF TypeOK
  <2> QED BY <2>1, <1>1, PackingExact DEF At, Pos
<1>7. Placed = Rows
  BY <1>1 DEF Placed
<1>8. ASSUME NEW r \in Rows, NEW s \in Rows, r # s PROVE Slot(xs[r]) # Slot(xs[s])
  <2> DEFINE p == P(xs[r])
  <2> DEFINE o == P(xs[s])
  <2>1. p \in taken /\ o \in taken /\ p # o
    BY <1>6, <1>7, <1>8 DEF IInv, PlacedInv
  <2>2. p \in Nat /\ o \in Nat /\ p < q /\ o < q
    BY <1>1, <1>4, <1>6
  <2>3. /\ Slot(xs[r]) = IF p >= N THEN free[p] ELSE p
        /\ Slot(xs[s]) = IF o >= N THEN free[o] ELSE o
    BY <1>3, <1>6
  <2> HIDE DEF p, o
  <2>4. /\ p >= N => free[p] \notin taken
        /\ o >= N => free[o] \notin taken
        /\ p >= N /\ o >= N => free[p] # free[o]
    BY <2>1, <2>2 DEF IInv, FreeInv, SpareSlots
  <2> QED BY <2>1, <2>2, <2>3, <2>4, <1>1
<1> QED BY <1>5, <1>8 DEF MinimalPerfect

\* A table that BuildWith returns sends its rows to distinct slots below N, and no hash to a
\* slot from N on, whatever the rows, the mixing and the widths of the packed pilots.
THEOREM BuildsMinimalPerfect == Spec => []MinimalPerfect
BY DoneIsPerfect, Invariance, PTL

----------------------------------------------------------------------------
\* Sequences.

\* A slice is what it has element by element.
\* What is left of a sequence after its first a elements.
Rest(s, a) == SubSeq(s, a + 1, Len(s))

LEMMA RestIs ==
    ASSUME NEW S, NEW s \in Seq(S), NEW a \in Nat, a <= Len(s)
    PROVE  /\ Rest(s, a) \in Seq(S) /\ Len(Rest(s, a)) = Len(s) - a
           /\ \A j \in 1 .. Len(s) - a : Rest(s, a)[j] = s[a + j]
  <1>1. \A i \in a + 1 .. Len(s) : s[i] \in S
    OBVIOUS
  <1>2. Len(s) \in Nat
    OBVIOUS
  <1> QED
    BY <1>1, <1>2, SubSeqProperties DEF Rest

LEMMA RestTwice ==
    ASSUME NEW S, NEW s \in Seq(S), NEW a \in Nat, NEW c \in Nat, a + c <= Len(s)
    PROVE  Rest(Rest(s, a), c) = Rest(s, a + c)
  <1> DEFINE t == Rest(s, a)
             u == Rest(t, c)
             v == Rest(s, a + c)
             n == Len(s)
  <1>0. n \in Nat /\ a <= n /\ a + c \in Nat
    OBVIOUS
  <1>1. t \in Seq(S) /\ Len(t) = n - a /\ \A j \in 1 .. n - a : t[j] = s[a + j]
    BY <1>0, RestIs
  <1>2. v \in Seq(S) /\ Len(v) = n - (a + c) /\ \A j \in 1 .. n - (a + c) : v[j] = s[(a + c) + j]
    BY <1>0, RestIs
  <1> HIDE DEF t, v, n
  <1>3. c <= Len(t)
    BY <1>0, <1>1 DEF n
  <1>4. u \in Seq(S) /\ Len(u) = Len(t) - c /\ \A j \in 1 .. Len(t) - c : u[j] = t[c + j]
    <2>1. t \in Seq(S) /\ c \in Nat /\ c <= Len(t)
      BY <1>1, <1>3
    <2> QED
      BY <2>1, RestIs, Zenon
  <1> HIDE DEF u
  <1>5. Len(u) = Len(v) /\ Len(v) \in Nat
    BY <1>0, <1>1, <1>2, <1>4
  <1>6. ASSUME NEW j \in 1 .. Len(v) PROVE u[j] = v[j]
    <2>1. c + j \in 1 .. n - a /\ j \in 1 .. Len(t) - c /\ a + (c + j) = (a + c) + j
      BY <1>0, <1>1, <1>2, <1>5, <1>4
    <2>2. u[j] = t[c + j] /\ t[c + j] = s[a + (c + j)]
      BY <1>1, <1>4, <2>1
    <2>3. v[j] = s[(a + c) + j]
      BY <1>2
    <2> QED
      BY <2>1, <2>2, <2>3
  <1>7. u = v
    BY <1>2, <1>4, <1>5, <1>6, SeqEqual
  <1> QED
    BY <1>7 DEF t, u, v

----------------------------------------------------------------------------
\* Concatenations.

LEMMA ConcatStep ==
    ASSUME NEW S, NEW k \in Nat, NEW f \in [0 .. k - 1 -> Seq(S)]
    PROVE  /\ Records!Concat(f, 0) = <<>>
           /\ \A n \in 0 .. k : Records!Concat(f, n) \in Seq(S)
           /\ \A n \in 0 .. k - 1 : Records!Concat(f, n + 1) = Records!Concat(f, n) \o f[n]
  <1> DEFINE T == Seq(S)
             step == [i \in Nat |-> [acc \in T |-> IF i \in 0 .. k - 1 THEN acc \o f[i] ELSE acc]]
  <1>1. /\ <<>> \in T /\ step \in [Nat -> [T -> T]]
        /\ \A i \in 0 .. k - 1 : \A acc \in T : step[i][acc] = acc \o f[i]
    OBVIOUS
  <1> HIDE DEF T, step
  <1>2. PICK G \in [Nat -> T] : G[0] = <<>> /\ \A n \in Nat : G[n + 1] = step[n][G[n]]
    <2>1. PICK g : Iterates(T, <<>>, step, g)
      BY <1>1, Recursion
    <2> QED
      BY <2>1 DEF Iterates
  <1>3. ASSUME NEW n \in 0 .. k - 1 PROVE G[n + 1] = G[n] \o f[n]
    <2>1. n \in Nat /\ G[n] \in T
      BY <1>2
    <2>2. G[n + 1] = step[n][G[n]] /\ step[n][G[n]] = G[n] \o f[n]
      BY <1>1, <1>2, <2>1
    <2> QED
      BY <2>2
  <1>4. ASSUME NEW n \in 0 .. k PROVE Records!Concat(f, n) = G[n]
    <2> DEFINE Joins(g) == g = [m \in 0 .. n |-> IF m = 0 THEN <<>> ELSE g[m - 1] \o f[m - 1]]
               u == [m \in 0 .. n |-> G[m]]
               c == CHOOSE g : Joins(g)
               Apart == {m \in Nat : m <= n /\ c[m] # G[m]}
    <2>1. Joins(u)
      <3>1. ASSUME NEW m \in 0 .. n PROVE u[m] = IF m = 0 THEN <<>> ELSE u[m - 1] \o f[m - 1]
        <4>1. CASE m = 0
          BY <1>2, <4>1
        <4>2. CASE m # 0
          <5>1. m - 1 \in 0 .. k - 1 /\ (m - 1) + 1 = m /\ m - 1 \in 0 .. n
            BY <4>2
          <5>2. G[(m - 1) + 1] = G[m - 1] \o f[m - 1]
            BY <1>3, <5>1
          <5>3. u[m] = G[m] /\ u[m - 1] = G[m - 1]
            BY <5>1
          <5> HIDE DEF u
          <5> QED
            BY <4>2, <5>1, <5>2, <5>3
        <4> QED
          BY <4>1, <4>2
      <3>2. u = [m \in 0 .. n |-> u[m]]
        OBVIOUS
      <3> HIDE DEF u
      <3> QED
        BY <3>1, <3>2
    <2>2. Joins(c)
      <3> HIDE DEF Joins
      <3> QED
        BY <2>1
    <2>3. Records!Concat(f, n) = c[n]
      BY DEF Records!Concat
    <2> HIDE DEF c
    <2>4. \A m \in 0 .. n : c[m] = IF m = 0 THEN <<>> ELSE c[m - 1] \o f[m - 1]
      BY <2>2
    <2>5. Apart = {}
      <3> SUFFICES ASSUME Apart # {} PROVE FALSE
        OBVIOUS
      <3>1. PICK m \in Apart : \A o \in Apart : m <= o
        <4> HIDE DEF Apart
        <4>1. Apart \in SUBSET Nat
          BY DEF Apart
        <4> QED
          BY <4>1, LeastNatural
      <3>2. m \in 0 .. n /\ c[m] # G[m]
        OBVIOUS
      <3>3. m # 0
        BY <1>2, <2>4, <3>2
      <3>4. m - 1 \in Nat /\ m - 1 <= n /\ ~(m <= m - 1) /\ m - 1 \in 0 .. k - 1 /\ (m - 1) + 1 = m
        BY <3>2, <3>3
      <3>5. c[m - 1] = G[m - 1]
        BY <3>1, <3>4
      <3>6. c[m] = c[m - 1] \o f[m - 1]
        BY <2>4, <3>2, <3>3
      <3>7. G[m] = G[m - 1] \o f[m - 1]
        BY <1>3, <3>4
      <3> QED
        BY <3>2, <3>5, <3>6, <3>7
    <2>6. n \in Nat /\ n <= n
      OBVIOUS
    <2> QED
      BY <2>3, <2>5, <2>6
  <1>5. 0 \in 0 .. k /\ \A n \in 0 .. k - 1 : n \in 0 .. k /\ n + 1 \in 0 .. k
    OBVIOUS
  <1>6. \A n \in 0 .. k : G[n] \in Seq(S)
    BY <1>2 DEF T
  <1> QED
    BY <1>2, <1>3, <1>4, <1>5, <1>6

\* Piece i begins where the pieces before it end, and is there whatever comes after it.
PieceIn(f, k, i) ==
    LET lo == Len(Records!Concat(f, i))
        hi == Len(Records!Concat(f, i + 1))
    IN  /\ lo \in Nat /\ hi = lo + Len(f[i]) /\ hi <= Len(Records!Concat(f, k))
        /\ \A j \in 1 .. Len(f[i]) : Records!Concat(f, k)[lo + j] = f[i][j]

LEMMA ConcatPieces ==
    ASSUME NEW S, NEW k \in Nat, NEW f \in [0 .. k - 1 -> Seq(S)], NEW i \in 0 .. k - 1
    PROVE  PieceIn(f, k, i)
  <1> DEFINE C(n) == Records!Concat(f, n)
             lo == Len(C(i))
             hi == Len(C(i + 1))
             p == f[i]
             Holds(n) == hi <= Len(C(n)) /\ \A j \in 1 .. Len(p) : C(n)[lo + j] = p[j]
             Bad == {n \in Nat : n > i /\ n <= k /\ ~Holds(n)}
  <1>1. /\ \A n \in 0 .. k : C(n) \in Seq(S)
        /\ \A n \in 0 .. k - 1 : C(n + 1) = C(n) \o f[n]
    BY ConcatStep
  <1> HIDE DEF C
  <1>2. p \in Seq(S) /\ C(i) \in Seq(S) /\ C(i + 1) = C(i) \o p /\ i \in Nat /\ i + 1 \in 0 .. k
    <2>1. i \in 0 .. k /\ i + 1 \in 0 .. k
      OBVIOUS
    <2> QED
      BY <1>1, <2>1
  <1> HIDE DEF p
  <1>3. lo \in Nat /\ hi = lo + Len(p) /\ \A j \in 1 .. Len(p) : C(i + 1)[lo + j] = p[j]
    <2>1. \A j \in 1 .. Len(p) : lo + j \in 1 .. lo + Len(p) /\ ~(lo + j <= lo) /\ (lo + j) - lo = j
      BY <1>2
    <2> QED
      BY <1>2, <2>1, ConcatProperties
  <1>4. Bad = {}
    <2> SUFFICES ASSUME Bad # {} PROVE FALSE
      OBVIOUS
    <2>1. PICK n \in Bad : \A o \in Bad : n <= o
      <3> HIDE DEF Bad
      <3>1. Bad \in SUBSET Nat
        BY DEF Bad
      <3> QED
        BY <3>1, LeastNatural
    <2>2. n \in Nat /\ n > i /\ n <= k /\ ~Holds(n)
      OBVIOUS
    <2>3. n # i + 1
      <3>1. hi = Len(C(i + 1)) /\ hi \in Nat
        BY <1>2, <1>3
      <3> SUFFICES ASSUME n = i + 1 PROVE FALSE
        OBVIOUS
      <3>2. Holds(n)
        BY <1>3, <3>1
      <3> QED
        BY <2>2, <3>2
    <2> DEFINE m == n - 1
    <2>4. m \in Nat /\ m > i /\ m <= k /\ m \in 0 .. k - 1 /\ ~(n <= m) /\ n = m + 1
      BY <1>2, <2>2, <2>3
    <2> HIDE DEF m
    <2>5. Holds(m)
      <3> HIDE DEF Holds
      <3>1. ~(m \in Bad)
        BY <2>1, <2>4
      <3> QED
        BY <2>4, <3>1
    <2>6. C(m) \in Seq(S) /\ f[m] \in Seq(S) /\ C(n) = C(m) \o f[m]
      <3>1. m \in 0 .. k
        BY <2>4
      <3>2. C(m) \in Seq(S) /\ C(m + 1) = C(m) \o f[m]
        BY <1>1, <2>4, <3>1
      <3>3. f[m] \in Seq(S)
        BY <2>4
      <3> QED
        BY <2>4, <3>2, <3>3
    <2>7. Len(C(n)) = Len(C(m)) + Len(f[m]) /\ Len(C(m)) \in Nat /\ Len(f[m]) \in Nat
          /\ \A j \in 1 .. Len(C(m)) : C(n)[j] = C(m)[j]
      <3> DEFINE s == C(m)
                 t == f[m]
                 u == C(n)
      <3>1. s \in Seq(S) /\ t \in Seq(S) /\ u = s \o t
        BY <2>6
      <3> HIDE DEF s, t, u, Holds, Bad, lo, hi
      <3>2. /\ Len(u) = Len(s) + Len(t) /\ Len(s) \in Nat /\ Len(t) \in Nat
            /\ \A j \in 1 .. Len(s) : u[j] = s[j]
        BY <3>1, Joined
      <3> QED
        BY <3>2 DEF s, t, u
    <2>8. hi <= Len(C(n))
      BY <1>3, <1>2, <2>5, <2>7
    <2>9. ASSUME NEW j \in 1 .. Len(p) PROVE C(n)[lo + j] = p[j]
      <3>1. lo + j \in 1 .. Len(C(m))
        <4>1. Len(p) \in Nat /\ hi <= Len(C(m)) /\ j \in 1 .. Len(p)
          BY <1>2, <2>5
        <4> HIDE DEF lo, hi
        <4> QED
          BY <1>3, <2>7, <4>1
      <3> QED
        BY <2>5, <2>7, <3>1
    <2> QED
      BY <2>2, <2>8, <2>9
  <1>5. Holds(k)
    <2>1. k > i /\ k <= k
      BY <1>2
    <2> QED
      BY <1>4, <2>1
  <1> HIDE DEF Holds, lo, hi
  <1>6. lo \in Nat /\ hi = lo + Len(p) /\ hi <= Len(C(k)) /\ \A j \in 1 .. Len(p) : C(k)[lo + j] = p[j]
    BY <1>3, <1>5 DEF Holds
  <1> QED
    BY <1>6 DEF C, lo, hi, p, PieceIn

\* A record behind its length is found by skipping the ones before it.
LEMMA NthIs ==
    ASSUME NEW S, NEW k \in Nat, NEW f \in [0 .. k - 1 -> Seq(S)],
           \A j \in 0 .. k - 1 : f[j][1].len \in Nat /\ Len(f[j]) = f[j][1].len + 1,
           NEW i \in 0 .. k - 1
    PROVE  Records!NthRecord(Records!Concat(f, k), i) = Rest(f[i], 1)
  <1> DEFINE R == Records!Concat(f, k)
             at(j) == Len(Records!Concat(f, j))
             size(j) == f[j][1].len
             W(j) == Rest(R, at(j))
  <1>1. /\ R \in Seq(S) /\ at(0) = 0
        /\ \A j \in 0 .. k : at(j) \in Nat
    <2>1. /\ Records!Concat(f, 0) = <<>>
          /\ \A n \in 0 .. k : Records!Concat(f, n) \in Seq(S)
      BY ConcatStep
    <2>2. k \in 0 .. k
      OBVIOUS
    <2> QED
      BY <2>1, <2>2
  <1>2. ASSUME NEW j \in 0 .. k - 1
        PROVE  /\ at(j + 1) = at(j) + Len(f[j]) /\ at(j + 1) <= Len(R)
               /\ \A o \in 1 .. Len(f[j]) : R[at(j) + o] = f[j][o]
    <2>1. PieceIn(f, k, j)
      BY ConcatPieces
    <2> QED
      BY <2>1 DEF PieceIn
  <1>3. \A j \in 0 .. k - 1 : size(j) \in Nat /\ Len(f[j]) = size(j) + 1 /\ f[j] \in Seq(S)
    OBVIOUS
  <1> HIDE DEF R, at
  <1>4. ASSUME NEW j \in 0 .. k - 1
        PROVE  /\ W(j) \in Seq(S) /\ W(j) # <<>> /\ Head(W(j)).len = size(j)
               /\ \A o \in 1 .. Len(f[j]) : W(j)[o] = f[j][o]
               /\ Len(W(j)) = Len(R) - at(j) /\ Len(f[j]) <= Len(W(j))
               /\ Records!SkipRecord(W(j)) = W(j + 1)
    <2>1. at(j) \in Nat /\ at(j + 1) = at(j) + (size(j) + 1) /\ at(j + 1) <= Len(R) /\ size(j) \in Nat
      <3>1. j \in 0 .. k
        OBVIOUS
      <3> QED
        BY <1>1, <1>2, <1>3, <3>1
    <2>2. Len(R) \in Nat
      BY <1>1
    <2> HIDE DEF size
    <2>3. at(j) <= Len(R)
      BY <2>1, <2>2
    <2>4. W(j) \in Seq(S) /\ Len(W(j)) = Len(R) - at(j)
          /\ \A o \in 1 .. Len(R) - at(j) : W(j)[o] = R[at(j) + o]
      BY <1>1, <2>1, <2>3, RestIs
    <2> HIDE DEF W
    <2>5. size(j) + 1 <= Len(W(j)) /\ Len(W(j)) \in Nat
      BY <2>1, <2>2, <2>4
    <2>6. \A o \in 1 .. size(j) + 1 : W(j)[o] = f[j][o]
      <3>1. \A o \in 1 .. size(j) + 1 : o \in 1 .. Len(R) - at(j)
        BY <2>1, <2>2
      <3> QED
        BY <1>2, <1>3, <2>4, <3>1
    <2>7. W(j) # <<>> /\ Head(W(j)) = W(j)[1] /\ W(j)[1] = f[j][1]
      <3>1. 1 \in 1 .. size(j) + 1 /\ Len(W(j)) > 0
        BY <2>1, <2>5
      <3>2. W(j)[1] = f[j][1]
        BY <2>6, <3>1
      <3>3. W(j) # <<>>
        BY <3>1
      <3>4. Head(W(j)) = W(j)[1]
        BY <2>4, <3>3
      <3> QED
        BY <3>2, <3>3, <3>4
    <2>8. Head(W(j)).len = size(j)
      BY <2>7 DEF size
    <2>9. Records!SkipRecord(W(j)) = Rest(W(j), size(j) + 1)
      <3>1. (size(j) + 1) + 1 = size(j) + 2
        BY <2>1
      <3> QED
        BY <2>8, <3>1 DEF Records!SkipRecord, Rest
    <2>10. Rest(W(j), size(j) + 1) = W(j + 1)
      <3>1. size(j) + 1 \in Nat /\ at(j) + (size(j) + 1) <= Len(R)
        BY <2>1
      <3>2. Rest(Rest(R, at(j)), size(j) + 1) = Rest(R, at(j) + (size(j) + 1))
        BY <1>1, <2>1, <3>1, RestTwice
      <3> QED
        BY <2>1, <3>2 DEF W
    <2>11. Len(f[j]) = size(j) + 1
      BY <1>3
    <2> QED
      BY <2>4, <2>5, <2>6, <2>7, <2>8, <2>9, <2>10, <2>11
  <1>5. W(0) = R
    <2>1. 0 + 1 = 1 /\ SubSeq(R, 1, Len(R)) = R
      BY <1>1
    <2> QED
      BY <1>1, <2>1 DEF Rest
  <1> HIDE DEF W, size
  <1> DEFINE Skips(g) ==
                 g = [j \in 0 .. i |->
                         IF j = 0 THEN R
                         ELSE IF g[j - 1] = <<>> THEN <<>> ELSE Records!SkipRecord(g[j - 1])]
             u == [j \in 0 .. i |-> W(j)]
             c == CHOOSE g : Skips(g)
             Apart == {j \in Nat : j <= i /\ c[j] # W(j)}
  <1>6. \A j \in 0 .. i : j # 0 => j - 1 \in 0 .. i /\ j - 1 \in 0 .. k - 1 /\ (j - 1) + 1 = j
    OBVIOUS
  <1>7. Skips(u)
    <2>1. \A j \in 0 .. i : u[j] = W(j)
      OBVIOUS
    <2>2. u = [j \in 0 .. i |-> u[j]]
      OBVIOUS
    <2> HIDE DEF u
    <2>3. ASSUME NEW j \in 0 .. i
          PROVE  u[j] = IF j = 0 THEN R
                        ELSE IF u[j - 1] = <<>> THEN <<>> ELSE Records!SkipRecord(u[j - 1])
      <3>1. CASE j = 0
        BY <1>5, <2>1, <3>1
      <3>2. CASE j # 0
        <4>1. u[j - 1] = W(j - 1) /\ W(j - 1) # <<>> /\ Records!SkipRecord(W(j - 1)) = W(j)
          BY <1>4, <1>6, <2>1, <3>2
        <4> QED
          BY <2>1, <3>2, <4>1
      <3> QED
        BY <3>1, <3>2
    <2> QED
      BY <2>2, <2>3
  <1>8. Skips(c)
    <2> HIDE DEF Skips
    <2> QED
      BY <1>7
  <1>9. Records!NthRecord(R, i) = IF c[i] = <<>> THEN <<>> ELSE SubSeq(c[i], 2, Head(c[i]).len + 1)
    BY DEF Records!NthRecord
  <1> HIDE DEF c
  <1>10. \A j \in 0 .. i : c[j] = IF j = 0 THEN R
                                  ELSE IF c[j - 1] = <<>> THEN <<>> ELSE Records!SkipRecord(c[j - 1])
    BY <1>8
  <1>11. Apart = {}
    <2> SUFFICES ASSUME Apart # {} PROVE FALSE
      OBVIOUS
    <2>1. PICK j \in Apart : \A o \in Apart : j <= o
      <3> HIDE DEF Apart
      <3>1. Apart \in SUBSET Nat
        BY DEF Apart
      <3> QED
        BY <3>1, LeastNatural
    <2>2. j \in 0 .. i /\ c[j] # W(j)
      OBVIOUS
    <2>3. j # 0
      BY <1>5, <1>10, <2>2
    <2>4. j - 1 \in Nat /\ j - 1 <= i /\ ~(j <= j - 1)
      BY <2>2, <2>3
    <2>5. c[j - 1] = W(j - 1)
      BY <2>1, <2>4
    <2>6. W(j - 1) # <<>> /\ Records!SkipRecord(W(j - 1)) = W(j)
      BY <1>4, <1>6, <2>2, <2>3
    <2> QED
      BY <1>10, <2>2, <2>3, <2>5, <2>6
  <1>12. c[i] = W(i)
    <2>1. i \in Nat /\ i <= i
      OBVIOUS
    <2> QED
      BY <1>11, <2>1
  <1>13. SubSeq(W(i), 2, Head(W(i)).len + 1) = Rest(f[i], 1)
    <2> DEFINE x == Rest(f[i], 1)
               n == size(i)
    <2>1. f[i] \in Seq(S) /\ Len(f[i]) = n + 1 /\ n \in Nat
      BY <1>3 DEF size
    <2> HIDE DEF n
    <2>2. x \in Seq(S) /\ Len(x) = n /\ \A o \in 1 .. n : x[o] = f[i][1 + o]
      <3>1. 1 \in Nat /\ 1 <= Len(f[i]) /\ Len(f[i]) - 1 = n
        BY <2>1
      <3> HIDE DEF x
      <3>2. x \in Seq(S) /\ Len(x) = Len(f[i]) - 1 /\ \A o \in 1 .. Len(f[i]) - 1 : x[o] = f[i][1 + o]
        BY <2>1, <3>1, RestIs DEF x
      <3> QED
        BY <3>1, <3>2
    <2> HIDE DEF x
    <2>3. /\ W(i) \in Seq(S) /\ Head(W(i)).len = n /\ n + 1 <= Len(W(i))
          /\ \A o \in 1 .. n + 1 : W(i)[o] = f[i][o]
      BY <1>4, <2>1 DEF n
    <2>4. \A o \in 1 .. n : W(i)[1 + o] = x[o]
      <3>1. \A o \in 1 .. n : 1 + o \in 1 .. n + 1
        BY <2>1
      <3> QED
        BY <2>2, <2>3, <3>1
    <2>5. 1 \in Nat /\ 1 + Len(x) <= Len(W(i)) /\ \A o \in 1 .. Len(x) : W(i)[1 + o] = x[o]
      BY <2>1, <2>2, <2>3, <2>4
    <2>6. SubSeq(W(i), 1 + 1, 1 + Len(x)) = x
      BY <2>2, <2>3, <2>5, SliceIs
    <2>7. 1 + 1 = 2 /\ 1 + Len(x) = n + 1
      BY <2>1, <2>2
    <2> QED
      BY <2>3, <2>6, <2>7 DEF x
  <1>14. W(i) # <<>>
    BY <1>4
  <1> QED
    BY <1>9, <1>12, <1>13, <1>14 DEF R

----------------------------------------------------------------------------
\* The file.

\* What the table gives to the rows, and the form chosen for the records.
RowsOK ==
    /\ entry \in [Slots -> Keys] /\ slotOf \in [Keys -> Slots]
    /\ \A s \in Slots : slotOf[entry[s]] = s
FormOK ==
    /\ length \in [Slots -> Nat \ {0}] /\ compressed \in BOOLEAN /\ lean \in BOOLEAN
    /\ shift \in Nat /\ shift \in Shifts \cup {0} /\ packs \subseteq Records!Blocks

Cell == [row : Slots, at : Nat] \cup [len : Nat]
            \cup [method : {"lz4", "stored"}] \cup [lz4 : Records!Blocks]

LEMMA RecordIs ==
    ASSUME FormOK, NEW s \in Slots
    PROVE  /\ Records!Record(s) \in Seq(Cell)
           /\ Len(Records!Record(s)) = length[s] /\ length[s] \in Nat \ {0}
           /\ \A i \in 1 .. length[s] : Records!Record(s)[i] = [row |-> s, at |-> i]
  <1> DEFINE n == length[s]
             rec == Records!Record(s)
  <1>1. n \in Nat \ {0}
    BY DEF FormOK
  <1>2. rec = [i \in 1 .. n |-> [row |-> s, at |-> i]]
    BY DEF Records!Record
  <1>3. \A i \in 1 .. n : [row |-> s, at |-> i] \in Cell
    BY <1>1 DEF Cell
  <1> HIDE DEF n, rec
  <1>4. rec \in [1 .. n -> Cell] /\ \A i \in 1 .. n : rec[i] = [row |-> s, at |-> i]
    BY <1>2, <1>3
  <1>5. rec \in Seq(Cell) /\ Len(rec) = n
    <2>1. DOMAIN rec = 1 .. n /\ n \in Nat
      BY <1>1, <1>4
    <2>2. rec \in Seq(Cell)
      BY <1>1, <1>4
    <2> QED
      BY <2>1, <2>2
  <1> QED
    BY <1>1, <1>4, <1>5 DEF n, rec

\* The records of two slots differ, so a whole record says which row it is of.
LEMMA RowOfRecord ==
    ASSUME FormOK, NEW s \in Slots
    PROVE  Records!RowOf(Records!Record(s)) = entry[s]
  <1>1. ASSUME NEW t \in Slots, Records!Record(s) = Records!Record(t) PROVE t = s
    <2>1. length[s] \in Nat \ {0} /\ length[t] \in Nat \ {0}
      BY RecordIs
    <2>2. Records!Record(s)[1] = [row |-> s, at |-> 1] /\ Records!Record(t)[1] = [row |-> t, at |-> 1]
      BY <2>1, RecordIs
    <2>3. [row |-> s, at |-> 1].row = [row |-> t, at |-> 1].row
      BY <1>1, <2>2
    <2> QED
      BY <2>3
  <1>2. Records!Slots = Slots
    BY DEF Records!Slots, Slots
  <1>3. (CHOOSE t \in Slots : Records!Record(s) = Records!Record(t)) = s
    BY <1>1
  <1> QED
    BY <1>2, <1>3 DEF Records!RowOf

\* An answer is right for a key: the row of the key, or else nothing, or in a lean file a row
\* with the fingerprint of the key.
Answered(k, res) ==
    /\ res \in Records!RowKeys \cup {NotFound}
    /\ IF k \in Records!RowKeys THEN res = k
       ELSE res = NotFound \/ (lean /\ print[res] = print[k])

LEMMA VerifiedAnswers ==
    ASSUME RowsOK, FormOK, NEW k \in Keys
    PROVE  Answered(k, Records!Verified(k, Records!Record(slotOf[k])))
  <1> DEFINE s == slotOf[k]
             row == entry[s]
             res == Records!Verified(k, Records!Record(s))
  <1>1. s \in Slots /\ row \in Keys /\ row # Corrupt
    BY FormsAssumption DEF RowsOK
  <1>2. Records!RowOf(Records!Record(s)) = row
    BY <1>1, RowOfRecord
  <1>3. res = IF IF lean THEN print[k] = print[row] ELSE k = row THEN row ELSE NotFound
    BY <1>1, <1>2 DEF Records!Verified
  <1>4. Records!RowKeys = {entry[t] : t \in Slots}
    BY DEF Records!RowKeys, Records!Slots, Slots
  <1>5. row \in Records!RowKeys
    BY <1>1, <1>4
  <1>6. k \in Records!RowKeys => k = row
    <2> SUFFICES ASSUME k \in Records!RowKeys PROVE k = row
      OBVIOUS
    <2>1. PICK t \in Slots : k = entry[t]
      BY <1>4
    <2>2. s = t
      BY <2>1 DEF RowsOK
    <2> QED
      BY <2>1, <2>2
  <1> HIDE DEF row, res
  <1>7. res \in Records!RowKeys \cup {NotFound}
    BY <1>3, <1>5
  <1>8. k \in Records!RowKeys => res = k
    BY <1>3, <1>6
  <1>9. k \notin Records!RowKeys => res = NotFound \/ (lean /\ print[res] = print[k])
    BY <1>3, <1>5
  <1> QED
    BY <1>7, <1>8, <1>9 DEF Answered, res

----------------------------------------------------------------------------
\* Blocks.

LEMMA BlockSizes ==
    ASSUME FormOK
    PROVE  /\ Records!Per \in Nat \ {0} /\ Records!NumBlocks \in Nat
           /\ N <= Records!NumBlocks * Records!Per
           /\ \A b \in Records!Blocks : b \in Nat /\ b * Records!Per < N
           /\ Records!Blocks = 0 .. Records!NumBlocks - 1
  <1> DEFINE P == Records!Per
             B == Records!NumBlocks
  <1>1. P \in Nat \ {0}
    BY PowerCounts DEF FormOK, Records!Per
  <1>2. N \in Nat /\ N >= 1
    BY Sizes
  <1>3. B = (N + P - 1) \div P
    BY DEF Records!NumBlocks
  <1> HIDE DEF P, B
  <1>4. N + P - 1 \in Nat
    BY <1>1, <1>2
  <1>5. B \in Nat /\ B * P <= N + P - 1 /\ N + P - 1 < (B + 1) * P
    BY <1>1, <1>3, <1>4, Quotient
  <1>6. (B + 1) * P = B * P + P /\ B * P \in Nat
    BY <1>1, <1>5
  <1>7. N <= B * P
    BY <1>1, <1>2, <1>5, <1>6
  <1>8. ASSUME NEW b \in 0 .. B - 1 PROVE b \in Nat /\ b * P < N
    <2>1. b \in Nat /\ b < B
      BY <1>5
    <2>2. (b + 1) * P <= B * P
      BY <1>1, <1>5, <2>1, Multiples
    <2>3. (b + 1) * P = b * P + P /\ b * P \in Nat
      BY <1>1, <2>1
    <2> QED
      BY <1>1, <1>2, <1>5, <1>6, <2>1, <2>2, <2>3
  <1>9. Records!Blocks = 0 .. B - 1
    BY DEF Records!Blocks, B
  <1> QED
    BY <1>1, <1>5, <1>7, <1>8, <1>9 DEF P, B

\* Block b has the slots from b * Per on, and the last block what is left.
LEMMA BlockSlots ==
    ASSUME FormOK, NEW b \in Records!Blocks
    PROVE  /\ Records!Held(b) \in Nat \ {0} /\ b * Records!Per + Records!Held(b) <= N
           /\ \A i \in 0 .. Records!Held(b) - 1 : b * Records!Per + i \in Slots
  <1> DEFINE P == Records!Per
             lo == b * P
             h == Records!Held(b)
  <1>1. P \in Nat \ {0} /\ b \in Nat /\ lo < N /\ lo \in Nat
    BY BlockSizes
  <1>2. h = IF N - lo < P THEN N - lo ELSE P
    BY DEF Records!Held
  <1> HIDE DEF P, lo, h
  <1>3. h \in Nat \ {0} /\ lo + h <= N
    BY <1>1, <1>2, Sizes
  <1>4. \A i \in 0 .. h - 1 : lo + i \in Slots
    BY <1>1, <1>3, Sizes DEF Slots
  <1> QED
    BY <1>3, <1>4 DEF P, lo, h

\* A slot is in its block, at its place.
LEMMA SlotInBlock ==
    ASSUME FormOK, NEW s \in Slots
    PROVE  /\ s \div Records!Per \in Records!Blocks
           /\ s % Records!Per \in 0 .. Records!Held(s \div Records!Per) - 1
           /\ (s \div Records!Per) * Records!Per + (s % Records!Per) = s
  <1> DEFINE P == Records!Per
             B == Records!NumBlocks
             b == s \div P
             r == s % P
  <1>1. P \in Nat \ {0} /\ B \in Nat /\ N <= B * P /\ Records!Blocks = 0 .. B - 1
    BY BlockSizes
  <1>2. s \in Nat /\ s < N /\ N \in Nat
    BY Sizes DEF Slots
  <1> HIDE DEF P, B
  <1>3. b \in Nat /\ r \in 0 .. P - 1 /\ b * P <= s /\ s < (b + 1) * P
    BY <1>1, <1>2, Quotient
  <1>4. s = P * b + r
    BY <1>1, <1>2
  <1> HIDE DEF b, r
  <1>5. b * P + r = s /\ b * P \in Nat /\ B * P \in Nat /\ (b + 1) * P = b * P + P
    BY <1>1, <1>3, <1>4
  <1>6. b < B
    <2>1. CASE b = B
      BY <1>1, <1>2, <1>3, <1>5, <2>1
    <2>2. CASE B < b
      <3>1. (B + 1) * P <= b * P /\ (B + 1) * P = B * P + P
        BY <1>1, <1>3, <2>2, Multiples
      <3> QED
        BY <1>1, <1>2, <1>3, <1>5, <3>1
    <2> QED
      BY <1>1, <1>3, <2>1, <2>2
  <1>7. b \in Records!Blocks
    BY <1>1, <1>3, <1>6
  <1>8. Records!Held(b) \in Nat
    BY <1>7, BlockSlots
  <1>9. Records!Held(b) = IF N - b * P < P THEN N - b * P ELSE P
    BY DEF Records!Held, P
  <1>10. r < Records!Held(b)
    BY <1>1, <1>2, <1>3, <1>5, <1>8, <1>9
  <1>11. r \in 0 .. Records!Held(b) - 1
    BY <1>3, <1>8, <1>10
  <1>12. b * P + r = s
    BY <1>5
  <1> QED
    BY <1>7, <1>11, <1>12, Zenon DEF P, b, r

\* A record behind its length.
LEMMA PrefixedIs ==
    ASSUME FormOK, NEW s \in Slots
    PROVE  /\ Records!Prefixed(s) \in Seq(Cell)
           /\ Records!Prefixed(s)[1].len = length[s] /\ length[s] \in Nat
           /\ Len(Records!Prefixed(s)) = length[s] + 1
           /\ Rest(Records!Prefixed(s), 1) = Records!Record(s)
  <1> DEFINE rec == Records!Record(s)
             n == length[s]
             head == [len |-> n]
             pre == Records!Prefixed(s)
  <1>1. rec \in Seq(Cell) /\ Len(rec) = n /\ n \in Nat
    BY RecordIs
  <1>2. head \in Cell /\ head.len = n
    BY <1>1 DEF Cell
  <1>3. pre = <<head>> \o rec
    BY DEF Records!Prefixed
  <1> HIDE DEF rec, n, head, pre
  <1>4. <<head>> \in Seq(Cell) /\ Len(<<head>>) = 1 /\ <<head>>[1] = head
    BY <1>2
  <1>5. pre \in Seq(Cell) /\ Len(pre) = n + 1
    BY <1>1, <1>3, <1>4, ConcatProperties
  <1>6. pre[1] = head /\ \A j \in 1 .. n : pre[1 + j] = rec[j]
    <2>1. /\ 1 \in 1 .. 1 + n /\ 1 <= 1
          /\ \A j \in 1 .. n : 1 + j \in 1 .. 1 + n /\ ~(1 + j <= 1) /\ (1 + j) - 1 = j
      BY <1>1
    <2> QED
      BY <1>1, <1>3, <1>4, <2>1, ConcatProperties
  <1>7. Rest(pre, 1) = rec
    <2>1. 1 \in Nat /\ 1 + Len(rec) <= Len(pre) /\ 1 + Len(rec) = Len(pre)
      BY <1>1, <1>5
    <2>2. \A j \in 1 .. Len(rec) : pre[1 + j] = rec[j]
      BY <1>1, <1>6
    <2>3. SubSeq(pre, 1 + 1, 1 + Len(rec)) = rec
      BY <1>1, <1>5, <2>1, <2>2, SliceIs
    <2> QED
      BY <2>1, <2>3 DEF Rest
  <1> QED
    BY <1>1, <1>2, <1>5, <1>6, <1>7 DEF rec, n, pre

\* The records of a block, one behind the other, are found by their places.
LEMMA RawIs ==
    ASSUME FormOK, NEW b \in Records!Blocks
    PROVE  /\ Records!Raw(b) \in Seq(Cell)
           /\ \A i \in 0 .. Records!Held(b) - 1 :
                 Records!NthRecord(Records!Raw(b), i) = Records!Record(b * Records!Per + i)
  <1> DEFINE k == Records!Held(b)
             lo == b * Records!Per
             f == [i \in 0 .. k - 1 |-> Records!Prefixed(lo + i)]
  <1>1. Records!Raw(b) = Records!Concat(f, k)
    BY DEF Records!Raw
  <1>2. k \in Nat /\ \A i \in 0 .. k - 1 : lo + i \in Slots
    BY BlockSlots
  <1> HIDE DEF k, lo
  <1>3. \A i \in 0 .. k - 1 : f[i] = Records!Prefixed(lo + i)
    OBVIOUS
  <1>4. \A i \in 0 .. k - 1 : /\ f[i] \in Seq(Cell) /\ f[i][1].len \in Nat
                              /\ Len(f[i]) = f[i][1].len + 1
                              /\ Rest(f[i], 1) = Records!Record(lo + i)
    BY <1>2, <1>3, PrefixedIs
  <1>5. f \in [0 .. k - 1 -> Seq(Cell)]
    BY <1>4
  <1> HIDE DEF f
  <1>6. Records!Concat(f, k) \in Seq(Cell)
    <2>1. k \in 0 .. k
      BY <1>2
    <2> QED
      BY <1>2, <1>5, <2>1, ConcatStep
  <1>7. ASSUME NEW i \in 0 .. k - 1
        PROVE  Records!NthRecord(Records!Concat(f, k), i) = Records!Record(lo + i)
    <2>1. \A j \in 0 .. k - 1 : f[j][1].len \in Nat /\ Len(f[j]) = f[j][1].len + 1
      BY <1>4
    <2>2. Records!NthRecord(Records!Concat(f, k), i) = Rest(f[i], 1)
      BY <1>2, <1>5, <2>1, NthIs
    <2> QED
      BY <1>4, <2>2
  <1> QED
    BY <1>1, <1>6, <1>7 DEF k, lo

\* A block is its method and what the method makes of it; decoding takes that back.
LEMMA BlockIs ==
    ASSUME FormOK, NEW b \in Records!Blocks
    PROVE  /\ Records!Block(b) \in Seq(Cell) /\ Len(Records!Block(b)) >= 1
           /\ Records!Decode(Records!Block(b)) = Records!Raw(b)
  <1> DEFINE blk == Records!Block(b)
             raw == Records!Raw(b)
  <1>1. raw \in Seq(Cell)
    BY RawIs
  <1>2. [method |-> "lz4"] \in Cell /\ [method |-> "stored"] \in Cell /\ [lz4 |-> b] \in Cell
    BY DEF Cell
  <1> HIDE DEF raw
  <1>3. CASE b \in packs
    <2>1. blk = <<[method |-> "lz4"], [lz4 |-> b]>>
      BY <1>3 DEF Records!Block
    <2>2. /\ blk \in Seq(Cell) /\ Len(blk) = 2 /\ blk # <<>>
          /\ Head(blk) = [method |-> "lz4"] /\ blk[2] = [lz4 |-> b]
      BY <1>2, <2>1
    <2> HIDE DEF blk
    <2>3. Head(blk).method = "lz4" /\ blk[2].lz4 = b
      BY <2>2
    <2>4. Records!Decode(blk) = raw
      BY <2>2, <2>3 DEF Records!Decode, raw
    <2> QED
      BY <2>2, <2>4 DEF blk, raw
  <1>4. CASE b \notin packs
    <2> DEFINE head == [method |-> "stored"]
    <2>1. blk = <<head>> \o raw
      BY <1>4 DEF Records!Block, raw
    <2>2. head.method = "stored" /\ head \in Cell
      BY <1>2
    <2> HIDE DEF blk, head
    <2>3. blk \in Seq(Cell) /\ Len(blk) = Len(raw) + 1 /\ Len(raw) \in Nat
      BY <1>1, <2>1, <2>2
    <2>4. blk[1] = head /\ \A j \in 1 .. Len(raw) : blk[1 + j] = raw[j]
      <3>1. <<head>> \in Seq(Cell) /\ Len(<<head>>) = 1 /\ <<head>>[1] = head
        BY <2>2
      <3>2. /\ 1 \in 1 .. 1 + Len(raw) /\ 1 <= 1
            /\ \A j \in 1 .. Len(raw) : 1 + j \in 1 .. 1 + Len(raw) /\ ~(1 + j <= 1) /\ (1 + j) - 1 = j
        BY <2>3
      <3> QED
        BY <1>1, <2>1, <3>1, <3>2, ConcatProperties
    <2>5. blk # <<>> /\ Head(blk) = head
      <3>1. blk # <<>>
        BY <2>3
      <3> QED
        BY <2>3, <2>4, <3>1
    <2>6. Tail(blk) = raw
      <3>1. Tail(blk) \in Seq(Cell) /\ Len(Tail(blk)) = Len(blk) - 1
            /\ \A j \in 1 .. Len(blk) - 1 : Tail(blk)[j] = blk[j + 1]
        BY <2>3, <2>5, HeadTailProperties
      <3>2. Len(Tail(blk)) = Len(raw)
        BY <2>3, <3>1
      <3>3. ASSUME NEW j \in 1 .. Len(raw) PROVE Tail(blk)[j] = raw[j]
        <4>1. j \in 1 .. Len(blk) - 1 /\ j + 1 = 1 + j
          BY <2>3
        <4> QED
          BY <2>4, <3>1, <4>1
      <3> QED
        BY <1>1, <3>1, <3>2, <3>3, SeqEqual
    <2>7. Records!Decode(blk) = raw
      BY <2>2, <2>5, <2>6 DEF Records!Decode
    <2>8. Len(blk) >= 1
      BY <2>3
    <2> QED
      BY <2>3, <2>7, <2>8 DEF blk, raw
  <1> QED
    BY <1>3, <1>4

----------------------------------------------------------------------------
\* Offsets.

LEMMA PiecesAre ==
    ASSUME FormOK
    PROVE  /\ Records!Pieces \in Nat /\ Records!Pieces = IF compressed THEN Records!NumBlocks ELSE N
           /\ Records!Piece \in [0 .. Records!Pieces - 1 -> Seq(Cell)]
           /\ \A i \in 0 .. Records!Pieces - 1 :
                 /\ Records!Piece[i] = IF compressed THEN Records!Block(i) ELSE Records!Record(i)
                 /\ Len(Records!Piece[i]) >= 1
  <1> DEFINE k == Records!Pieces
             f == Records!Piece
  <1>1. k = IF compressed THEN Records!NumBlocks ELSE N
    BY DEF Records!Pieces
  <1>2. f = [i \in 0 .. k - 1 |-> IF compressed THEN Records!Block(i) ELSE Records!Record(i)]
    BY DEF Records!Piece
  <1> HIDE DEF k, f
  <1>3. k \in Nat
    BY <1>1, BlockSizes, Sizes
  <1>4. ASSUME NEW i \in 0 .. k - 1 PROVE f[i] \in Seq(Cell) /\ Len(f[i]) >= 1
    <2>1. CASE compressed
      <3>1. i \in Records!Blocks /\ f[i] = Records!Block(i)
        BY <1>1, <1>2, <2>1, BlockSizes
      <3> QED
        BY <3>1, BlockIs
    <2>2. CASE ~compressed
      <3>1. i \in Slots /\ f[i] = Records!Record(i)
        BY <1>1, <1>2, <2>2 DEF Slots
      <3>2. f[i] \in Seq(Cell) /\ Len(f[i]) = length[i] /\ length[i] \in Nat \ {0}
        BY <3>1, RecordIs
      <3> QED
        BY <3>2
    <2> QED
      BY <2>1, <2>2
  <1>5. f \in [0 .. k - 1 -> Seq(Cell)]
    BY <1>2, <1>4
  <1>6. \A i \in 0 .. k - 1 : f[i] = IF compressed THEN Records!Block(i) ELSE Records!Record(i)
    BY <1>2
  <1> QED
    BY <1>1, <1>3, <1>4, <1>5, <1>6 DEF k, f

\* The reader finds every piece between its offsets, which hold whatever their width.
LEMMA PieceIsRead ==
    ASSUME FormOK, NEW i \in 0 .. Records!Pieces - 1
    PROVE  Records!PieceAt(i) = Records!Piece[i]
  <1> DEFINE k == Records!Pieces
             f == Records!Piece
             C(n) == Records!Concat(f, n)
             lo == Len(C(i))
             hi == Len(C(i + 1))
             size == Len(C(k))
             p == f[i]
             o1 == Records!Off(i)
             o2 == Records!Off(i + 1)
  <1>1. k \in Nat /\ f \in [0 .. k - 1 -> Seq(Cell)] /\ p \in Seq(Cell) /\ Len(p) >= 1
    <2>1. k \in Nat /\ f \in [0 .. k - 1 -> Seq(Cell)] /\ Len(p) >= 1
      BY PiecesAre
    <2> QED
      BY <2>1
  <1>2. Records!Blob = C(k) /\ Records!SizeForWidth = size
        /\ Records!StartOf(i) = lo /\ Records!StartOf(i + 1) = hi
    BY DEF Records!Blob, Records!SizeForWidth, Records!StartOf
  <1> HIDE DEF k, f
  <1>3. PieceIn(f, k, i)
    BY <1>1, ConcatPieces DEF k
  <1>4. C(k) \in Seq(Cell)
    <2>1. k \in 0 .. k
      BY <1>1
    <2> QED
      BY <1>1, <2>1, ConcatStep
  <1>5. lo \in Nat /\ hi = lo + Len(p) /\ hi <= size /\ \A j \in 1 .. Len(p) : C(k)[lo + j] = p[j]
    BY <1>3 DEF PieceIn
  <1>6. o1 = (IF size < OffsetLimit THEN lo % OffsetLimit ELSE lo)
        /\ o2 = (IF size < OffsetLimit THEN hi % OffsetLimit ELSE hi)
    BY <1>2 DEF Records!Off
  <1>7. size \in Nat /\ Len(p) \in Nat
    BY <1>1, <1>4
  <1> HIDE DEF C, lo, hi, size, p, o1, o2
  <1>8. \A x \in Nat : x < OffsetLimit => x % OffsetLimit = x
    BY FormsAssumption
  <1>9. hi \in Nat /\ lo < hi
    BY <1>1, <1>5, <1>7
  <1>10. o1 = lo /\ o2 = hi
    <2>1. CASE size < OffsetLimit
      <3>1. lo < OffsetLimit /\ hi < OffsetLimit
        BY <1>5, <1>7, <1>9, <2>1, FormsAssumption
      <3> QED
        BY <1>5, <1>6, <1>8, <1>9, <2>1, <3>1
    <2>2. CASE ~(size < OffsetLimit)
      BY <1>6, <2>2
    <2> QED
      BY <2>1, <2>2
  <1>11. Records!PieceAt(i) = IF o1 < o2 /\ o2 <= size THEN SubSeq(C(k), o1 + 1, o2) ELSE <<>>
    BY <1>2 DEF Records!PieceAt, o1, o2, size
  <1>12. SubSeq(C(k), lo + 1, lo + Len(p)) = p
    <2>1. lo + Len(p) <= Len(C(k))
      BY <1>5 DEF size
    <2> QED
      BY <1>1, <1>4, <1>5, <2>1, SliceIs
  <1>13. Records!PieceAt(i) = p
    BY <1>5, <1>9, <1>10, <1>11, <1>12
  <1> QED
    BY <1>13 DEF p, f

\* What is read of a key: its slot's record, directly or from the block of the slot.
LEMMA RecordIsRead ==
    ASSUME FormOK, NEW s \in Slots
    PROVE  /\ ~compressed => Records!PieceAt(s) = Records!Record(s)
           /\ compressed =>
                LET b == s \div Records!Per
                IN  /\ Records!Decode(Records!PieceAt(b)) = Records!Raw(b)
                    /\ Records!NthRecord(Records!Raw(b), Records!InBlock(s)) = Records!Record(s)
  <1>1. ASSUME ~compressed PROVE Records!PieceAt(s) = Records!Record(s)
    <2>1. Records!Pieces = N
      BY <1>1, PiecesAre
    <2>2. s \in 0 .. Records!Pieces - 1
      BY <2>1 DEF Slots
    <2>3. Records!Piece[s] = Records!Record(s)
      BY <1>1, <2>2, PiecesAre
    <2> QED
      BY <2>2, <2>3, PieceIsRead
  <1> DEFINE b == s \div Records!Per
  <1>2. ASSUME compressed PROVE Records!Decode(Records!PieceAt(b)) = Records!Raw(b)
    <2>1. b \in Records!Blocks
      BY SlotInBlock
    <2> HIDE DEF b
    <2>2. b \in 0 .. Records!Pieces - 1
      BY <1>2, <2>1, PiecesAre, BlockSizes
    <2>3. Records!PieceAt(b) = Records!Block(b)
      <3>1. Records!Piece[b] = Records!Block(b)
        BY <1>2, <2>2, PiecesAre
      <3> QED
        BY <2>2, <3>1, PieceIsRead
    <2> QED
      BY <2>1, <2>3, BlockIs
  <1>3. Records!NthRecord(Records!Raw(b), Records!InBlock(s)) = Records!Record(s)
    <2> DEFINE r == s % Records!Per
    <2>1. b \in Records!Blocks /\ r \in 0 .. Records!Held(b) - 1 /\ b * Records!Per + r = s
      BY SlotInBlock
    <2>2. Records!InBlock(s) = r
      BY DEF Records!InBlock
    <2> HIDE DEF b, r
    <2>3. Records!NthRecord(Records!Raw(b), r) = Records!Record(b * Records!Per + r)
      BY <2>1, RawIs
    <2> QED
      BY <2>1, <2>2, <2>3
  <1> QED
    BY <1>1, <1>2, <1>3

----------------------------------------------------------------------------
\* A scan.

LEMMA BlockScanned ==
    ASSUME RowsOK, FormOK, compressed, NEW b \in Records!Blocks
    PROVE  /\ Records!BlockRecords(b) \in Seq(Keys)
           /\ Len(Records!BlockRecords(b)) = Records!Held(b)
           /\ \A i \in 1 .. Records!Held(b) :
                 Records!BlockRecords(b)[i] = entry[b * Records!Per + (i - 1)]
  <1> DEFINE h == Records!Held(b)
             lo == b * Records!Per
             raw == Records!Decode(Records!PieceAt(b))
             seq == Records!BlockRecords(b)
  <1>1. h \in Nat /\ \A i \in 0 .. h - 1 : lo + i \in Slots
    BY BlockSlots
  <1>2. raw = Records!Raw(b)
    <2>1. b \in 0 .. Records!Pieces - 1 /\ Records!Piece[b] = Records!Block(b)
      <3>1. b \in 0 .. Records!Pieces - 1
        BY PiecesAre, BlockSizes
      <3> QED
        BY <3>1, PiecesAre
    <2>2. Records!PieceAt(b) = Records!Block(b)
      BY <2>1, PieceIsRead
    <2> QED
      BY <2>2, BlockIs
  <1>3. seq = [i \in 1 .. h |-> Records!RowOf(Records!NthRecord(raw, i - 1))]
    BY DEF Records!BlockRecords
  <1>4. ASSUME NEW i \in 0 .. h - 1
        PROVE  Records!RowOf(Records!NthRecord(raw, i)) = entry[lo + i]
    <2>1. Records!NthRecord(Records!Raw(b), i) = Records!Record(lo + i)
      BY RawIs
    <2>2. lo + i \in Slots
      BY <1>1
    <2> QED
      BY <1>2, <2>1, <2>2, RowOfRecord
  <1> HIDE DEF h, lo, raw, seq
  <1>5. ASSUME NEW i \in 1 .. h PROVE seq[i] = entry[lo + (i - 1)] /\ seq[i] \in Keys
    <2>1. i - 1 \in 0 .. h - 1
      BY <1>1
    <2>2. seq[i] = entry[lo + (i - 1)]
      BY <1>3, <1>4, <2>1
    <2>3. lo + (i - 1) \in Slots
      BY <1>1, <2>1
    <2> QED
      BY <2>2, <2>3 DEF RowsOK
  <1>6. seq \in Seq(Keys) /\ Len(seq) = h
    <2>1. seq \in [1 .. h -> Keys]
      BY <1>3, <1>5
    <2>2. seq \in Seq(Keys)
      BY <1>1, <2>1
    <2> QED
      BY <1>1, <2>1, <2>2
  <1> QED
    BY <1>5, <1>6 DEF h, lo, seq

\* The blocks one after the other are the rows in slot order.
LEMMA BlocksScanned ==
    ASSUME RowsOK, FormOK, compressed
    PROVE  LET all == Records!Concat([b \in Records!Blocks |-> Records!BlockRecords(b)],
                                     Records!NumBlocks)
           IN  all \in Seq(Keys) /\ Len(all) = N /\ \A j \in 1 .. N : all[j] = entry[j - 1]
  <1> DEFINE P == Records!Per
             B == Records!NumBlocks
             f == [b \in Records!Blocks |-> Records!BlockRecords(b)]
             C(n) == Records!Concat(f, n)
             Upto(n) == IF n * P <= N THEN n * P ELSE N
             Reads(n) == Len(C(n)) = Upto(n) /\ \A j \in 1 .. Upto(n) : C(n)[j] = entry[j - 1]
             Bad == {n \in Nat : n <= B /\ ~Reads(n)}
  <1>1. /\ P \in Nat \ {0} /\ B \in Nat /\ N <= B * P /\ Records!Blocks = 0 .. B - 1
        /\ \A b \in 0 .. B - 1 : b \in Nat /\ b * P < N
    BY BlockSizes
  <1>2. N \in Nat /\ N >= 1
    BY Sizes
  <1>3. ASSUME NEW b \in 0 .. B - 1
        PROVE  /\ f[b] \in Seq(Keys) /\ Len(f[b]) = Records!Held(b) /\ Records!Held(b) \in Nat
               /\ Records!Held(b) = IF N - b * P < P THEN N - b * P ELSE P
               /\ \A i \in 1 .. Records!Held(b) : f[b][i] = entry[b * P + (i - 1)]
    <2>1. b \in Records!Blocks /\ f[b] = Records!BlockRecords(b)
      BY <1>1
    <2>2. Records!Held(b) = IF N - b * P < P THEN N - b * P ELSE P
      BY DEF Records!Held
    <2>3. Records!Held(b) \in Nat
      BY <2>1, BlockSlots
    <2> HIDE DEF f, P
    <2> QED
      BY <2>1, <2>2, <2>3, BlockScanned DEF P
  <1>4. f \in [0 .. B - 1 -> Seq(Keys)]
    <2>1. f = [b \in 0 .. B - 1 |-> f[b]]
      BY <1>1
    <2> HIDE DEF f
    <2> QED
      BY <1>3, <2>1
  <1> HIDE DEF f, P, B
  <1>5. /\ C(0) = <<>> /\ \A n \in 0 .. B : C(n) \in Seq(Keys)
        /\ \A n \in 0 .. B - 1 : C(n + 1) = C(n) \o f[n]
    BY <1>1, <1>4, ConcatStep
  <1> HIDE DEF C
  <1>6. Bad = {}
    <2> SUFFICES ASSUME Bad # {} PROVE FALSE
      OBVIOUS
    <2>1. PICK n \in Bad : \A o \in Bad : n <= o
      <3> HIDE DEF Bad
      <3>1. Bad \in SUBSET Nat
        BY DEF Bad
      <3> QED
        BY <3>1, LeastNatural
    <2>2. n \in Nat /\ n <= B /\ ~Reads(n)
      OBVIOUS
    <2>3. CASE n = 0
      <3>1. Upto(0) = 0
        BY <1>1, <1>2
      <3>2. Reads(0)
        BY <1>5, <3>1
      <3> QED
        BY <2>2, <2>3, <3>2
    <2>4. CASE n # 0
      <3> DEFINE m == n - 1
                 lo == m * P
                 h == Records!Held(m)
      <3>1. m \in Nat /\ m <= B /\ m \in 0 .. B - 1 /\ m \in 0 .. B /\ ~(n <= m) /\ n = m + 1
        BY <1>1, <2>2, <2>4
      <3> HIDE DEF m
      <3>2. Reads(m)
        <4> HIDE DEF Reads
        <4>1. ~(m \in Bad)
          BY <2>1, <3>1
        <4> QED
          BY <3>1, <4>1
      <3>3. lo \in Nat /\ lo < N
        <4>1. m * P < N
          BY <1>1, <3>1
        <4>2. m * P \in Nat
          BY <1>1, <3>1
        <4> QED
          BY <4>1, <4>2
      <3>4. Upto(m) = lo
        BY <1>2, <3>3
      <3>5. n * P = lo + P
        BY <1>1, <3>1
      <3>6. h \in Nat /\ h = (IF N - lo < P THEN N - lo ELSE P) /\ Len(f[m]) = h /\ f[m] \in Seq(Keys)
        BY <1>3, <3>1
      <3>7. \A i \in 1 .. h : f[m][i] = entry[lo + (i - 1)]
        BY <1>3, <3>1
      <3>8. Len(C(m)) = lo /\ \A j \in 1 .. lo : C(m)[j] = entry[j - 1]
        BY <3>2, <3>4
      <3>9. C(m) \in Seq(Keys) /\ C(n) = C(m) \o f[m]
        BY <1>5, <3>1
      <3> HIDE DEF lo, h
      <3>10. Upto(n) = lo + h
        BY <1>1, <1>2, <3>3, <3>5, <3>6
      <3>11. Len(C(n)) = lo + h
        BY <3>6, <3>8, <3>9, ConcatProperties
      <3>12. ASSUME NEW j \in 1 .. lo + h PROVE C(n)[j] = entry[j - 1]
        <4>1. C(n)[j] = IF j <= lo THEN C(m)[j] ELSE f[m][j - lo]
          <5>1. /\ \A o \in 1 .. Len(C(m)) : C(n)[o] = C(m)[o]
                /\ \A o \in 1 .. Len(f[m]) : C(n)[Len(C(m)) + o] = f[m][o]
            BY <3>6, <3>9, Joined
          <5>2. Len(C(m)) = lo /\ Len(f[m]) = h /\ lo \in Nat /\ h \in Nat
            BY <3>3, <3>6, <3>8
          <5>3. CASE j <= lo
            <6>1. j \in 1 .. Len(C(m))
              BY <5>2, <5>3
            <6> QED
              BY <5>1, <5>3, <6>1
          <5>4. CASE ~(j <= lo)
            <6>1. j - lo \in 1 .. Len(f[m]) /\ Len(C(m)) + (j - lo) = j
              BY <5>2, <5>4
            <6> QED
              BY <5>1, <5>4, <6>1
          <5> QED
            BY <5>3, <5>4
        <4>2. CASE j <= lo
          <5>1. j \in 1 .. lo
            BY <3>3, <3>6, <4>2
          <5> QED
            BY <3>8, <4>1, <4>2, <5>1
        <4>3. CASE ~(j <= lo)
          <5>1. j - lo \in 1 .. h /\ lo + ((j - lo) - 1) = j - 1
            BY <3>3, <3>6, <4>3
          <5>2. f[m][j - lo] = entry[lo + ((j - lo) - 1)]
            BY <3>7, <5>1
          <5> QED
            BY <4>1, <4>3, <5>1, <5>2
        <4> QED
          BY <4>2, <4>3
      <3> HIDE DEF Upto
      <3> QED
        BY <2>2, <3>10, <3>11, <3>12
    <2> QED
      BY <2>3, <2>4
  <1>7. Reads(B)
    <2>1. B \in Nat /\ B <= B
      BY <1>1
    <2> HIDE DEF Reads
    <2> QED
      BY <1>6, <2>1
  <1>8. Upto(B) = N
    <2>1. B * P \in Nat
      BY <1>1
    <2> QED
      BY <1>1, <1>2, <2>1
  <1>9. C(B) \in Seq(Keys)
    <2>1. B \in 0 .. B
      BY <1>1
    <2> QED
      BY <1>5, <2>1
  <1> HIDE DEF Upto
  <1> QED
    BY <1>7, <1>8, <1>9 DEF C, f, B

LEMMA ScanIsExact ==
    ASSUME RowsOK, FormOK
    PROVE  Records!ScanResult = [i \in 1 .. N |-> entry[i - 1]]
  <1>1. CASE compressed
    <2> DEFINE all == Records!Concat([b \in Records!Blocks |-> Records!BlockRecords(b)],
                                     Records!NumBlocks)
               rows == [i \in 1 .. N |-> entry[i - 1]]
    <2>1. all \in Seq(Keys) /\ Len(all) = N /\ \A j \in 1 .. N : all[j] = entry[j - 1]
      BY <1>1, BlocksScanned
    <2>2. Records!ScanResult = all
      BY <1>1 DEF Records!ScanResult
    <2> HIDE DEF all
    <2>3. DOMAIN all = 1 .. N /\ all = [i \in 1 .. N |-> all[i]]
      BY <2>1, Sizes
    <2>4. all = rows
      BY <2>1, <2>3
    <2> QED
      BY <2>2, <2>4
  <1>2. CASE ~compressed
    <2>1. Records!ScanResult = [i \in 1 .. N |-> Records!RowOf(Records!PieceAt(i - 1))]
      BY <1>2 DEF Records!ScanResult
    <2>2. ASSUME NEW i \in 1 .. N PROVE Records!RowOf(Records!PieceAt(i - 1)) = entry[i - 1]
      <3>1. i - 1 \in Slots
        BY Sizes DEF Slots
      <3>2. Records!PieceAt(i - 1) = Records!Record(i - 1)
        BY <1>2, <3>1, RecordIsRead
      <3> QED
        BY <3>1, <3>2, RowOfRecord
    <2> QED
      BY <2>1, <2>2
  <1> QED
    BY <1>1, <1>2

----------------------------------------------------------------------------
\* From the table to the file.

\* Before the file is written no lookup began.
Fresh ==
    /\ pool = Buffers /\ content = [b \in Buffers |-> <<>>]
    /\ rpc = [r \in Readers |-> "idle"] /\ key = [r \in Readers |-> RowKey[1]]
    /\ buf = [r \in Readers |-> None] /\ result = [r \in Readers |-> NotFound]
    /\ lookups = 0

\* Every slot has one row, so the slot of a row holds the row.
LEMMA FillSlotsRows ==
    ASSUME IInv, FillSlots
    PROVE  RowsOK'
  <1>1. /\ xs \in [Rows -> Hashes] /\ \A x \in Hashes : Slot(x) \in Slots
        /\ \A r, s \in Rows : r # s => Slot(xs[r]) # Slot(xs[s])
    <2>1. MinimalPerfect
      BY DoneIsPerfect
    <2> QED
      BY <2>1 DEF MinimalPerfect, FillSlots, IInv, TypeOK, Slots
  <1> DEFINE at == [r \in Rows |-> Slot(xs[r])]
             Image == {at[r] : r \in Rows}
  <1>2. at \in [Rows -> Slots] /\ \A r, s \in Rows : at[r] = at[s] => r = s
    BY <1>1
  <1> HIDE DEF at
  <1>3. Image = Slots
    <2>1. at \in Injection(Rows, Image) /\ at \in Surjection(Rows, Image)
      BY <1>2 DEF Injection, Surjection, IsInjective
    <2>2. ExistsBijection(Rows, Image)
      BY <2>1 DEF ExistsBijection, Bijection
    <2>3. Cardinality(Image) = N
      BY <2>2, RowsAssumption, FS_Bijection DEF N
    <2>4. Image \subseteq Slots
      BY <1>2
    <2> HIDE DEF Image
    <2>5. IsFiniteSet(Slots) /\ Cardinality(Slots) = N
      BY Sizes DEF Slots
    <2> QED
      BY <2>3, <2>4, <2>5, FS_Subset
  <1>4. ASSUME NEW s \in Slots PROVE SlotEntry(s) \in Rows /\ at[SlotEntry(s)] = s
    <2>1. PICK r \in Rows : at[r] = s
      BY <1>3
    <2>2. RowsAt(s) = {r}
      <3>1. \A o \in Rows : Slot(xs[o]) = at[o]
        BY DEF at
      <3> QED
        BY <1>2, <2>1, <3>1 DEF RowsAt
    <2>3. r <= r
      BY RowsAreNumbers
    <2>4. SlotEntry(s) = r
      BY <2>2, <2>3 DEF SlotEntry
    <2> QED
      BY <2>1, <2>4
  <1>5. PICK other \in [Keys \ {RowKey[r] : r \in Rows} -> Hashes] :
              slotOf' = [k \in Keys |-> Slot(IF k \in DOMAIN other THEN other[k]
                                             ELSE xs[CHOOSE r \in Rows : RowKey[r] = k])]
    BY DEF FillSlots
  <1>6. entry' = [s \in Slots |-> RowKey[SlotEntry(s)]]
    BY DEF FillSlots
  <1>7. RowKey \in [Rows -> Keys] /\ \A r, s \in Rows : RowKey[r] = RowKey[s] => r = s
    BY KeysAssumption
  <1>8. \A r \in Rows : (CHOOSE o \in Rows : RowKey[o] = RowKey[r]) = r
    BY <1>7
  <1>9. DOMAIN other = Keys \ {RowKey[r] : r \in Rows} /\ \A k \in DOMAIN other : other[k] \in Hashes
    BY <1>5
  <1>10. ASSUME NEW k \in Keys PROVE slotOf'[k] \in Slots
    <2>1. CASE k \in DOMAIN other
      <3>1. slotOf'[k] = Slot(other[k])
        BY <1>5, <2>1
      <3> QED
        BY <1>1, <1>9, <2>1, <3>1
    <2>2. CASE k \notin DOMAIN other
      <3>1. PICK r \in Rows : k = RowKey[r]
        BY <1>9, <2>2
      <3>2. slotOf'[k] = Slot(xs[CHOOSE o \in Rows : RowKey[o] = k])
        BY <1>5, <2>2
      <3>3. (CHOOSE o \in Rows : RowKey[o] = k) = r
        BY <1>8, <3>1
      <3>4. slotOf'[k] = Slot(xs[r])
        BY <3>2, <3>3
      <3> QED
        BY <1>1, <3>4
    <2> QED
      BY <2>1, <2>2
  <1>11. ASSUME NEW s \in Slots PROVE entry'[s] \in Keys /\ slotOf'[entry'[s]] = s
    <2> DEFINE r == SlotEntry(s)
               k == RowKey[r]
    <2>1. r \in Rows /\ at[r] = s
      BY <1>4
    <2>2. entry'[s] = k
      BY <1>6
    <2> HIDE DEF r
    <2>3. k \in Keys /\ k \notin DOMAIN other /\ (CHOOSE o \in Rows : RowKey[o] = k) = r
      BY <1>7, <1>8, <1>9, <2>1
    <2> HIDE DEF k
    <2>4. slotOf'[k] = Slot(xs[r])
      BY <1>5, <2>3
    <2> QED
      BY <2>1, <2>2, <2>3, <2>4 DEF at
  <1>12. entry' \in [Slots -> Keys] /\ slotOf' \in [Keys -> Slots]
    <2>1. DOMAIN entry' = Slots /\ entry' = [s \in Slots |-> entry'[s]]
      BY <1>6
    <2>2. slotOf' = [k \in Keys |-> slotOf'[k]]
      BY <1>5
    <2> QED
      BY <1>10, <1>11, <2>1, <2>2
  <1> QED
    BY <1>11, <1>12 DEF RowsOK, Slots

----------------------------------------------------------------------------
\* The lookups.

Stages == {"idle", "get", "decode", "copy", "put", "return"}
Holding(r) == rpc[r] \in {"decode", "copy", "put"}

LookupTypes ==
    /\ pool \subseteq Buffers /\ DOMAIN content = Buffers
    /\ rpc \in [Readers -> Stages]
    /\ key \in [Readers -> Keys] /\ buf \in [Readers -> Buffers \cup {None}]
    /\ result \in [Readers -> Records!RowKeys \cup {NotFound}]
    /\ lookups \in 0 .. MaxLookups

\* A buffer that a lookup holds is its own.
BuffersApart ==
    /\ \A r \in Readers : rpc[r] \in {"get", "decode", "copy", "put"} => compressed
    /\ \A r \in Readers : Holding(r) => buf[r] \in Buffers /\ buf[r] \notin pool
    /\ \A r, t \in Readers : r # t /\ Holding(r) /\ Holding(t) => buf[r] # buf[t]

\* The raw block b of a file with these lengths and this shift.
RawBlock(size, sh, b) ==
    Records!Concat(
        [i \in 0 .. (IF N - b * 2 ^ sh < 2 ^ sh THEN N - b * 2 ^ sh ELSE 2 ^ sh) - 1 |->
            <<[len |-> size[b * 2 ^ sh + i]]>>
                \o [j \in 1 .. size[b * 2 ^ sh + i] |-> [row |-> b * 2 ^ sh + i, at |-> j]]],
        IF N - b * 2 ^ sh < 2 ^ sh THEN N - b * 2 ^ sh ELSE 2 ^ sh)

LEMMA RawBlockIs == ASSUME NEW b PROVE Records!Raw(b) = RawBlock(length, shift, b)
  BY DEF RawBlock, Records!Raw, Records!Held, Records!Per, Records!Prefixed, Records!Record

\* It has what was decompressed for its lookup until the record is copied out.
DecodedFor(r) ==
    rpc[r] = "copy" /\ Records!BlockOf(r) \in packs =>
        content[buf[r]] = RawBlock(length, shift, Records!BlockOf(r))
Decoded == \A r \in Readers : DecodedFor(r)

RightFor(r) == rpc[r] \in {"put", "return"} => Answered(key[r], result[r])
AnswersRight == \A r \in Readers : RightFor(r)

ReadInv == LookupTypes /\ BuffersApart /\ Decoded /\ AnswersRight
FileInv == RowsOK /\ FormOK /\ ReadInv

LEMMA FreshReads ==
    ASSUME RowsOK, FormOK, Fresh
    PROVE  ReadInv
  <1>1. RowKey[1] \in Keys
    <2>1. 1 \in Rows
      BY Sizes, RowsAreNumbers
    <2> QED
      BY <2>1, KeysAssumption
  <1>2. LookupTypes
    BY <1>1, FormsAssumption DEF Fresh, LookupTypes, Stages
  <1>3. \A r \in Readers : rpc[r] = "idle"
    BY DEF Fresh
  <1> QED
    BY <1>2, <1>3 DEF ReadInv, BuffersApart, Decoded, DecodedFor, AnswersRight, RightFor, Holding

\* A file that is written does not change.
LEMMA FileKept ==
    ASSUME RowsOK, FormOK, UNCHANGED Records!fileVars
    PROVE  /\ RowsOK' /\ FormOK' /\ Records!RowKeys' = Records!RowKeys
           /\ length' = length /\ compressed' = compressed /\ shift' = shift /\ lean' = lean
           /\ packs' = packs /\ print' = print /\ slotOf' = slotOf
  <1>1. /\ entry' = entry /\ slotOf' = slotOf /\ length' = length /\ compressed' = compressed
        /\ shift' = shift /\ lean' = lean /\ packs' = packs /\ print' = print
    BY DEF Records!fileVars
  <1>2. Records!Blocks' = Records!Blocks
    BY <1>1 DEF Records!Blocks, Records!NumBlocks, Records!Per
  <1>3. Records!RowKeys' = Records!RowKeys
    BY <1>1 DEF Records!RowKeys
  <1>4. RowsOK'
    BY <1>1 DEF RowsOK
  <1>5. FormOK'
    BY <1>1, <1>2 DEF FormOK
  <1> QED
    BY <1>1, <1>3, <1>4, <1>5

LEMMA AnswerStays ==
    ASSUME RowsOK, FormOK, UNCHANGED Records!fileVars, NEW r \in Readers,
           NEW k, NEW res, key'[r] = k, result'[r] = res, Answered(k, res)
    PROVE  RightFor(r)'
  <1>1. Records!RowKeys' = Records!RowKeys /\ lean' = lean /\ print' = print
    BY FileKept
  <1> QED
    BY <1>1 DEF Answered, RightFor

\* A step of another lookup leaves a lookup what it needs.
LEMMA OtherStays ==
    ASSUME FileInv, UNCHANGED Records!fileVars, NEW r \in Readers,
           rpc'[r] = rpc[r], key'[r] = key[r], buf'[r] = buf[r], result'[r] = result[r]
    PROVE  /\ RightFor(r)'
           /\ (rpc[r] = "copy" => content'[buf[r]] = content[buf[r]]) => DecodedFor(r)'
  <1>1. /\ Records!RowKeys' = Records!RowKeys /\ lean' = lean /\ print' = print
        /\ length' = length /\ shift' = shift /\ packs' = packs /\ slotOf' = slotOf
    BY FileKept DEF FileInv
  <1>2. RightFor(r)'
    <2>1. RightFor(r)
      BY DEF FileInv, ReadInv, AnswersRight
    <2> QED
      BY <1>1, <2>1 DEF RightFor, Answered
  <1>3. ASSUME rpc[r] = "copy" => content'[buf[r]] = content[buf[r]]
        PROVE  DecodedFor(r)'
    <2>1. DecodedFor(r)
      BY DEF FileInv, ReadInv, Decoded
    <2>2. Records!BlockOf(r)' = Records!BlockOf(r)
      BY <1>1 DEF Records!BlockOf, Records!Per
    <2>3. RawBlock(length, shift, Records!BlockOf(r))' = RawBlock(length, shift, Records!BlockOf(r))
      BY <1>1, <2>2
    <2> QED
      BY <1>1, <1>3, <2>1, <2>2, <2>3 DEF DecodedFor
  <1> QED
    BY <1>2, <1>3

LEMMA BeginRead ==
    ASSUME FileInv, NEW r \in Readers, NEW k \in Keys, Records!Begin(r, k)
    PROVE  FileInv'
  <1>1. UNCHANGED Records!fileVars /\ pool' = pool /\ content' = content /\ buf' = buf
    BY DEF Records!Begin
  <1>2. /\ RowsOK' /\ FormOK' /\ compressed' = compressed
        /\ Records!RowKeys' = Records!RowKeys
    BY <1>1, FileKept DEF FileInv
  <1>3. LookupTypes /\ BuffersApart
    BY DEF FileInv, ReadInv
  <1>4. /\ rpc' = [rpc EXCEPT ![r] = IF compressed THEN "get" ELSE "return"]
        /\ key' = [key EXCEPT ![r] = k] /\ lookups' = lookups + 1 /\ lookups < MaxLookups
    BY DEF Records!Begin
  <1>5. ASSUME ~compressed
        PROVE  result'[r] = Records!Verified(k, Records!Record(slotOf[k]))
    <2>1. slotOf[k] \in Slots
      BY DEF FileInv, RowsOK
    <2>2. Records!PieceAt(slotOf[k]) = Records!Record(slotOf[k])
      BY <1>5, <2>1, RecordIsRead DEF FileInv
    <2> QED
      BY <1>3, <1>5, <2>2 DEF Records!Begin, LookupTypes
  <1>6. Answered(k, Records!Verified(k, Records!Record(slotOf[k])))
    BY VerifiedAnswers DEF FileInv
  <1>7. \A t \in Readers : t # r => result'[t] = result[t]
    BY <1>3 DEF Records!Begin, LookupTypes
  <1>8. result' \in [Readers -> Records!RowKeys \cup {NotFound}]
    <2>1. CASE compressed
      BY <1>3, <2>1 DEF Records!Begin, LookupTypes
    <2>2. CASE ~compressed
      <3>1. result'[r] \in Records!RowKeys \cup {NotFound}
        BY <1>5, <1>6, <2>2 DEF Answered
      <3>2. DOMAIN result' = Readers /\ result' = [t \in Readers |-> result'[t]]
        BY <1>3, <2>2 DEF Records!Begin, LookupTypes
      <3> QED
        BY <1>3, <1>7, <3>1, <3>2 DEF LookupTypes
    <2> QED
      BY <2>1, <2>2
  <1>9. LookupTypes'
    <2>1. lookups' \in 0 .. MaxLookups
      BY <1>3, <1>4, FormsAssumption DEF LookupTypes
    <2> QED
      BY <1>1, <1>2, <1>3, <1>4, <1>8, <2>1 DEF LookupTypes, Stages
  <1>10. BuffersApart'
    BY <1>1, <1>2, <1>3, <1>4 DEF BuffersApart, LookupTypes, Holding
  <1>11. ASSUME NEW t \in Readers PROVE DecodedFor(t)' /\ RightFor(t)'
    <2>1. CASE t = r
      <3>1. DecodedFor(t)'
        BY <1>3, <1>4, <2>1 DEF DecodedFor, LookupTypes
      <3>2. CASE compressed
        BY <1>3, <1>4, <2>1, <3>1, <3>2 DEF RightFor, LookupTypes
      <3>3. CASE ~compressed
        <4>1. key'[r] = k
          BY <1>3, <1>4 DEF LookupTypes
        <4> QED
          BY <1>1, <1>5, <1>6, <2>1, <3>1, <3>3, <4>1, AnswerStays DEF FileInv
      <3> QED
        BY <3>2, <3>3
    <2>2. CASE t # r
      <3>1. rpc'[t] = rpc[t] /\ key'[t] = key[t] /\ buf'[t] = buf[t] /\ result'[t] = result[t]
        BY <1>1, <1>3, <1>4, <1>7, <2>2 DEF LookupTypes
      <3> QED
        BY <1>1, <3>1, OtherStays
    <2> QED
      BY <2>1, <2>2
  <1> QED
    BY <1>2, <1>9, <1>10, <1>11 DEF FileInv, ReadInv, Decoded, AnswersRight

LEMMA GetScratchRead ==
    ASSUME FileInv, NEW r \in Readers, NEW b \in Buffers, Records!GetScratch(r, b)
    PROVE  FileInv'
  <1>1. /\ UNCHANGED Records!fileVars /\ content' = content /\ key' = key /\ result' = result
        /\ lookups' = lookups
    BY DEF Records!GetScratch
  <1>2. RowsOK' /\ FormOK' /\ compressed' = compressed /\ Records!RowKeys' = Records!RowKeys
    BY <1>1, FileKept DEF FileInv
  <1>3. LookupTypes /\ BuffersApart
    BY DEF FileInv, ReadInv
  <1>4. /\ rpc[r] = "get" /\ rpc' = [rpc EXCEPT ![r] = "decode"]
        /\ b \in pool /\ pool' = pool \ {b} /\ buf' = [buf EXCEPT ![r] = b]
    BY DEF Records!GetScratch
  <1>5. LookupTypes'
    BY <1>1, <1>2, <1>3, <1>4 DEF LookupTypes, Stages
  <1>6. BuffersApart'
    BY <1>2, <1>3, <1>4 DEF BuffersApart, LookupTypes, Holding
  <1>7. ASSUME NEW t \in Readers PROVE DecodedFor(t)' /\ RightFor(t)'
    <2>1. CASE t = r
      BY <1>3, <1>4, <2>1 DEF DecodedFor, RightFor, LookupTypes
    <2>2. CASE t # r
      <3>1. rpc'[t] = rpc[t] /\ key'[t] = key[t] /\ buf'[t] = buf[t] /\ result'[t] = result[t]
        BY <1>1, <1>3, <1>4, <2>2 DEF LookupTypes
      <3> QED
        BY <1>1, <3>1, OtherStays
    <2> QED
      BY <2>1, <2>2
  <1> QED
    BY <1>2, <1>5, <1>6, <1>7 DEF FileInv, ReadInv, Decoded, AnswersRight

\* The block decompressed into a buffer is that of its lookup, and no other lookup's buffer changes.
LEMMA DecodeBlockRead ==
    ASSUME FileInv, NEW r \in Readers, Records!DecodeBlock(r)
    PROVE  FileInv'
  <1> DEFINE b == Records!BlockOf(r)
  <1>1. /\ UNCHANGED Records!fileVars /\ key' = key /\ buf' = buf /\ result' = result
        /\ lookups' = lookups
    BY DEF Records!DecodeBlock
  <1>2. /\ RowsOK' /\ FormOK' /\ compressed' = compressed /\ Records!RowKeys' = Records!RowKeys
        /\ length' = length /\ shift' = shift /\ packs' = packs /\ slotOf' = slotOf
    BY <1>1, FileKept DEF FileInv
  <1>3. LookupTypes /\ BuffersApart
    BY DEF FileInv, ReadInv
  <1>4. rpc[r] = "decode" /\ rpc' = [rpc EXCEPT ![r] = "copy"] /\ pool' = pool
    BY DEF Records!DecodeBlock, Records!PutLater
  <1>5. content' = IF b \in packs THEN [content EXCEPT ![buf[r]] = Records!Decode(Records!PieceAt(b))]
                   ELSE content
    BY DEF Records!DecodeBlock
  <1>6. Records!Decode(Records!PieceAt(b)) = RawBlock(length, shift, b)
    <2>1. compressed
      BY <1>3, <1>4 DEF BuffersApart
    <2>2. key[r] \in Keys
      BY <1>3 DEF LookupTypes
    <2>3. slotOf[key[r]] \in Slots
      BY <2>2 DEF FileInv, RowsOK
    <2>4. b = slotOf[key[r]] \div Records!Per
      BY DEF Records!BlockOf
    <2>5. Records!Decode(Records!PieceAt(b)) = Records!Raw(b)
      BY <2>1, <2>3, <2>4, RecordIsRead DEF FileInv
    <2> QED
      BY <2>5, RawBlockIs
  <1>7. b' = b
    BY <1>1, <1>2 DEF Records!BlockOf, Records!Per
  <1>8. RawBlock(length, shift, b)' = RawBlock(length, shift, b)
    BY <1>2, <1>7
  <1>9. Holding(r) /\ buf[r] \in Buffers
    BY <1>3, <1>4 DEF BuffersApart, Holding
  <1>10. LookupTypes'
    <2>1. DOMAIN content' = Buffers
      BY <1>3, <1>5 DEF LookupTypes
    <2> QED
      BY <1>1, <1>2, <1>3, <1>4, <2>1 DEF LookupTypes, Stages
  <1>11. BuffersApart'
    BY <1>1, <1>2, <1>3, <1>4 DEF BuffersApart, LookupTypes, Holding
  <1>12. ASSUME NEW t \in Readers PROVE DecodedFor(t)' /\ RightFor(t)'
    <2>1. CASE t = r
      <3>1. RightFor(t)'
        BY <1>3, <1>4, <2>1 DEF RightFor, LookupTypes
      <3>2. b \in packs => content'[buf[r]] = RawBlock(length, shift, b)
        BY <1>3, <1>5, <1>6, <1>9 DEF LookupTypes
      <3>3. DecodedFor(r)'
        BY <1>1, <1>2, <1>7, <1>8, <3>2 DEF DecodedFor
      <3> QED
        BY <2>1, <3>1, <3>3
    <2>2. CASE t # r
      <3>1. rpc'[t] = rpc[t] /\ key'[t] = key[t] /\ buf'[t] = buf[t] /\ result'[t] = result[t]
        BY <1>1, <1>3, <1>4, <2>2 DEF LookupTypes
      <3>2. ASSUME rpc[t] = "copy" PROVE content'[buf[t]] = content[buf[t]]
        <4>1. Holding(t)
          BY <3>2 DEF Holding
        <4>2. buf[t] \in Buffers /\ buf[t] # buf[r]
          BY <1>3, <1>9, <2>2, <4>1 DEF BuffersApart
        <4> QED
          BY <1>3, <1>5, <4>2 DEF LookupTypes
      <3> QED
        BY <1>1, <3>1, <3>2, OtherStays
    <2> QED
      BY <2>1, <2>2
  <1> QED
    BY <1>2, <1>10, <1>11, <1>12 DEF FileInv, ReadInv, Decoded, AnswersRight

\* The record is taken from the block of the lookup's slot, wherever that block was decoded.
LEMMA CopyRecordRead ==
    ASSUME FileInv, NEW r \in Readers, Records!CopyRecord(r)
    PROVE  FileInv'
  <1> DEFINE b == Records!BlockOf(r)
             k == key[r]
             s == slotOf[k]
             raw == IF b \in packs THEN content[buf[r]] ELSE Records!Decode(Records!PieceAt(b))
             res == Records!Verified(k, Records!NthRecord(raw, Records!InBlock(s)))
  <1>1. /\ UNCHANGED Records!fileVars /\ pool' = pool /\ content' = content /\ key' = key
        /\ buf' = buf /\ lookups' = lookups
    BY DEF Records!CopyRecord
  <1>2. RowsOK' /\ FormOK' /\ compressed' = compressed /\ Records!RowKeys' = Records!RowKeys
    BY <1>1, FileKept DEF FileInv
  <1>3. LookupTypes /\ BuffersApart
    BY DEF FileInv, ReadInv
  <1>4. /\ rpc[r] = "copy" /\ rpc' = [rpc EXCEPT ![r] = "put"]
        /\ result' = [result EXCEPT ![r] = res]
    BY DEF Records!CopyRecord
  <1>5. k \in Keys /\ s \in Slots
    BY <1>3 DEF LookupTypes, FileInv, RowsOK
  <1>6. Answered(k, res)
    <2>1. compressed
      BY <1>3, <1>4 DEF BuffersApart
    <2>2. b = s \div Records!Per
      BY DEF Records!BlockOf
    <2>3. /\ Records!Decode(Records!PieceAt(b)) = Records!Raw(b)
          /\ Records!NthRecord(Records!Raw(b), Records!InBlock(s)) = Records!Record(s)
      BY <1>5, <2>1, <2>2, RecordIsRead DEF FileInv
    <2>4. raw = Records!Raw(b)
      <3>1. CASE b \in packs
        <4>1. content[buf[r]] = RawBlock(length, shift, b)
          BY <1>4, <3>1 DEF FileInv, ReadInv, Decoded, DecodedFor
        <4> QED
          BY <3>1, <4>1, RawBlockIs
      <3>2. CASE b \notin packs
        BY <2>3, <3>2
      <3> QED
        BY <3>1, <3>2
    <2>5. res = Records!Verified(k, Records!Record(s))
      BY <2>3, <2>4
    <2> QED
      BY <1>5, <2>5, VerifiedAnswers DEF FileInv
  <1> HIDE DEF res
  <1>7. LookupTypes'
    <2>1. res \in Records!RowKeys \cup {NotFound}
      BY <1>6 DEF Answered
    <2>2. result' \in [Readers -> Records!RowKeys \cup {NotFound}]
      BY <1>3, <1>4, <2>1 DEF LookupTypes
    <2> QED
      BY <1>1, <1>2, <1>3, <1>4, <2>2 DEF LookupTypes, Stages
  <1>8. BuffersApart'
    BY <1>1, <1>2, <1>3, <1>4 DEF BuffersApart, LookupTypes, Holding
  <1>9. ASSUME NEW t \in Readers PROVE DecodedFor(t)' /\ RightFor(t)'
    <2>1. CASE t = r
      <3>1. DecodedFor(t)'
        BY <1>3, <1>4, <2>1 DEF DecodedFor, LookupTypes
      <3>2. key'[r] = k /\ result'[r] = res
        BY <1>1, <1>3, <1>4 DEF LookupTypes
      <3> QED
        BY <1>1, <1>6, <2>1, <3>1, <3>2, AnswerStays DEF FileInv
    <2>2. CASE t # r
      <3>1. rpc'[t] = rpc[t] /\ key'[t] = key[t] /\ buf'[t] = buf[t] /\ result'[t] = result[t]
        BY <1>1, <1>3, <1>4, <2>2 DEF LookupTypes
      <3> QED
        BY <1>1, <3>1, OtherStays
    <2> QED
      BY <2>1, <2>2
  <1> QED
    BY <1>2, <1>7, <1>8, <1>9 DEF FileInv, ReadInv, Decoded, AnswersRight

LEMMA PutScratchRead ==
    ASSUME FileInv, NEW r \in Readers, Records!PutScratch(r)
    PROVE  FileInv'
  <1>1. /\ UNCHANGED Records!fileVars /\ content' = content /\ key' = key /\ buf' = buf
        /\ result' = result /\ lookups' = lookups
    BY DEF Records!PutScratch
  <1>2. RowsOK' /\ FormOK' /\ compressed' = compressed /\ Records!RowKeys' = Records!RowKeys
    BY <1>1, FileKept DEF FileInv
  <1>3. LookupTypes /\ BuffersApart
    BY DEF FileInv, ReadInv
  <1>4. rpc[r] = "put" /\ rpc' = [rpc EXCEPT ![r] = "return"] /\ pool' = pool \cup {buf[r]}
    BY DEF Records!PutScratch
  <1>5. buf[r] \in Buffers /\ Holding(r)
    BY <1>3, <1>4 DEF BuffersApart, Holding
  <1>6. LookupTypes'
    BY <1>1, <1>2, <1>3, <1>4, <1>5 DEF LookupTypes, Stages
  <1>7. BuffersApart'
    BY <1>1, <1>2, <1>3, <1>4, <1>5 DEF BuffersApart, LookupTypes, Holding
  <1>8. ASSUME NEW t \in Readers PROVE DecodedFor(t)' /\ RightFor(t)'
    <2>1. CASE t = r
      <3>1. DecodedFor(t)'
        BY <1>3, <1>4, <2>1 DEF DecodedFor, LookupTypes
      <3>2. Answered(key[r], result[r])
        BY <1>4 DEF FileInv, ReadInv, AnswersRight, RightFor
      <3> QED
        BY <1>1, <2>1, <3>1, <3>2, AnswerStays DEF FileInv
    <2>2. CASE t # r
      <3>1. rpc'[t] = rpc[t] /\ key'[t] = key[t] /\ buf'[t] = buf[t] /\ result'[t] = result[t]
        BY <1>1, <1>3, <1>4, <2>2 DEF LookupTypes
      <3> QED
        BY <1>1, <3>1, OtherStays
    <2> QED
      BY <2>1, <2>2
  <1> QED
    BY <1>2, <1>6, <1>7, <1>8 DEF FileInv, ReadInv, Decoded, AnswersRight

LEMMA ReturnRead ==
    ASSUME FileInv, NEW r \in Readers, Records!Return(r)
    PROVE  FileInv'
  <1>1. /\ UNCHANGED Records!fileVars /\ pool' = pool /\ content' = content /\ key' = key
        /\ buf' = buf /\ result' = result /\ lookups' = lookups
    BY DEF Records!Return
  <1>2. RowsOK' /\ FormOK' /\ compressed' = compressed /\ Records!RowKeys' = Records!RowKeys
    BY <1>1, FileKept DEF FileInv
  <1>3. LookupTypes /\ BuffersApart
    BY DEF FileInv, ReadInv
  <1>4. rpc' = [rpc EXCEPT ![r] = "idle"]
    BY DEF Records!Return
  <1>5. LookupTypes'
    BY <1>1, <1>2, <1>3, <1>4 DEF LookupTypes, Stages
  <1>6. BuffersApart'
    BY <1>1, <1>2, <1>3, <1>4 DEF BuffersApart, LookupTypes, Holding
  <1>7. ASSUME NEW t \in Readers PROVE DecodedFor(t)' /\ RightFor(t)'
    <2>1. CASE t = r
      BY <1>3, <1>4, <2>1 DEF DecodedFor, RightFor, LookupTypes
    <2>2. CASE t # r
      <3>1. rpc'[t] = rpc[t] /\ key'[t] = key[t] /\ buf'[t] = buf[t] /\ result'[t] = result[t]
        BY <1>1, <1>3, <1>4, <2>2 DEF LookupTypes
      <3> QED
        BY <1>1, <3>1, OtherStays
    <2> QED
      BY <2>1, <2>2
  <1> QED
    BY <1>2, <1>5, <1>6, <1>7 DEF FileInv, ReadInv, Decoded, AnswersRight

----------------------------------------------------------------------------
\* A file from its hash table to its lookups.

Building == {"search", "remap", "done", "duplicate", "nopilot"}

FormatInv ==
    /\ pc \in Building \cup {"filled", "written"}
    /\ pc \in Building => IInv
    /\ pc \in {"filled", "written"} => RowsOK
    /\ pc # "written" => Fresh
    /\ pc = "written" => FormOK /\ ReadInv

LEMMA FormatStarts == FormatInit => FormatInv
  <1> SUFFICES ASSUME FormatInit PROVE FormatInv
    OBVIOUS
  <1>1. IInv
    BY InitIInv DEF FormatInit
  <1>2. pc = "search"
    BY DEF FormatInit, Init
  <1>3. Fresh
    BY DEF FormatInit, Fresh
  <1> QED
    BY <1>1, <1>2, <1>3 DEF FormatInv, Building

LEMMA BuildingStep ==
    ASSUME FormatInv, pc \in {"search", "remap"}, Next, UNCHANGED recordVars
    PROVE  FormatInv'
  <1>1. IInv /\ Fresh
    BY DEF FormatInv, Building
  <1>2. IInv'
    BY <1>1, NextIInv
  <1>3. pc' \in Building
    BY <1>2 DEF IInv, TypeOK, Building
  <1>4. Fresh'
    BY <1>1 DEF Fresh, recordVars
  <1> QED
    BY <1>2, <1>3, <1>4 DEF FormatInv, Building

LEMMA FillSlotsStep ==
    ASSUME FormatInv, FillSlots
    PROVE  FormatInv'
  <1>1. pc = "done" /\ pc' = "filled"
    BY DEF FillSlots
  <1>2. IInv /\ Fresh
    BY <1>1 DEF FormatInv, Building
  <1>3. RowsOK'
    BY <1>2, FillSlotsRows
  <1>4. Fresh'
    BY <1>2 DEF Fresh, FillSlots, readVars
  <1> QED
    BY <1>1, <1>3, <1>4 DEF FormatInv, Building

LEMMA WriteRecordsStep ==
    ASSUME FormatInv, WriteRecords
    PROVE  FormatInv'
  <1>1. pc = "filled" /\ pc' = "written"
    BY DEF WriteRecords
  <1>2. RowsOK /\ Fresh
    BY <1>1 DEF FormatInv, Building
  <1>3. RowsOK'
    BY <1>2 DEF RowsOK, WriteRecords
  <1>4. Fresh'
    BY <1>2 DEF Fresh, WriteRecords, readVars
  <1>5. FormOK'
    <2>1. length' \in [Slots -> Nat \ {0}]
      BY FormsAssumption DEF WriteRecords, Slots
    <2>2. compressed' \in BOOLEAN /\ lean' \in BOOLEAN
      BY DEF WriteRecords
    <2>3. shift' \in Nat /\ shift' \in Shifts \cup {0}
      BY FormsAssumption, <2>2 DEF WriteRecords
    <2>4. packs' \subseteq Records!Blocks'
      BY <2>2 DEF WriteRecords
    <2> QED
      BY <2>1, <2>2, <2>3, <2>4 DEF FormOK
  <1>6. ReadInv'
    BY <1>3, <1>4, <1>5, FreshReads, PTL
  <1> QED
    BY <1>1, <1>3, <1>5, <1>6 DEF FormatInv, Building

LEMMA ReadingStep ==
    ASSUME FormatInv, pc = "written", Records!Next, UNCHANGED vars
    PROVE  FormatInv'
  <1>1. pc' = "written"
    BY DEF vars
  <1>2. FileInv
    BY DEF FormatInv, FileInv
  <1>3. FileInv'
    BY <1>2, BeginRead, GetScratchRead, DecodeBlockRead, CopyRecordRead, PutScratchRead, ReturnRead
       DEF Records!Next
  <1> QED
    BY <1>1, <1>3 DEF FormatInv, FileInv, Building

LEMMA FormatStep == FormatInv /\ [FormatNext]_<<vars, recordVars>> => FormatInv'
  <1> SUFFICES ASSUME FormatInv, [FormatNext]_<<vars, recordVars>> PROVE FormatInv'
    OBVIOUS
  <1>1. CASE pc \in {"search", "remap"} /\ Next /\ UNCHANGED recordVars
    BY <1>1, BuildingStep
  <1>2. CASE FillSlots
    BY <1>2, FillSlotsStep
  <1>3. CASE WriteRecords
    BY <1>3, WriteRecordsStep
  <1>4. CASE pc = "written" /\ Records!Next /\ UNCHANGED vars
    BY <1>4, ReadingStep
  <1>5. CASE UNCHANGED <<vars, recordVars>>
    <2>1. pc' = pc /\ UNCHANGED Records!fileVars /\ UNCHANGED readVars
      BY <1>5 DEF vars, recordVars, Records!fileVars, readVars
    <2>2. pc \in Building => IInv'
      <3>1. pc \in Building => IInv
        BY DEF FormatInv
      <3> QED
        BY <1>5, <3>1, NextIInv
    <2>3. Fresh => Fresh'
      BY <2>1 DEF Fresh, readVars
    <2>4. RowsOK => RowsOK'
      BY <2>1 DEF RowsOK, Records!fileVars
    <2>5. CASE pc = "written"
      <3>1. FileInv
        BY <2>5 DEF FormatInv, FileInv
      <3>2. RowsOK' /\ FormOK' /\ compressed' = compressed /\ Records!RowKeys' = Records!RowKeys
        BY <2>1, <3>1, FileKept DEF FileInv
      <3>3. LookupTypes' /\ BuffersApart'
        BY <2>1, <3>1, <3>2 DEF FileInv, ReadInv, LookupTypes, BuffersApart, Holding, readVars
      <3>4. ASSUME NEW t \in Readers PROVE DecodedFor(t)' /\ RightFor(t)'
        <4>1. /\ rpc'[t] = rpc[t] /\ key'[t] = key[t] /\ buf'[t] = buf[t] /\ result'[t] = result[t]
              /\ content' = content
          BY <2>1 DEF readVars
        <4> QED
          BY <2>1, <3>1, <4>1, OtherStays
      <3>5. ReadInv'
        BY <3>3, <3>4 DEF ReadInv, Decoded, AnswersRight
      <3> QED
        BY <2>1, <2>5, <3>2, <3>5 DEF FormatInv, Building
    <2>6. CASE pc # "written"
      BY <2>1, <2>2, <2>3, <2>4, <2>6 DEF FormatInv, Building
    <2> QED
      BY <2>5, <2>6
  <1> QED
    BY <1>1, <1>2, <1>3, <1>4, <1>5 DEF FormatNext

LEMMA FormatInvExact == FormatInv => FileExact
  <1> SUFFICES ASSUME FormatInv, pc = "written" PROVE Records!ReadsExact
    BY DEF FileExact
  <1>1. FileInv
    BY DEF FormatInv, FileInv
  <1>2. Records!Slots = Slots
    BY DEF Records!Slots, Slots
  <1>3. Records!TypeOK
    BY <1>1, <1>2 DEF FileInv, RowsOK, FormOK, ReadInv, LookupTypes, Stages, Records!TypeOK
  <1>4. Records!ResultExact
    <2> SUFFICES ASSUME NEW r \in Readers, rpc[r] = "return"
                 PROVE  IF key[r] \in Records!RowKeys THEN result[r] = key[r]
                        ELSE result[r] = NotFound \/ (lean /\ print[result[r]] = print[key[r]])
      BY DEF Records!ResultExact
    <2>1. Answered(key[r], result[r])
      BY <1>1 DEF FileInv, ReadInv, AnswersRight, RightFor
    <2> QED
      BY <2>1 DEF Answered
  <1>5. Records!ScanExact
    BY <1>1, ScanIsExact DEF FileInv, Records!ScanExact
  <1> QED
    BY <1>3, <1>4, <1>5 DEF Records!ReadsExact

\* A file written with whatever table, hashes, compression, block shift, offset width and
\* fingerprints answers each lookup with the row of its key and passes every row to a scan
\* once, although any number of readers share the decompression buffers (CompileWithOptions,
\* entryV2, recordCompressed, scanV2).
THEOREM FilesAreExact == FormatSpec => []FileExact
BY FormatStarts, FormatStep, FormatInvExact, PTL DEF FormatSpec

----------------------------------------------------------------------------
(****************************************************************************)
(* The codec.                                                               *)
(****************************************************************************)

\* Where a text lies in a block.
LiesAt(o, p, s) == p + Len(s) <= Len(o) /\ \A j \in 1 .. Len(s) : o[p + j] = s[j]

LEMMA LiesInParts ==
    ASSUME NEW o \in Seq(Nat), NEW p \in Nat, NEW s \in Seq(Nat), NEW t \in Seq(Nat),
           LiesAt(o, p, s \o t)
    PROVE  LiesAt(o, p, s) /\ LiesAt(o, p + Len(s), t) /\ Len(s \o t) = Len(s) + Len(t)
  <1> DEFINE u == s \o t
  <1>1. /\ Len(s) \in Nat /\ Len(t) \in Nat /\ Len(u) = Len(s) + Len(t)
        /\ \A k \in 1 .. Len(s) : u[k] = s[k]
        /\ \A k \in 1 .. Len(t) : u[Len(s) + k] = t[k]
    BY Joined
  <1>2. p + Len(u) <= Len(o) /\ \A j \in 1 .. Len(u) : o[p + j] = u[j]
    BY DEF LiesAt
  <1> HIDE DEF u
  <1>3. Len(o) \in Nat
    OBVIOUS
  <1>4. LiesAt(o, p, s)
    BY <1>1, <1>2, <1>3 DEF LiesAt
  <1>5. \A j \in 1 .. Len(t) : o[(p + Len(s)) + j] = t[j]
    <2> TAKE j \in 1 .. Len(t)
    <2>1. Len(s) + j \in 1 .. Len(u) /\ p + (Len(s) + j) = (p + Len(s)) + j
      BY <1>1
    <2> QED
      BY <1>1, <1>2, <2>1
  <1>6. LiesAt(o, p + Len(s), t)
    BY <1>1, <1>2, <1>3, <1>5 DEF LiesAt
  <1> QED
    BY <1>1, <1>4, <1>6 DEF u

LEMMA LiesLonger ==
    ASSUME NEW o \in Seq(Nat), NEW t \in Seq(Nat), NEW p \in Nat, NEW s \in Seq(Nat), LiesAt(o, p, s)
    PROVE  LiesAt(o \o t, p, s)
  <1> DEFINE u == o \o t
  <1>1. /\ Len(o) \in Nat /\ Len(t) \in Nat /\ Len(u) = Len(o) + Len(t) /\ Len(s) \in Nat
        /\ \A k \in 1 .. Len(o) : u[k] = o[k]
    BY Joined
  <1> HIDE DEF u
  <1>2. \A j \in 1 .. Len(s) : u[p + j] = s[j]
    <2> TAKE j \in 1 .. Len(s)
    <2>1. p + j \in 1 .. Len(o)
      BY <1>1 DEF LiesAt
    <2> QED
      BY <1>1, <2>1 DEF LiesAt
  <1> QED
    BY <1>1, <1>2 DEF LiesAt, u

LEMMA LiesAppended ==
    ASSUME NEW o \in Seq(Nat), NEW t \in Seq(Nat)
    PROVE  LiesAt(o \o t, Len(o), t)
  <1> DEFINE u == o \o t
  <1>1. /\ Len(o) \in Nat /\ Len(t) \in Nat /\ Len(u) = Len(o) + Len(t)
        /\ \A k \in 1 .. Len(t) : u[Len(o) + k] = t[k]
    BY Joined
  <1> HIDE DEF u
  <1> QED
    BY <1>1 DEF LiesAt, u

----------------------------------------------------------------------------
\* Lengths.

LEMMA CodecNumbers ==
    /\ MinMatch \in Nat /\ LastLits \in Nat /\ MFLimit \in Nat /\ Nibble \in Nat /\ Cont \in Nat
    /\ MinMatch >= 1 /\ Cont >= 1 /\ MinMatch + LastLits <= MFLimit + 1
    /\ Chunk \in Nat /\ Slack \in Nat /\ Chunk >= 1 /\ Chunk <= Slack + 1
  BY BuffersAssumption, BlockAssumption

LEMMA RestBytesIs ==
    ASSUME NEW l \in Nat
    PROVE  /\ HalfOf(l) \in 0 .. Nibble /\ RestBytes(l) \in Seq(Nat)
           /\ HalfOf(l) < Nibble => RestBytes(l) = <<>> /\ HalfOf(l) = l
           /\ HalfOf(l) >= Nibble =>
                 \E k \in Nat, r \in 0 .. Cont - 1 :
                    /\ l = Nibble + k * Cont + r /\ Len(RestBytes(l)) = k + 1
                    /\ \A j \in 1 .. k : RestBytes(l)[j] = Cont
                    /\ RestBytes(l)[k + 1] = r
  <1>1. Nibble \in Nat /\ Cont \in Nat \ {0}
    BY CodecNumbers
  <1>2. CASE l < Nibble
    <2>1. <<>> \in Seq(Nat)
      OBVIOUS
    <2> QED
      BY <1>1, <1>2, <2>1 DEF HalfOf, RestBytes
  <1>3. CASE l >= Nibble
    <2> DEFINE m == l - Nibble
               k == m \div Cont
               r == m % Cont
               x == [i \in 1 .. k |-> Cont]
    <2>1. m \in Nat
      BY <1>1, <1>3
    <2>2. k \in Nat /\ r \in 0 .. Cont - 1
      <3> HIDE DEF m
      <3> QED
        BY <1>1, <2>1, Quotient
    <2>3. m = k * Cont + r
      <3> HIDE DEF m
      <3> QED
        BY <1>1, <2>1
    <2>4. RestBytes(l) = x \o <<r>>
      BY <1>1, <1>3 DEF RestBytes, LenBytes
    <2> HIDE DEF k, r
    <2>5. x \in Seq(Nat) /\ Len(x) = k /\ \A j \in 1 .. k : x[j] = Cont
      BY <1>1, <2>2
    <2>6. <<r>> \in Seq(Nat) /\ Len(<<r>>) = 1 /\ <<r>>[1] = r
      BY <2>2
    <2> HIDE DEF x
    <2>7. /\ RestBytes(l) \in Seq(Nat) /\ Len(RestBytes(l)) = k + 1
          /\ \A j \in 1 .. k : RestBytes(l)[j] = Cont
          /\ RestBytes(l)[k + 1] = r
      <3> DEFINE y == <<r>>
      <3>1. y \in Seq(Nat) /\ Len(y) = 1 /\ y[1] = r /\ RestBytes(l) = x \o y
        BY <2>4, <2>6
      <3> HIDE DEF y
      <3> DEFINE z == x \o y
      <3>2. /\ Len(z) = Len(x) + Len(y)
            /\ \A o \in 1 .. Len(x) : z[o] = x[o]
            /\ \A o \in 1 .. Len(y) : z[Len(x) + o] = y[o]
        <4>1. x \in Seq(Nat) /\ y \in Seq(Nat) /\ z = x \o y
          BY <2>5, <3>1
        <4> HIDE DEF z
        <4> QED
          BY <4>1, Joined
      <3>3. z \in Seq(Nat) /\ RestBytes(l) = z
        BY <2>5, <3>1, ConcatProperties
      <3> HIDE DEF z
      <3> QED
        BY <2>2, <2>5, <3>1, <3>2, <3>3
    <2>8. HalfOf(l) = Nibble
      BY <1>3 DEF HalfOf
    <2>9. l = Nibble + k * Cont + r
      <3>1. k * Cont \in Nat /\ r \in Nat
        BY <1>1, <2>2
      <3> QED
        BY <1>1, <1>3, <2>3, <3>1
    <2> QED
      BY <1>1, <2>2, <2>7, <2>8, <2>9
  <1> QED
    BY <1>1, <1>2, <1>3

\* A length is read as it was written.
LEMMA ReadLenIs ==
    ASSUME out \in Seq(Nat), NEW l \in Nat, NEW p \in Nat, LiesAt(out, p, RestBytes(l)), p <= Len(out)
    PROVE  ReadLen(HalfOf(l), p) = [len |-> l, next |-> p + Len(RestBytes(l))]
  <1>1. Nibble \in Nat /\ Cont \in Nat /\ Len(out) \in Nat
    BY CodecNumbers
  <1>2. CASE HalfOf(l) < Nibble
    <2>1. RestBytes(l) = <<>> /\ HalfOf(l) = l
      BY <1>2, RestBytesIs
    <2>2. p + Len(<<>>) = p
      OBVIOUS
    <2> QED
      BY <1>2, <2>1, <2>2 DEF ReadLen
  <1>3. CASE ~(HalfOf(l) < Nibble)
    <2>1. HalfOf(l) >= Nibble
      BY <1>1, <1>3, RestBytesIs
    <2>2. PICK k \in Nat, r \in 0 .. Cont - 1 :
                    /\ l = Nibble + k * Cont + r /\ Len(RestBytes(l)) = k + 1
                    /\ \A j \in 1 .. k : RestBytes(l)[j] = Cont
                    /\ RestBytes(l)[k + 1] = r
      BY <2>1, RestBytesIs
    <2>3. p + (k + 1) <= Len(out) /\ \A j \in 1 .. k + 1 : out[p + j] = RestBytes(l)[j]
      BY <2>2 DEF LiesAt
    <2>4. \A j \in p .. p + k - 1 : Byte(j) = Cont
      <3> TAKE j \in p .. p + k - 1
      <3>1. (j - p) + 1 \in 1 .. k /\ (j - p) + 1 \in 1 .. k + 1 /\ p + ((j - p) + 1) = j + 1
        OBVIOUS
      <3>2. RestBytes(l)[(j - p) + 1] = Cont /\ out[p + ((j - p) + 1)] = RestBytes(l)[(j - p) + 1]
        BY <2>2, <2>3, <3>1
      <3> QED
        BY <3>1, <3>2 DEF Byte
    <2>5. Byte(p + k) = r /\ r # Cont /\ p + k \in p .. Len(out) - 1
      <3>1. k + 1 \in 1 .. k + 1 /\ p + (k + 1) = (p + k) + 1
        OBVIOUS
      <3> QED
        BY <1>1, <2>2, <2>3, <3>1 DEF Byte
    <2> DEFINE Stops(j) == Byte(j) # Cont /\ \A o \in p .. j - 1 : Byte(o) = Cont
               last == CHOOSE j \in p .. Len(out) - 1 : Stops(j)
    <2>6. Stops(p + k)
      BY <2>4, <2>5
    <2>7. \A j \in p .. Len(out) - 1 : Stops(j) => j = p + k
      <3> SUFFICES ASSUME NEW j \in p .. Len(out) - 1, Stops(j) PROVE j = p + k
        OBVIOUS
      <3>1. ~(j < p + k)
        BY <2>4
      <3>2. ~(p + k < j)
        BY <2>5
      <3> QED
        BY <3>1, <3>2
    <2>8. last = p + k
      BY <2>5, <2>6, <2>7
    <2>9. ~\A j \in p .. Len(out) - 1 : Byte(j) = Cont
      BY <2>5
    <2>10. ReadLen(HalfOf(l), p) = [len |-> Nibble + (last - p) * Cont + Byte(last), next |-> last + 1]
      BY <1>3, <2>9 DEF ReadLen
    <2> HIDE DEF last
    <2>11. last - p = k /\ last + 1 = p + (k + 1)
      BY <2>8
    <2> QED
      BY <2>2, <2>5, <2>8, <2>10, <2>11
  <1> QED
    BY <1>2, <1>3

\* What is read of any block is a length, and if it is not too long the block has it.
LEMMA ReadLenType ==
    ASSUME out \in Seq(Nat), srcLen \in Nat, NEW h \in Nat, NEW p \in Nat
    PROVE  /\ ReadLen(h, p).len \in Nat /\ ReadLen(h, p).next \in Nat
           /\ p <= ReadLen(h, p).next \/ ReadLen(h, p).next > Len(out)
           /\ p <= Len(out) /\ ReadLen(h, p).len <= srcLen => ReadLen(h, p).next <= Len(out)
  <1>1. Nibble \in Nat /\ Cont \in Nat /\ Len(out) \in Nat
    BY CodecNumbers
  <1>2. CASE h < Nibble
    BY <1>1, <1>2 DEF ReadLen
  <1>3. CASE ~(h < Nibble) /\ \A j \in p .. Len(out) - 1 : Byte(j) = Cont
    BY <1>1, <1>3 DEF ReadLen, Malformed
  <1>4. CASE ~(h < Nibble) /\ ~\A j \in p .. Len(out) - 1 : Byte(j) = Cont
    <2> DEFINE T == {j \in Nat : j \in p .. Len(out) - 1 /\ Byte(j) # Cont}
               Stops(j) == Byte(j) # Cont /\ \A o \in p .. j - 1 : Byte(o) = Cont
               last == CHOOSE j \in p .. Len(out) - 1 : Stops(j)
    <2>1. PICK j \in T : \A o \in T : j <= o
      <3>1. T \in SUBSET Nat /\ T # {}
        BY <1>1, <1>4
      <3> HIDE DEF T
      <3> QED
        BY <3>1, LeastNatural
    <2>2. j \in p .. Len(out) - 1 /\ Stops(j)
      <3>1. ASSUME NEW o \in p .. j - 1 PROVE Byte(o) = Cont
        <4>1. o \in Nat /\ o \in p .. Len(out) - 1 /\ ~(j <= o)
          BY <1>1, <2>1
        <4> QED
          BY <2>1, <4>1
      <3> QED
        BY <2>1, <3>1
    <2>3. last \in p .. Len(out) - 1
      BY <2>2
    <2>4. ReadLen(h, p) = [len |-> Nibble + (last - p) * Cont + Byte(last), next |-> last + 1]
      BY <1>4 DEF ReadLen
    <2> HIDE DEF last
    <2>5. Byte(last) \in Nat /\ last - p \in Nat /\ last + 1 \in Nat /\ last + 1 <= Len(out)
          /\ p <= last + 1
      <3>1. last + 1 \in 1 .. Len(out) /\ last - p \in Nat /\ p <= last + 1
        BY <1>1, <2>3
      <3> QED
        BY <3>1 DEF Byte
    <2>6. (last - p) * Cont \in Nat
      BY <1>1, <2>5
    <2>7. Nibble + (last - p) * Cont + Byte(last) \in Nat
      BY <1>1, <2>5, <2>6
    <2>8. /\ ReadLen(h, p).len = Nibble + (last - p) * Cont + Byte(last)
          /\ ReadLen(h, p).next = last + 1
      BY <2>4
    <2> QED
      BY <2>5, <2>7, <2>8
  <1> QED
    BY <1>2, <1>3, <1>4

----------------------------------------------------------------------------
\* Sequences.

LEMMA TokenIs ==
    ASSUME NEW a \in 0 .. Nibble, NEW b \in 0 .. Nibble
    PROVE  /\ Token(a, b) \in Nat
           /\ Token(a, b) \div (Nibble + 1) = a /\ Token(a, b) % (Nibble + 1) = b
  <1>1. Nibble \in Nat
    BY CodecNumbers
  <1> DEFINE m == Nibble + 1
  <1>2. m \in Nat \ {0} /\ b \in 0 .. m - 1 /\ a \in Nat
    BY <1>1
  <1>3. Token(a, b) = a * m + b
    BY DEF Token
  <1> HIDE DEF m
  <1>4. (a * m + b) \div m = a /\ (a * m + b) % m = b
    BY <1>2, RemainderIs
  <1>5. a * m + b \in Nat
    BY <1>2
  <1> QED
    BY <1>3, <1>4, <1>5 DEF m

\* The literals of a sequence, as the part of src they are.
LEMMA PartOfSrc ==
    ASSUME src \in Seq(Nat), NEW from \in Nat, NEW to \in Nat, from <= to, to <= srcLen
    PROVE  /\ SubSeq(src, from + 1, to) \in Seq(Nat) /\ Len(SubSeq(src, from + 1, to)) = to - from
           /\ \A j \in 1 .. to - from : SubSeq(src, from + 1, to)[j] = SrcAt(from + j - 1)
  <1>1. Len(src) \in Nat /\ srcLen = Len(src) /\ \A i \in 1 .. Len(src) : src[i] \in Nat
    BY DEF srcLen
  <1> DEFINE y == [j \in 1 .. to - from |-> src[from + j]]
             b == to - from
  <1>2. b \in Nat /\ to = from + b
    OBVIOUS
  <1> HIDE DEF b
  <1>3. y \in Seq(Nat) /\ Len(y) = b /\ \A j \in 1 .. b : y[j] = src[from + j]
    <2>1. y = [j \in 1 .. b |-> src[from + j]]
      BY <1>2
    <2>2. \A j \in 1 .. b : src[from + j] \in Nat
      BY <1>1, <1>2
    <2> QED
      BY <1>2, <2>1, <2>2
  <1> HIDE DEF y
  <1>4. SubSeq(src, from + 1, from + Len(y)) = y
    BY <1>1, <1>2, <1>3, SliceIs
  <1>5. \A j \in 1 .. b : SrcAt(from + j - 1) = src[from + j]
    <2> TAKE j \in 1 .. b
    <2>1. (from + j - 1) + 1 = from + j
      BY <1>2
    <2> QED
      BY <2>1 DEF SrcAt
  <1> QED
    BY <1>2, <1>3, <1>4, <1>5 DEF b

\* What is read at p is a token and literals, which begin at next.
ReadsLiterals(p, from, to, half, next) ==
    /\ p < Len(out) /\ next \in Nat
    /\ Len(TokenAndLiterals(from, to, half)) = (next - p) + (to - from)
    /\ Byte(p) % (Nibble + 1) = half
    /\ ReadLen(Byte(p) \div (Nibble + 1), p + 1) = [len |-> to - from, next |-> next]
    /\ \A i \in 0 .. (to - from) - 1 : Byte(next + i) = SrcAt(from + i)

\* A token and literals that lie at p are read as they were written.
LEMMA LiteralsRead ==
    ASSUME src \in Seq(Nat), out \in Seq(Nat), NEW p \in Nat, NEW from \in Nat, NEW to \in Nat,
           from <= to, to <= srcLen, NEW half \in 0 .. Nibble,
           LiesAt(out, p, TokenAndLiterals(from, to, half))
    PROVE  ReadsLiterals(p, from, to, half, p + 1 + Len(RestBytes(to - from)))
  <1> DEFINE l == to - from
             t == <<Token(HalfOf(l), half)>>
             r == RestBytes(l)
             s == SubSeq(src, from + 1, to)
             next == p + 1 + Len(r)
  <1>1. l \in Nat /\ Len(out) \in Nat
    OBVIOUS
  <1>2. Token(HalfOf(l), half) \in Nat /\ r \in Seq(Nat) /\ HalfOf(l) \in 0 .. Nibble
    <2> HIDE DEF l
    <2> QED
      BY <1>1, RestBytesIs, TokenIs
  <1>3. s \in Seq(Nat) /\ Len(s) = l /\ \A j \in 1 .. l : s[j] = SrcAt(from + j - 1)
    BY PartOfSrc
  <1>4. TokenAndLiterals(from, to, half) = (t \o r) \o s
    BY DEF TokenAndLiterals
  <1>5. t \in Seq(Nat) /\ Len(t) = 1 /\ t[1] = Token(HalfOf(l), half)
    BY <1>2
  <1> HIDE DEF l, t, r, s
  <1>6. t \o r \in Seq(Nat)
    BY <1>2, <1>5, ConcatProperties
  <1> DEFINE tr == t \o r
  <1>7. LiesAt(out, p, tr) /\ LiesAt(out, p + Len(tr), s) /\ Len(tr \o s) = Len(tr) + Len(s)
    <2> HIDE DEF tr
    <2>1. tr \in Seq(Nat) /\ LiesAt(out, p, tr \o s) /\ s \in Seq(Nat)
      BY <1>3, <1>4, <1>6 DEF tr
    <2> HIDE DEF tr
    <2> QED
      BY <2>1, LiesInParts
  <1>8. LiesAt(out, p, t) /\ LiesAt(out, p + Len(t), r) /\ Len(tr) = Len(t) + Len(r)
    <2>1. t \in Seq(Nat) /\ r \in Seq(Nat) /\ LiesAt(out, p, t \o r)
      BY <1>2, <1>5, <1>7
    <2> QED
      BY <2>1, LiesInParts
  <1>9. Len(r) \in Nat /\ p + Len(t) = p + 1 /\ p + Len(tr) = next /\ next \in Nat
    <2>1. Len(r) \in Nat
      BY <1>2
    <2> QED
      BY <1>5, <1>8, <2>1
  <1> HIDE DEF tr
  <1>10. p + 1 <= Len(out) /\ out[p + 1] = Token(HalfOf(l), half)
    <2>1. 1 \in 1 .. Len(t)
      BY <1>5
    <2> QED
      BY <1>5, <1>8, <2>1 DEF LiesAt
  <1>11. Byte(p) \div (Nibble + 1) = HalfOf(l) /\ Byte(p) % (Nibble + 1) = half
    BY <1>2, <1>10, TokenIs DEF Byte
  <1>12. ReadLen(HalfOf(l), p + 1) = [len |-> l, next |-> next]
    <2>1. LiesAt(out, p + 1, RestBytes(l)) /\ p + 1 \in Nat
      BY <1>8, <1>9 DEF r
    <2>2. ReadLen(HalfOf(l), p + 1) = [len |-> l, next |-> (p + 1) + Len(RestBytes(l))]
      BY <1>1, <1>10, <2>1, ReadLenIs
    <2> QED
      BY <2>2 DEF r
  <1>13. \A i \in 0 .. l - 1 : Byte(next + i) = SrcAt(from + i)
    <2> TAKE i \in 0 .. l - 1
    <2>1. i + 1 \in 1 .. l /\ from + (i + 1) - 1 = from + i /\ (next + i) + 1 = next + (i + 1)
      BY <1>1, <1>9
    <2>2. out[next + (i + 1)] = s[i + 1]
      BY <1>3, <1>7, <1>9, <2>1 DEF LiesAt
    <2> HIDE DEF next
    <2> QED
      BY <1>3, <2>1, <2>2 DEF Byte
  <1>14. Len(tr \o s) = (next - p) + l
    BY <1>1, <1>3, <1>5, <1>7, <1>8, <1>9
  <1> HIDE DEF next
  <1>15. /\ p < Len(out) /\ next \in Nat /\ Len(TokenAndLiterals(from, to, half)) = (next - p) + l
         /\ Byte(p) % (Nibble + 1) = half
         /\ ReadLen(Byte(p) \div (Nibble + 1), p + 1) = [len |-> l, next |-> next]
         /\ \A i \in 0 .. l - 1 : Byte(next + i) = SrcAt(from + i)
    BY <1>1, <1>4, <1>9, <1>10, <1>11, <1>12, <1>13, <1>14 DEF tr
  <1>16. ReadsLiterals(p, from, to, half, next)
    BY <1>15 DEF ReadsLiterals, l
  <1> QED
    BY <1>16 DEF next, r, l

LEMMA LiteralsType ==
    ASSUME src \in Seq(Nat), NEW from \in Nat, NEW to \in Nat, from <= to, to <= srcLen,
           NEW half \in 0 .. Nibble
    PROVE  TokenAndLiterals(from, to, half) \in Seq(Nat)
  <1> DEFINE l == to - from
             t == <<Token(HalfOf(l), half)>>
             r == RestBytes(l)
             s == SubSeq(src, from + 1, to)
  <1>1. l \in Nat
    OBVIOUS
  <1>2. Token(HalfOf(l), half) \in Nat /\ r \in Seq(Nat)
    <2> HIDE DEF l
    <2> QED
      BY <1>1, RestBytesIs, TokenIs
  <1>3. s \in Seq(Nat) /\ t \in Seq(Nat)
    <2>1. s \in Seq(Nat)
      BY PartOfSrc
    <2>2. t \in Seq(Nat)
      BY <1>2
    <2> QED
      BY <2>1, <2>2
  <1>4. TokenAndLiterals(from, to, half) = (t \o r) \o s
    BY DEF TokenAndLiterals
  <1> HIDE DEF t, r, s
  <1> QED
    BY <1>2, <1>3, <1>4, ConcatProperties

\* An offset that a match may have is in its two bytes.
LEMMA OffsetBytesAre ==
    ASSUME NEW off \in Nat
    PROVE  /\ OffsetBytes(off) \in Seq(Nat) /\ Len(OffsetBytes(off)) = 2
           /\ OffsetBytes(off)[1] \in Nat /\ OffsetBytes(off)[2] \in Nat
           /\ off <= MaxOffset => OffsetBytes(off)[1] + OffsetBytes(off)[2] * (Cont + 1) = off
  <1> DEFINE c == Cont + 1
             h == off \div c
  <1>1. c \in Nat \ {0} /\ MaxOffset \in Nat /\ MaxOffset < c * c /\ c * c \in Nat
    BY BlockAssumption
  <1>2. OffsetBytes(off) = <<off % c, h % c>>
    BY DEF OffsetBytes
  <1> HIDE DEF c
  <1>3. h \in Nat /\ off % c \in 0 .. c - 1 /\ h * c <= off
    BY <1>1, Quotient
  <1>4. off = c * h + (off % c)
    BY <1>1
  <1> HIDE DEF h
  <1>5. h % c \in 0 .. c - 1
    BY <1>1, <1>3, Quotient
  <1>6. off % c \in Nat /\ h % c \in Nat
    BY <1>1, <1>3, <1>5
  <1>7. ASSUME off <= MaxOffset PROVE (off % c) + (h % c) * c = off
    <2>1. h < c
      <3> SUFFICES ASSUME ~(h < c) PROVE FALSE
        OBVIOUS
      <3> DEFINE b == c - 1
      <3>1. b \in Nat /\ b < h /\ b + 1 = c
        BY <1>1, <1>3
      <3> HIDE DEF b
      <3>2. (b + 1) * c <= h * c
        BY <1>1, <1>3, <3>1, Multiples
      <3>3. c * c <= h * c /\ h * c \in Nat
        BY <1>1, <1>3, <3>1, <3>2
      <3> QED
        BY <1>1, <1>3, <1>7, <3>3
    <2>2. h % c = h
      <3>1. 0 \in Nat /\ h \in 0 .. c - 1
        BY <1>1, <1>3, <2>1
      <3>2. (0 * c + h) % c = h
        BY <1>1, <3>1, RemainderIs
      <3>3. 0 * c + h = h
        BY <1>1, <1>3
      <3> QED
        BY <3>2, <3>3
    <2>3. c * h = h * c /\ h * c \in Nat
      BY <1>1, <1>3
    <2> QED
      BY <1>4, <1>6, <2>2, <2>3
  <1>8. OffsetBytes(off) \in Seq(Nat) /\ Len(OffsetBytes(off)) = 2
        /\ OffsetBytes(off)[1] = off % c /\ OffsetBytes(off)[2] = h % c
    BY <1>2, <1>6
  <1>9. OffsetBytes(off)[1] \in Nat /\ OffsetBytes(off)[2] \in Nat
    BY <1>6, <1>8
  <1>10. off <= MaxOffset => OffsetBytes(off)[1] + OffsetBytes(off)[2] * c = off
    BY <1>7, <1>8
  <1> QED
    BY <1>8, <1>9, <1>10 DEF c

\* A sequence that lies at p is read as it was written.
LEMMA SequenceRead ==
    ASSUME src \in Seq(Nat), out \in Seq(Nat), NEW p \in Nat, NEW from \in Nat, NEW to \in Nat,
           from <= to, to <= srcLen, NEW off \in Nat, off <= MaxOffset, NEW len \in Nat, len >= MinMatch,
           LiesAt(out, p, Sequence(from, to, off, len))
    PROVE  LET n1 == p + 1 + Len(RestBytes(to - from))
               n2 == n1 + (to - from)
               past == p + Len(Sequence(from, to, off, len))
           IN  /\ p < Len(out) /\ n1 \in Nat
               /\ ReadLen(Byte(p) \div (Nibble + 1), p + 1) = [len |-> to - from, next |-> n1]
               /\ \A i \in 0 .. (to - from) - 1 : Byte(n1 + i) = SrcAt(from + i)
               /\ n2 + 1 < Len(out)
               /\ Byte(n2) + Byte(n2 + 1) * (Cont + 1) = off
               /\ ReadLen(Byte(p) % (Nibble + 1), n2 + 2) = [len |-> len - MinMatch, next |-> past]
               /\ past <= Len(out) /\ past \in Nat
  <1> DEFINE m == len - MinMatch
             a == TokenAndLiterals(from, to, HalfOf(m))
             o == OffsetBytes(off)
             lo == o[1]
             hi == o[2]
             r == RestBytes(m)
             ao == a \o o
             n1 == p + 1 + Len(RestBytes(to - from))
             n2 == n1 + (to - from)
             past == p + Len(Sequence(from, to, off, len))
  <1>1. m \in Nat /\ MinMatch \in Nat /\ Cont + 1 \in Nat \ {0} /\ to - from \in Nat
        /\ Len(out) \in Nat
    BY CodecNumbers
  <1>2. Sequence(from, to, off, len) = (a \o o) \o r
    BY DEF Sequence
  <1> HIDE DEF m
  <1>3. HalfOf(m) \in 0 .. Nibble /\ r \in Seq(Nat)
    BY <1>1, RestBytesIs
  <1>4. a \in Seq(Nat)
    BY <1>3, LiteralsType
  <1>5. /\ lo \in Nat /\ hi \in Nat /\ lo + hi * (Cont + 1) = off
        /\ o \in Seq(Nat) /\ Len(o) = 2
    BY OffsetBytesAre
  <1> HIDE DEF o
  <1>6. o \in Seq(Nat) /\ Len(o) = 2 /\ o[1] = lo /\ o[2] = hi
    BY <1>5
  <1> HIDE DEF lo, hi, r, a
  <1>7. LiesAt(out, p, ao) /\ LiesAt(out, p + Len(ao), r)
        /\ Len(ao \o r) = Len(ao) + Len(r)
    <2>1. ao \in Seq(Nat) /\ LiesAt(out, p, ao \o r)
      BY <1>2, <1>4, <1>6, ConcatProperties
    <2> HIDE DEF ao
    <2> QED
      BY <1>3, <2>1, LiesInParts
  <1>8. LiesAt(out, p, a) /\ LiesAt(out, p + Len(a), o) /\ Len(ao) = Len(a) + Len(o)
    <2>1. a \in Seq(Nat) /\ o \in Seq(Nat) /\ LiesAt(out, p, a \o o)
      BY <1>4, <1>6, <1>7
    <2> QED
      BY <2>1, LiesInParts
  <1> HIDE DEF ao, n1
  <1>9. /\ p < Len(out) /\ n1 \in Nat /\ Len(a) = (n1 - p) + (to - from)
        /\ Byte(p) % (Nibble + 1) = HalfOf(m)
        /\ ReadLen(Byte(p) \div (Nibble + 1), p + 1) = [len |-> to - from, next |-> n1]
        /\ \A i \in 0 .. (to - from) - 1 : Byte(n1 + i) = SrcAt(from + i)
    <2>1. LiesAt(out, p, TokenAndLiterals(from, to, HalfOf(m)))
      BY <1>8 DEF a
    <2>2. ReadsLiterals(p, from, to, HalfOf(m), n1)
      BY <1>3, <2>1, LiteralsRead DEF n1
    <2> QED
      BY <2>2 DEF ReadsLiterals, a
  <1>10. p + Len(a) = n2 /\ n2 \in Nat
    BY <1>1, <1>9
  <1> HIDE DEF n2
  <1>11. n2 + 2 <= Len(out) /\ out[n2 + 1] = lo /\ out[n2 + 2] = hi
    <2>1. 1 \in 1 .. Len(o) /\ 2 \in 1 .. Len(o)
      BY <1>6
    <2>2. n2 + Len(o) <= Len(out) /\ out[n2 + 1] = o[1] /\ out[n2 + 2] = o[2]
      BY <1>8, <1>10, <2>1 DEF LiesAt
    <2> QED
      BY <1>6, <2>2
  <1>12. Byte(n2) = lo /\ Byte(n2 + 1) = hi
    <2>1. (n2 + 1) + 1 = n2 + 2
      BY <1>10
    <2> QED
      BY <1>11, <2>1 DEF Byte
  <1>13. p + Len(ao) = n2 + 2
    <2>1. Len(ao) = Len(a) + 2 /\ Len(a) \in Nat
      BY <1>4, <1>6, <1>8
    <2>2. PICK x, y, z : x = Len(a) /\ y = Len(ao) /\ z = n2
      OBVIOUS
    <2>3. x \in Nat /\ y = x + 2 /\ p + x = z /\ z \in Nat
      BY <1>10, <2>1, <2>2
    <2>4. p + y = z + 2
      BY <2>3
    <2> QED
      BY <2>2, <2>4
  <1>14. past = (n2 + 2) + Len(r) /\ past <= Len(out) /\ past \in Nat
    <2>1. Len(r) \in Nat /\ Len(ao) \in Nat
      <3>1. Len(r) \in Nat
        BY <1>3
      <3>2. Len(a) \in Nat
        BY <1>4
      <3> QED
        BY <1>6, <1>8, <3>1, <3>2
    <2>2. past = p + (Len(ao) + Len(r))
      BY <1>2, <1>7 DEF ao
    <2>3. p + Len(ao) + Len(r) <= Len(out)
      BY <1>7 DEF LiesAt
    <2>4. Len(out) \in Nat /\ n2 \in Nat
      BY <1>1, <1>10
    <2> DEFINE x == Len(ao)
               y == Len(r)
    <2>5. x \in Nat /\ y \in Nat /\ past = p + (x + y) /\ p + x + y <= Len(out) /\ p + x = n2 + 2
      BY <1>13, <2>1, <2>2, <2>3
    <2> HIDE DEF past, x, y
    <2>6. past = (n2 + 2) + y /\ past <= Len(out) /\ past \in Nat
      BY <2>4, <2>5
    <2> QED
      BY <2>6 DEF y
  <1>15. ReadLen(HalfOf(m), n2 + 2) = [len |-> m, next |-> past]
    <2>1. LiesAt(out, n2 + 2, RestBytes(m)) /\ n2 + 2 \in Nat
      BY <1>7, <1>10, <1>13 DEF r
    <2>2. ReadLen(HalfOf(m), n2 + 2) = [len |-> m, next |-> (n2 + 2) + Len(RestBytes(m))]
      BY <1>1, <1>11, <2>1, ReadLenIs
    <2> QED
      BY <1>14, <2>2 DEF r
  <1> HIDE DEF past
  <1>16. n2 + 1 < Len(out)
    BY <1>1, <1>10, <1>11
  <1>17. /\ p < Len(out) /\ n1 \in Nat
         /\ ReadLen(Byte(p) \div (Nibble + 1), p + 1) = [len |-> to - from, next |-> n1]
         /\ \A i \in 0 .. (to - from) - 1 : Byte(n1 + i) = SrcAt(from + i)
         /\ n2 + 1 < Len(out)
         /\ Byte(n2) + Byte(n2 + 1) * (Cont + 1) = off
         /\ ReadLen(Byte(p) % (Nibble + 1), n2 + 2) = [len |-> m, next |-> past]
         /\ past <= Len(out) /\ past \in Nat
    BY <1>5, <1>9, <1>12, <1>14, <1>15, <1>16
  <1> QED
    BY <1>17 DEF n1, n2, past, m

LEMMA SequenceType ==
    ASSUME src \in Seq(Nat), NEW from \in Nat, NEW to \in Nat, from <= to, to <= srcLen,
           NEW off \in Nat, NEW len \in Nat, len >= MinMatch
    PROVE  Sequence(from, to, off, len) \in Seq(Nat) /\ Len(Sequence(from, to, off, len)) \in Nat
  <1> DEFINE m == len - MinMatch
             a == TokenAndLiterals(from, to, HalfOf(m))
             o == OffsetBytes(off)
             r == RestBytes(m)
             u == (a \o o) \o r
  <1>1. m \in Nat /\ Cont + 1 \in Nat \ {0}
    BY CodecNumbers
  <1>2. o \in Seq(Nat)
    BY OffsetBytesAre
  <1>3. HalfOf(m) \in 0 .. Nibble /\ r \in Seq(Nat)
    <2> HIDE DEF m
    <2> QED
      BY <1>1, RestBytesIs
  <1>4. a \in Seq(Nat)
    BY <1>3, LiteralsType
  <1>5. Sequence(from, to, off, len) = u
    BY DEF Sequence
  <1> HIDE DEF a, o, r
  <1>6. u \in Seq(Nat)
    <2>1. a \o o \in Seq(Nat)
      BY <1>2, <1>4, ConcatProperties
    <2> QED
      BY <1>3, <2>1, ConcatProperties
  <1> HIDE DEF u
  <1>7. Len(u) \in Nat
    BY <1>6
  <1> QED
    BY <1>5, <1>6, <1>7

----------------------------------------------------------------------------
\* Writes to the buffer.

\* b2 is b with the cells of f at the len positions from at on.
Wrote(b, b2, c, at, len, f) ==
    /\ b2 \in [0 .. c - 1 -> Nat]
    /\ \A i \in 0 .. c - 1 : b2[i] = IF i \in at .. at + len - 1 THEN f[i] ELSE b[i]
\* A buffer, and cells for it.
Cells(c, b, at, len, f) ==
    /\ c \in Nat /\ at \in Nat /\ len \in Nat /\ at + len <= c
    /\ b \in [0 .. c - 1 -> Nat] /\ f \in [at .. at + len - 1 -> Nat]

LEMMA PutIs ==
    ASSUME NEW c, NEW b, NEW at, NEW len, NEW f, Cells(c, b, at, len, f)
    PROVE  Wrote(b, Put(b, f), c, at, len, f)
  <1> USE DEF Cells
  <1>1. DOMAIN b \cup DOMAIN f = 0 .. c - 1 /\ DOMAIN f = at .. at + len - 1
    <2>1. DOMAIN b = 0 .. c - 1 /\ DOMAIN f = at .. at + len - 1
      OBVIOUS
    <2>2. at .. at + len - 1 \subseteq 0 .. c - 1
      OBVIOUS
    <2> QED
      BY <2>1, <2>2
  <1>2. Put(b, f) = [i \in 0 .. c - 1 |-> IF i \in at .. at + len - 1 THEN f[i] ELSE b[i]]
    BY <1>1 DEF Put
  <1>3. \A i \in 0 .. c - 1 : (IF i \in at .. at + len - 1 THEN f[i] ELSE b[i]) \in Nat
    OBVIOUS
  <1> QED
    BY <1>2, <1>3 DEF Wrote

\* b2 is b with len positions from at on copied from dist before them.
Continues(b, b2, c, at, len, dist) ==
    /\ b2 \in [0 .. c - 1 -> Nat]
    /\ \A i \in 0 .. at - 1 : b2[i] = b[i]
    /\ \A j \in 0 .. len - 1 : b2[at + j] = b2[at + j - dist]

LEMMA BehindIs ==
    ASSUME NEW c \in Nat, NEW b \in [0 .. c - 1 -> Nat], NEW at \in Nat, NEW len \in Nat,
           at + len <= c, NEW dist \in Nat, dist <= at, len <= dist
    PROVE  LET b2 == Put(b, Behind(b, at, len, dist))
           IN  /\ Continues(b, b2, c, at, len, dist)
               /\ \A i \in 0 .. c - 1 : i < at \/ i >= at + len => b2[i] = b[i]
  <1> DEFINE f == Behind(b, at, len, dist)
             b2 == Put(b, f)
  <1>1. \A i \in at .. at + len - 1 : i - dist \in 0 .. c - 1 /\ i - dist < at
    OBVIOUS
  <1>2. f \in [at .. at + len - 1 -> Nat] /\ \A i \in at .. at + len - 1 : f[i] = b[i - dist]
    BY <1>1 DEF Behind
  <1> HIDE DEF f
  <1>3. /\ b2 \in [0 .. c - 1 -> Nat]
        /\ \A i \in 0 .. c - 1 : b2[i] = IF i \in at .. at + len - 1 THEN f[i] ELSE b[i]
    <2>1. Cells(c, b, at, len, f)
      BY <1>2 DEF Cells
    <2>2. Wrote(b, b2, c, at, len, f)
      BY <2>1, PutIs
    <2> QED
      BY <2>2 DEF Wrote
  <1> HIDE DEF b2
  <1>4. \A i \in 0 .. c - 1 : i < at \/ i >= at + len => b2[i] = b[i]
    BY <1>3
  <1>5. \A i \in 0 .. at - 1 : b2[i] = b[i]
    BY <1>4
  <1>6. ASSUME NEW j \in 0 .. len - 1 PROVE b2[at + j] = b2[at + j - dist]
    <2>1. at + j \in at .. at + len - 1 /\ at + j \in 0 .. c - 1
      OBVIOUS
    <2>2. at + j - dist \in 0 .. at - 1 /\ b2[at + j] = b[at + j - dist]
      BY <1>1, <1>2, <1>3, <2>1
    <2> QED
      BY <1>5, <2>2
  <1>7. Continues(b, b2, c, at, len, dist)
    BY <1>3, <1>5, <1>6 DEF Continues
  <1> QED
    BY <1>4, <1>7 DEF b2, f

\* len positions of src from at on repeat those dist before them.
Repeats(at, len, dist) == \A j \in 0 .. len - 1 : SrcAt(at + j) = SrcAt(at + j - dist)
\* A buffer holds src up to a position.
HoldsSrc(b, upto) == \A i \in 0 .. upto - 1 : b[i] = SrcAt(i)

\* A part of src that repeats what is dist before it is completed by such a copy.
LEMMA CopyIsSrc ==
    ASSUME NEW c \in Nat, NEW b, NEW b2, NEW at \in Nat, NEW len \in Nat, NEW dist \in Nat,
           dist >= 1, dist <= at, Continues(b, b2, c, at, len, dist),
           HoldsSrc(b, at), Repeats(at, len, dist)
    PROVE  HoldsSrc(b2, at + len)
  <1> SUFFICES \A i \in 0 .. at + len - 1 : b2[i] = SrcAt(i)
    BY DEF HoldsSrc
  <1>0. /\ \A i \in 0 .. at - 1 : b[i] = SrcAt(i) /\ b2[i] = b[i]
        /\ \A j \in 0 .. len - 1 : SrcAt(at + j) = SrcAt(at + j - dist) /\ b2[at + j] = b2[at + j - dist]
    BY DEF HoldsSrc, Repeats, Continues
  <1> DEFINE Wrong == {i \in Nat : i <= at + len - 1 /\ b2[i] # SrcAt(i)}
  <1> SUFFICES ASSUME Wrong # {} PROVE FALSE
    OBVIOUS
  <1>1. PICK i \in Wrong : \A o \in Wrong : i <= o
    <2>1. Wrong \in SUBSET Nat
      OBVIOUS
    <2> HIDE DEF Wrong
    <2> QED
      BY <2>1, LeastNatural
  <1>2. i \in Nat /\ i <= at + len - 1 /\ b2[i] # SrcAt(i)
    OBVIOUS
  <1>3. \A o \in Nat : o < i => b2[o] = SrcAt(o)
    <2> TAKE o \in Nat
    <2> SUFFICES ASSUME o < i, b2[o] # SrcAt(o) PROVE FALSE
      OBVIOUS
    <2>1. o \in Wrong /\ ~(i <= o)
      BY <1>2
    <2> QED
      BY <1>1, <2>1
  <1>4. ~(i < at)
    <2> SUFFICES ASSUME i < at PROVE FALSE
      OBVIOUS
    <2>1. i \in 0 .. at - 1
      BY <1>2
    <2> QED
      BY <1>0, <1>2, <2>1
  <1> DEFINE j == i - at
  <1>5. j \in 0 .. len - 1 /\ at + j = i /\ at + j - dist \in Nat /\ at + j - dist < i
    BY <1>2, <1>4
  <1> HIDE DEF j
  <1>6. b2[at + j] = b2[at + j - dist] /\ SrcAt(at + j) = SrcAt(at + j - dist)
    BY <1>0, <1>5
  <1>7. b2[at + j - dist] = SrcAt(at + j - dist)
    BY <1>3, <1>5
  <1> QED
    BY <1>2, <1>5, <1>6, <1>7

LEMMA ContinuesFurther ==
    ASSUME NEW c, NEW b0, NEW b, NEW b2, NEW at \in Nat, NEW m \in Nat, NEW k \in Nat, NEW dist \in Nat,
           dist <= at, Continues(b0, b, c, at, m, dist), Continues(b, b2, c, at + m, k, dist)
    PROVE  Continues(b0, b2, c, at, m + k, dist)
  <1>1. b2 \in [0 .. c - 1 -> Nat] /\ \A i \in 0 .. (at + m) - 1 : b2[i] = b[i]
    BY DEF Continues
  <1>2. \A i \in 0 .. at - 1 : b2[i] = b0[i]
    <2> TAKE i \in 0 .. at - 1
    <2>1. i \in 0 .. (at + m) - 1
      OBVIOUS
    <2> QED
      BY <1>1, <2>1 DEF Continues
  <1>3. ASSUME NEW j \in 0 .. (m + k) - 1 PROVE b2[at + j] = b2[at + j - dist]
    <2>1. CASE j < m
      <3>1. j \in 0 .. m - 1 /\ at + j \in 0 .. (at + m) - 1 /\ at + j - dist \in 0 .. (at + m) - 1
        BY <2>1
      <3>2. b[at + j] = b[at + j - dist]
        BY <3>1 DEF Continues
      <3> QED
        BY <1>1, <3>1, <3>2
    <2>2. CASE ~(j < m)
      <3> DEFINE e == j - m
      <3>1. e \in 0 .. k - 1 /\ (at + m) + e = at + j
        BY <2>2
      <3>2. b2[(at + m) + e] = b2[(at + m) + e - dist]
        BY <3>1 DEF Continues
      <3> QED
        BY <3>1, <3>2
    <2> QED
      BY <2>1, <2>2
  <1> QED
    BY <1>1, <1>2, <1>3 DEF Continues

\* Chunks, each copied after the one before it, are one such copy if they do not overlap
\* what they are copied from.
LEMMA ChunksContinue ==
    ASSUME NEW n \in Nat, n = Capacity, full \in [0 .. n - 1 -> Nat], di \in Nat, ml \in Nat,
           offset \in Nat, offset >= Chunk, offset <= di, di + ml + Slack <= n
    PROVE  Continues(full, ChunkCopy, n, di, ml, offset)
  <1> DEFINE T == [0 .. n - 1 -> Nat]
             K == Chunks
             From0(k) == di + k * Chunk
             After(k, b) == Put(b, Behind(b, From0(k), Chunk, offset))
             f == [k \in Nat |-> [b \in T |-> IF k < K THEN After(k, b) ELSE b]]
             Steps(g) == g = [k \in 0 .. K |->
                                 IF k = 0 THEN full
                                 ELSE Put(g[k - 1], Behind(g[k - 1], di + (k - 1) * Chunk, Chunk, offset))]
             g == CHOOSE h : Steps(h)
  <1>1. Chunk \in Nat \ {0} /\ Slack \in Nat /\ Chunk <= Slack + 1
    BY CodecNumbers
  <1>2. K \in Nat /\ K * Chunk <= ml + Chunk - 1 /\ ml + Chunk - 1 < (K + 1) * Chunk
    <2>1. ml + Chunk - 1 \in Nat
      BY <1>1
    <2> QED
      BY <1>1, <2>1, Quotient DEF Chunks
  <1>3. ChunkCopy = g[K]
    BY DEF ChunkCopy
  <1> HIDE DEF K
  <1>4. ml <= K * Chunk
    <2>1. (K + 1) * Chunk = K * Chunk + Chunk /\ K * Chunk \in Nat
      BY <1>1, <1>2
    <2> QED
      BY <1>1, <1>2, <2>1
  <1>5. ASSUME NEW k \in Nat, k < K
        PROVE  From0(k) \in Nat /\ From0(k) + Chunk <= n /\ offset <= From0(k)
               /\ From0(k) + Chunk = From0(k + 1)
    <2>1. k * Chunk \in Nat /\ (k + 1) * Chunk = k * Chunk + Chunk /\ (k + 1) * Chunk <= K * Chunk
          /\ K * Chunk \in Nat
      <3>1. (k + 1) * Chunk <= K * Chunk
        BY <1>1, <1>2, <1>5, Multiples
      <3> QED
        BY <1>1, <1>2, <3>1
    <2>2. k * Chunk + Chunk <= ml + Chunk - 1
      BY <1>1, <1>2, <2>1
    <2>3. di + (k * Chunk + Chunk) <= di + (ml + Slack)
      BY <1>1, <2>1, <2>2
    <2> QED
      BY <1>1, <2>1, <2>3
  <1> HIDE DEF From0
  <1>6. ASSUME NEW k \in Nat, k < K, NEW b \in T
        PROVE  /\ Continues(b, After(k, b), n, From0(k), Chunk, offset)
               /\ After(k, b) \in T
    <2>1. Continues(b, After(k, b), n, From0(k), Chunk, offset)
      BY <1>1, <1>5, <1>6, BehindIs
    <2> QED
      BY <2>1 DEF Continues
  <1> HIDE DEF After
  <1>7. full \in T /\ f \in [Nat -> [T -> T]]
    BY <1>6
  <1>8. PICK h : Recurs(T, full, f, K, h)
    <2> HIDE DEF f, T
    <2> QED
      BY <1>2, <1>7, RecursionUpTo
  <1>9. /\ h \in [0 .. K -> T] /\ h[0] = full
        /\ \A k \in 0 .. K - 1 : h[k + 1] = After(k, h[k])
    <2>1. /\ h \in [0 .. K -> T] /\ h[0] = full
          /\ \A k \in 0 .. K - 1 : h[k + 1] = f[k][h[k]]
      BY <1>8 DEF Recurs
    <2>2. \A k \in 0 .. K - 1 : k \in Nat /\ k < K /\ h[k] \in T
      BY <1>2, <2>1
    <2>3. \A k \in 0 .. K - 1 : f[k][h[k]] = After(k, h[k])
      BY <2>2
    <2> QED
      BY <2>1, <2>3
  <1>10. Steps(h)
    <2>1. h = [k \in 0 .. K |-> h[k]]
      <3> HIDE DEF T
      <3> QED
        BY <1>9
    <2>2. ASSUME NEW k \in 0 .. K, k # 0
          PROVE  h[k] = Put(h[k - 1], Behind(h[k - 1], di + (k - 1) * Chunk, Chunk, offset))
      <3>1. k - 1 \in 0 .. K - 1 /\ (k - 1) + 1 = k
        BY <1>2, <2>2
      <3>2. h[k] = After(k - 1, h[k - 1])
        BY <1>9, <3>1
      <3> QED
        BY <3>2 DEF After, From0
    <2>3. \A k \in 0 .. K : h[k] = IF k = 0 THEN full
                 ELSE Put(h[k - 1], Behind(h[k - 1], di + (k - 1) * Chunk, Chunk, offset))
      BY <1>9, <2>2
    <2> QED
      BY <2>1, <2>3
  <1>11. Steps(g)
    <2> HIDE DEF Steps
    <2> QED
      BY <1>10
  <1> HIDE DEF g
  <1>12. \A k \in 0 .. K : g[k] = IF k = 0 THEN full
               ELSE Put(g[k - 1], Behind(g[k - 1], di + (k - 1) * Chunk, Chunk, offset))
    BY <1>11
  <1> HIDE DEF Steps, f
  <1>13. g[0] = full /\ \A k \in 0 .. K - 1 : g[k + 1] = After(k, g[k])
    <2>1. 0 \in 0 .. K /\ g[0] = full
      BY <1>2, <1>12
    <2>2. ASSUME NEW k \in 0 .. K - 1 PROVE g[k + 1] = After(k, g[k])
      <3>1. k + 1 \in 0 .. K /\ k + 1 # 0 /\ (k + 1) - 1 = k
        BY <1>2
      <3>2. g[k + 1] = Put(g[(k + 1) - 1], Behind(g[(k + 1) - 1], di + ((k + 1) - 1) * Chunk, Chunk, offset))
        BY <1>12, <3>1
      <3>3. g[k + 1] = Put(g[k], Behind(g[k], di + k * Chunk, Chunk, offset))
        BY <3>1, <3>2
      <3> QED
        BY <3>3 DEF After, From0
    <2> QED
      BY <2>1, <2>2
  <1> DEFINE P(k) == Continues(full, g[k], n, di, k * Chunk, offset)
             Bad == {k \in Nat : k <= K /\ ~P(k)}
  <1>14. P(0)
    <2>1. 0 * Chunk = 0 /\ 0 .. (0 * Chunk) - 1 = {}
      BY <1>1
    <2> QED
      BY <1>13, <2>1 DEF Continues
  <1>15. ASSUME NEW k \in 0 .. K - 1, P(k) PROVE P(k + 1)
    <2>1. g[k] \in T
      BY <1>15 DEF Continues
    <2>2. k \in Nat /\ k < K
      BY <1>2
    <2>3. Continues(g[k], g[k + 1], n, From0(k), Chunk, offset)
      BY <1>6, <1>13, <2>1, <2>2
    <2>4. k * Chunk \in Nat /\ Chunk \in Nat /\ (k + 1) * Chunk = k * Chunk + Chunk
      BY <1>1, <2>2
    <2> DEFINE m == k * Chunk
    <2>5. m \in Nat /\ Continues(full, g[k], n, di, m, offset) /\ Continues(g[k], g[k + 1], n, di + m, Chunk, offset)
      BY <1>15, <2>3, <2>4 DEF From0
    <2> HIDE DEF m
    <2>6. Continues(full, g[k + 1], n, di, m + Chunk, offset)
      BY <2>4, <2>5, ContinuesFurther
    <2> QED
      BY <2>4, <2>6 DEF m
  <1> HIDE DEF P
  <1>16. Bad = {}
    <2> SUFFICES ASSUME Bad # {} PROVE FALSE
      OBVIOUS
    <2>1. PICK k \in Bad : \A o \in Bad : k <= o
      <3>1. Bad \in SUBSET Nat
        OBVIOUS
      <3> HIDE DEF Bad
      <3> QED
        BY <3>1, LeastNatural
    <2>2. k \in Nat /\ k <= K /\ ~P(k) /\ k # 0
      BY <1>14
    <2>3. k - 1 \in Nat /\ k - 1 <= K /\ ~(k <= k - 1) /\ k - 1 \in 0 .. K - 1 /\ (k - 1) + 1 = k
      BY <1>2, <2>2
    <2>4. P(k - 1)
      BY <2>1, <2>3
    <2> QED
      BY <1>15, <2>2, <2>3, <2>4
  <1>17. Continues(full, ChunkCopy, n, di, K * Chunk, offset)
    <2>1. P(K)
      BY <1>2, <1>16
    <2> QED
      BY <1>3, <2>1 DEF P
  <1> DEFINE m == K * Chunk
  <1>18. m \in Nat /\ ml <= m
    BY <1>1, <1>2, <1>4
  <1>19. Continues(full, ChunkCopy, n, di, m, offset)
    BY <1>17
  <1> HIDE DEF m
  <1>20. \A j \in 0 .. ml - 1 : j \in 0 .. m - 1
    BY <1>18
  <1> QED
    BY <1>19, <1>20 DEF Continues

----------------------------------------------------------------------------
\* The invariant.

\* With d bytes decoded, the block o has a sequence at p that decodes to what src has
\* next; G holds the place after it.
Goes(o, p, d, G) ==
    \E lit, off, len \in Nat :
        /\ len >= MinMatch /\ d + lit + len <= srcLen /\ off >= 1 /\ off <= d + lit /\ off <= MaxOffset
        /\ LiesAt(o, p, Sequence(d, d + lit, off, len))
        /\ Repeats(d + lit, len, off)
        /\ <<p + Len(Sequence(d, d + lit, off, len)), d + lit + len>> \in G
\* The last literals lie at p.
Closes(o, p, d) ==
    /\ d <= srcLen /\ LiesAt(o, p, TokenAndLiterals(d, srcLen, 0))
    /\ p + Len(TokenAndLiterals(d, srcLen, 0)) = Len(o)

\* G has the places of a block where a sequence begins, with the bytes decoded before it:
\* of one that is being written, and of one that is complete.
Growing(o, a, G) ==
    /\ G \subseteq Nat \X Nat /\ <<0, 0>> \in G /\ <<Len(o), a>> \in G
    /\ \A p, d \in Nat : <<p, d>> \in G => (p = Len(o) /\ d = a) \/ Goes(o, p, d, G)
Complete(o, G) ==
    /\ G \subseteq Nat \X Nat /\ <<0, 0>> \in G
    /\ \A p, d \in Nat : <<p, d>> \in G => Goes(o, p, d, G) \/ Closes(o, p, d)

\* The places are determined by the steps; the decoder is at one of them.
PlacesInv ==
    written =>
        \E G : IF phase = "compress" THEN Growing(out, anchor, G)
               ELSE /\ Complete(out, G)
                    /\ phase = "sequence" => <<si, di>> \in G
                    /\ phase = "match" => <<si, di + ml>> \in G
                    /\ phase = "pattern" => <<si, end>> \in G

SourceText ==
    /\ src \in Seq(Nat) /\ srcLen \in Nat /\ room \in Nat /\ out \in Seq(Nat) /\ written \in BOOLEAN
    /\ written => src \in Seq(Bytes)
TableInv ==
    phase = "compress" =>
        /\ written /\ di = 0 /\ anchor <= si /\ si <= srcLen
        /\ table \in [HashValues -> Int]
        /\ \A h \in HashValues : table[h] < si
CopyInv ==
    /\ phase = "match" => /\ offset >= 1 /\ offset <= di /\ di + ml <= srcLen
                          /\ written => Repeats(di, ml, offset)
    /\ phase = "pattern" => /\ offset >= 1 /\ From \in Nat /\ From + offset <= di /\ di <= end
                            /\ written => Repeats(di, end - di, di - From)
CodecInv ==
    /\ SourceText /\ TableInv /\ CopyInv /\ PlacesInv /\ DecodedPrefix
    /\ phase \in {"compress", "sequence", "match", "pattern", "done", "corrupt"}
    /\ written => phase # "corrupt"
    /\ phase # "compress" => si <= Len(out)
    /\ si \in Nat /\ anchor \in 0 .. srcLen /\ di \in 0 .. srcLen
    /\ full \in [0 .. Capacity - 1 -> Nat]
    /\ offset \in 0 .. srcLen /\ ml \in 0 .. srcLen /\ end \in 0 .. srcLen

\* The source text stays, and what is said of it.
LEMMA TextStays ==
    ASSUME src' = src, NEW o, NEW p, NEW d, NEW a, NEW G, NEW m, NEW dist
    PROVE  /\ srcLen' = srcLen /\ \A i : SrcAt(i)' = SrcAt(i)
           /\ Repeats(a, m, dist)' <=> Repeats(a, m, dist)
           /\ Goes(o, p, d, G)' <=> Goes(o, p, d, G)
           /\ Closes(o, p, d)' <=> Closes(o, p, d)
           /\ Growing(o, a, G)' <=> Growing(o, a, G)
           /\ Complete(o, G)' <=> Complete(o, G)
  <1>1. srcLen' = srcLen /\ \A i : SrcAt(i)' = SrcAt(i)
    BY DEF srcLen, SrcAt
  <1>2. Repeats(a, m, dist)' <=> Repeats(a, m, dist)
    BY DEF Repeats, SrcAt
  <1>3. \A p2, d2, G2 : Goes(o, p2, d2, G2)' <=> Goes(o, p2, d2, G2)
    BY DEF Goes, Sequence, TokenAndLiterals, Repeats, SrcAt, srcLen
  <1>4. \A p2, d2 : Closes(o, p2, d2)' <=> Closes(o, p2, d2)
    BY DEF Closes, TokenAndLiterals, srcLen
  <1>5. Growing(o, a, G)' <=> Growing(o, a, G)
    BY <1>3 DEF Growing
  <1>6. Complete(o, G)' <=> Complete(o, G)
    BY <1>3, <1>4 DEF Complete
  <1> QED
    BY <1>1, <1>2, <1>3, <1>4, <1>5, <1>6

LEMMA CodecStart == CodecInit => CodecInv
  <1> SUFFICES ASSUME CodecInit PROVE CodecInv
    OBVIOUS
  <1>1. PICK k \in SrcLengths : src \in [1 .. k -> Bytes] \/ src = [i \in 1 .. k |-> Garbage]
    BY DEF CodecInit
  <1>2. k \in Nat /\ room \in Nat /\ Bytes \subseteq Nat /\ Garbage \in Nat
    BY BytesAssumption, BuffersAssumption DEF CodecInit
  <1>3. src \in Seq(Nat) /\ srcLen = k /\ (src \in [1 .. k -> Bytes] => src \in Seq(Bytes))
    <2>1. CASE src \in [1 .. k -> Bytes]
      <3>1. src \in Seq(Bytes) /\ Len(src) = k
        BY <1>2, <2>1
      <3>2. src \in [1 .. k -> Nat]
        BY <1>2, <2>1
      <3>3. src \in Seq(Nat)
        BY <1>2, <3>2
      <3> QED
        BY <3>1, <3>3 DEF srcLen
    <2>2. CASE src = [i \in 1 .. k |-> Garbage]
      <3>1. src \in [1 .. k -> Nat]
        BY <1>2, <2>2
      <3>2. src \in Seq(Nat) /\ Len(src) = k
        BY <1>2, <3>1
      <3>3. src \in [1 .. k -> Bytes] => src \in Seq(Bytes)
        BY <1>2
      <3> QED
        BY <3>2, <3>3 DEF srcLen
    <2> QED
      BY <1>1, <2>1, <2>2
  <1>4. out \in Seq(Nat) /\ written \in BOOLEAN
    <2>1. <<>> \in Seq(Nat)
      OBVIOUS
    <2> QED
      BY <2>1, BytesAssumption DEF CodecInit
  <1>5. written => src \in Seq(Bytes)
    <2> SUFFICES ASSUME written PROVE src \in Seq(Bytes)
      OBVIOUS
    <2>1. PICK m \in SrcLengths : src \in [1 .. m -> Bytes]
      BY DEF CodecInit
    <2>2. m \in Nat
      BY BuffersAssumption
    <2> QED
      BY <2>1, <2>2
  <1>6. SourceText
    BY <1>2, <1>3, <1>4, <1>5 DEF SourceText
  <1>7. TableInv /\ CopyInv
    <2>1. /\ phase = "compress" => written
          /\ phase \notin {"match", "pattern"}
          /\ table = [h \in HashValues |-> -1] /\ anchor = 0 /\ si = 0 /\ di = 0
      BY DEF CodecInit
    <2>2. table \in [HashValues -> Int] /\ \A h \in HashValues : table[h] < si
      BY <2>1
    <2> QED
      BY <1>2, <1>3, <2>1, <2>2 DEF TableInv, CopyInv
  <1>8. PlacesInv
    <2> SUFFICES ASSUME written PROVE PlacesInv
      BY DEF PlacesInv
    <2>1. phase = "compress" /\ out = <<>> /\ anchor = 0
      BY DEF CodecInit
    <2>2. Growing(<<>>, 0, {<<0, 0>>})
      BY DEF Growing
    <2> QED
      BY <2>1, <2>2 DEF PlacesInv
  <1>9. DecodedPrefix
    <2>1. di = 0 /\ 0 .. 0 - 1 = {}
      BY DEF CodecInit
    <2> QED
      BY <2>1 DEF DecodedPrefix
  <1>10. full \in [0 .. Capacity - 1 -> Nat]
    <2>1. full = [i \in 0 .. srcLen + room - 1 |-> Garbage]
      BY DEF CodecInit
    <2>2. Capacity = srcLen + room
      BY DEF Capacity
    <2> DEFINE c == Capacity
               last == srcLen + room - 1
    <2>3. last = c - 1
      BY <1>2, <1>3, <2>2
    <2> HIDE DEF c, last
    <2>4. full = [i \in 0 .. last |-> Garbage]
      BY <2>1 DEF last
    <2>5. full \in [0 .. c - 1 -> Nat]
      BY <1>2, <2>3, <2>4
    <2> QED
      BY <2>5 DEF c
  <1>11. Len(out) \in Nat
    BY <1>4
  <1>12. /\ phase \in {"compress", "sequence"} /\ si = 0 /\ anchor = 0 /\ di = 0 /\ offset = 0 /\ ml = 0 /\ end = 0
    BY DEF CodecInit
  <1> QED
    BY <1>2, <1>3, <1>6, <1>7, <1>8, <1>9, <1>10, <1>11, <1>12 DEF CodecInv

----------------------------------------------------------------------------
\* Compress.

LEMMA GoesOn ==
    ASSUME src \in Seq(Nat), srcLen \in Nat, NEW o \in Seq(Nat), NEW t \in Seq(Nat),
           NEW p \in Nat, NEW d \in Nat, NEW G, NEW H, G \subseteq H, Goes(o, p, d, G)
    PROVE  Goes(o \o t, p, d, H)
  <1>1. PICK lit, off, len \in Nat :
        /\ len >= MinMatch /\ d + lit + len <= srcLen /\ off >= 1 /\ off <= d + lit /\ off <= MaxOffset
        /\ LiesAt(o, p, Sequence(d, d + lit, off, len))
        /\ Repeats(d + lit, len, off)
        /\ <<p + Len(Sequence(d, d + lit, off, len)), d + lit + len>> \in G
    BY DEF Goes
  <1> DEFINE to == d + lit
             s == Sequence(d, to, off, len)
  <1>2. s \in Seq(Nat)
    <2>1. to \in Nat /\ d <= to /\ to <= srcLen
      BY <1>1
    <2> HIDE DEF to
    <2> QED
      BY <1>1, <2>1, SequenceType
  <1>3. LiesAt(o, p, s)
    BY <1>1
  <1> HIDE DEF s
  <1>4. LiesAt(o \o t, p, s)
    BY <1>2, <1>3, LiesLonger
  <1> QED
    BY <1>1, <1>4 DEF Goes, s

\* A sequence is appended.
LEMMA GrowingOn ==
    ASSUME src \in Seq(Nat), srcLen \in Nat, NEW o \in Seq(Nat), NEW a \in Nat, NEW G, Growing(o, a, G),
           NEW lit \in Nat, NEW off \in Nat, NEW len \in Nat, NEW u,
           len >= MinMatch, a + lit + len <= srcLen, off >= 1, off <= a + lit, off <= MaxOffset,
           Repeats(a + lit, len, off), u = o \o Sequence(a, a + lit, off, len)
    PROVE  u \in Seq(Nat) /\ \E H : Growing(u, a + lit + len, H)
  <1> DEFINE s == Sequence(a, a + lit, off, len)
             new == <<Len(u), a + lit + len>>
             H == G \cup {new}
  <1>1. s \in Seq(Nat)
    <2> DEFINE to == a + lit
    <2>1. to \in Nat /\ a <= to /\ to <= srcLen
      OBVIOUS
    <2> HIDE DEF to
    <2>2. Sequence(a, to, off, len) \in Seq(Nat)
      BY <2>1, SequenceType
    <2> QED
      BY <2>2 DEF to
  <1>2. u = o \o s
    OBVIOUS
  <1> HIDE DEF s
  <1>3. u \in Seq(Nat) /\ Len(u) = Len(o) + Len(s) /\ Len(u) \in Nat /\ Len(o) \in Nat
    <2>1. u \in Seq(Nat)
      BY <1>1, <1>2, ConcatProperties
    <2>2. Len(u) = Len(o) + Len(s)
      BY <1>1, <1>2, Joined
    <2> QED
      BY <2>1, <2>2
  <1>4. LiesAt(u, Len(o), s)
    BY <1>1, <1>2, LiesAppended
  <1>5. H \subseteq Nat \X Nat /\ <<0, 0>> \in H /\ new \in H
    <2>1. a + lit + len \in Nat
      OBVIOUS
    <2> QED
      BY <1>3, <2>1 DEF Growing
  <1>6. ASSUME NEW p \in Nat, NEW d \in Nat, <<p, d>> \in H
        PROVE  (p = Len(u) /\ d = a + lit + len) \/ Goes(u, p, d, H)
    <2>1. CASE <<p, d>> = new
      BY <2>1
    <2>2. CASE <<p, d>> \in G /\ ~(p = Len(o) /\ d = a)
      <3>1. Goes(o, p, d, G)
        BY <2>2 DEF Growing
      <3>2. Goes(o \o s, p, d, H)
        BY <1>1, <3>1, GoesOn
      <3> QED
        BY <1>2, <3>2
    <2>3. CASE p = Len(o) /\ d = a
      <3>1. Goes(u, Len(o), a, H)
        <4>1. <<Len(o) + Len(s), a + lit + len>> \in H
          BY <1>3
        <4>2. LiesAt(u, Len(o), Sequence(a, a + lit, off, len))
              /\ <<Len(o) + Len(Sequence(a, a + lit, off, len)), a + lit + len>> \in H
          BY <1>4, <4>1 DEF s
        <4> HIDE DEF H
        <4> QED
          BY <4>2 DEF Goes
      <3> QED
        BY <2>3, <3>1
    <2> QED
      BY <1>6, <2>1, <2>2, <2>3
  <1>7. Growing(u, a + lit + len, H)
    BY <1>5, <1>6 DEF Growing
  <1> QED
    BY <1>3, <1>7

\* The last literals are appended.
LEMMA GrowingEnds ==
    ASSUME src \in Seq(Nat), srcLen \in Nat, NEW o \in Seq(Nat), NEW a \in Nat, NEW G, Growing(o, a, G),
           a <= srcLen, NEW u, u = o \o TokenAndLiterals(a, srcLen, 0)
    PROVE  u \in Seq(Nat) /\ Complete(u, G)
  <1> DEFINE s == TokenAndLiterals(a, srcLen, 0)
  <1>1. s \in Seq(Nat)
    <2>1. 0 \in 0 .. Nibble
      BY CodecNumbers
    <2> QED
      BY <2>1, LiteralsType
  <1>2. u = o \o s
    OBVIOUS
  <1>3. Closes(u, Len(o), a) <=> LiesAt(u, Len(o), s) /\ Len(o) + Len(s) = Len(u)
    BY DEF Closes
  <1> HIDE DEF s
  <1>4. u \in Seq(Nat) /\ Len(u) = Len(o) + Len(s)
    <2>1. u \in Seq(Nat)
      BY <1>1, <1>2, ConcatProperties
    <2>2. Len(u) = Len(o) + Len(s)
      BY <1>1, <1>2, Joined
    <2> QED
      BY <2>1, <2>2
  <1>5. LiesAt(u, Len(o), s)
    BY <1>1, <1>2, LiesAppended
  <1>6. ASSUME NEW p \in Nat, NEW d \in Nat, <<p, d>> \in G
        PROVE  Goes(u, p, d, G) \/ Closes(u, p, d)
    <2>1. CASE p = Len(o) /\ d = a
      BY <1>3, <1>4, <1>5, <2>1
    <2>2. CASE ~(p = Len(o) /\ d = a)
      <3>1. Goes(o, p, d, G)
        BY <1>6, <2>2 DEF Growing
      <3>2. Goes(o \o s, p, d, G)
        BY <1>1, <3>1, GoesOn
      <3> QED
        BY <1>2, <3>2
    <2> QED
      BY <2>1, <2>2
  <1> QED
    BY <1>4, <1>6 DEF Complete, Growing

\* A match that is found is one, at least as long as what the hash saw, and leaves the last
\* literals.
LEMMA MatchIs ==
    ASSUME CodecInv, Searching, Matches
    PROVE  /\ Ref \in Nat /\ Ref < si /\ MatchLength \in Nat /\ MatchLength >= MinMatch
           /\ si + MatchLength <= srcLen
           /\ \A j \in 0 .. MatchLength - 1 : SrcAt(Ref + j) = SrcAt(si + j)
  <1>1. /\ phase = "compress" /\ si < srcLen - MFLimit /\ srcLen \in Nat /\ si \in Nat
        /\ written /\ src \in Seq(Bytes) /\ srcLen = Len(src)
    BY DEF Searching, CodecInv, SourceText, TableInv, srcLen
  <1> DEFINE Most == srcLen - LastLits - si
             Same(j) == SrcAt(Ref + j) = SrcAt(si + j)
             Good(len) == /\ \A j \in MinMatch .. len - 1 : Same(j)
                          /\ si + len = srcLen - LastLits \/ ~Same(len)
  <1>2. Most \in Nat /\ MinMatch \in Nat /\ MinMatch <= Most /\ si + Most = srcLen - LastLits
        /\ srcLen - LastLits <= srcLen /\ MinMatch + si <= srcLen
    BY <1>1, CodecNumbers
  <1>3. MatchLength = CHOOSE len \in MinMatch .. Most : Good(len)
    BY DEF MatchLength
  <1>4. Ref \in Int /\ Ref >= 0 /\ Ref < si
    <2>1. Four(si) \in [1 .. MinMatch -> Bytes]
      <3>1. \A j \in 1 .. MinMatch : SrcAt(si + j - 1) \in Bytes
        <4> TAKE j \in 1 .. MinMatch
        <4>1. (si + j - 1) + 1 \in 1 .. Len(src)
          BY <1>1, <1>2
        <4> QED
          BY <1>1, <4>1 DEF SrcAt
      <3> QED
        BY <3>1 DEF Four
    <2>2. Hash(Four(si)) \in HashValues
      BY <2>1 DEF HashValues
    <2> QED
      BY <1>1, <2>2 DEF Ref, Matches, CodecInv, TableInv
  <1>5. \A j \in 0 .. MinMatch - 1 : Same(j)
    <2> TAKE j \in 0 .. MinMatch - 1
    <2>1. j + 1 \in 1 .. MinMatch /\ Ref + (j + 1) - 1 = Ref + j /\ si + (j + 1) - 1 = si + j
      BY <1>1, <1>2, <1>4
    <2>2. Four(Ref)[j + 1] = Four(si)[j + 1]
      BY DEF Matches
    <2>3. SrcAt(Ref + (j + 1) - 1) = SrcAt(si + (j + 1) - 1)
      BY <2>1, <2>2 DEF Four
    <2> QED
      BY <2>1, <2>3
  <1> HIDE DEF Most, Same
  <1>6. \E len \in MinMatch .. Most : Good(len)
    <2> DEFINE Bad == {j \in Nat : j >= MinMatch /\ j < Most /\ ~Same(j)}
    <2>1. CASE Bad = {}
      <3>1. \A j \in MinMatch .. Most - 1 : j \in Nat /\ j >= MinMatch /\ j < Most
        BY <1>2
      <3>2. \A j \in MinMatch .. Most - 1 : Same(j)
        BY <2>1, <3>1
      <3>3. Good(Most) /\ Most \in MinMatch .. Most
        BY <1>2, <3>2
      <3> QED
        BY <3>3
    <2>2. CASE Bad # {}
      <3>1. PICK b \in Bad : \A o \in Bad : b <= o
        <4>1. Bad \in SUBSET Nat
          OBVIOUS
        <4> HIDE DEF Bad
        <4> QED
          BY <2>2, <4>1, LeastNatural
      <3>2. b \in MinMatch .. Most /\ ~Same(b)
        BY <1>2
      <3>3. ASSUME NEW j \in MinMatch .. b - 1 PROVE Same(j)
        <4>1. j \in Nat /\ j >= MinMatch /\ j < Most /\ ~(b <= j)
          BY <1>2, <3>2
        <4> QED
          BY <3>1, <4>1
      <3> QED
        BY <3>2, <3>3
    <2> QED
      BY <2>1, <2>2
  <1> DEFINE L == MatchLength
  <1>7. L \in MinMatch .. Most /\ Good(L)
    <2> HIDE DEF Good
    <2> QED
      BY <1>3, <1>6
  <1> HIDE DEF L
  <1>8. \A j \in 0 .. L - 1 : Same(j)
    <2> TAKE j \in 0 .. L - 1
    <2>1. j \in 0 .. MinMatch - 1 \/ j \in MinMatch .. L - 1
      BY <1>2, <1>7
    <2> QED
      BY <1>5, <1>7, <2>1
  <1>9. L \in Nat /\ L >= MinMatch /\ si + L <= srcLen
    BY <1>1, <1>2, <1>7, CodecNumbers
  <1> QED
    BY <1>4, <1>8, <1>9 DEF L, Same

\* A table of positions that remembers one more.
LEMMA Remembered ==
    ASSUME NEW S, NEW t \in [S -> Int], NEW p \in Nat, NEW p2 \in Nat, p < p2,
           \A h \in S : t[h] < p, NEW a, NEW t2, t2 = [t EXCEPT ![a] = p]
    PROVE  t2 \in [S -> Int] /\ \A h \in S : t2[h] < p2
  <1>1. t2 \in [S -> Int]
    <2>1. p \in Int
      OBVIOUS
    <2>2. t2 = [h \in S |-> IF h = a THEN p ELSE t[h]]
      OBVIOUS
    <2>3. \A h \in S : (IF h = a THEN p ELSE t[h]) \in Int
      BY <2>1
    <2> QED
      BY <2>2, <2>3
  <1>2. ASSUME NEW h \in S PROVE t2[h] < p2
    <2>1. t2[h] = IF h = a THEN p ELSE t[h]
      OBVIOUS
    <2>2. t[h] \in Int /\ t[h] < p
      OBVIOUS
    <2> QED
      BY <2>1, <2>2
  <1> QED
    BY <1>1, <1>2

\* The search goes on at the next byte.
LEMMA SkipKeeps ==
    ASSUME CodecInv, SkipByte
    PROVE  CodecInv'
  <1>1. /\ phase = "compress" /\ si < srcLen - MFLimit /\ srcLen \in Nat /\ si \in Nat /\ written
        /\ anchor <= si /\ di = 0 /\ table \in [HashValues -> Int] /\ \A h \in HashValues : table[h] < si
    BY DEF SkipByte, Searching, CodecInv, SourceText, TableInv
  <1>2. /\ src' = src /\ room' = room /\ written' = written /\ phase' = phase /\ anchor' = anchor
        /\ out' = out /\ di' = di /\ full' = full /\ offset' = offset /\ ml' = ml /\ end' = end
        /\ si' = si + 1 /\ table' = [table EXCEPT ![Hash(Four(si))] = si]
    BY DEF SkipByte, Remember
  <1>3. srcLen' = srcLen /\ Capacity' = Capacity /\ HashValues' = HashValues
    BY <1>2 DEF srcLen, Capacity, HashValues
  <1>4. SourceText'
    BY <1>2, <1>3 DEF CodecInv, SourceText
  <1>5. TableInv'
    <2>1. table' \in [HashValues -> Int] /\ \A h \in HashValues : table'[h] < si + 1
      <3>1. PICK S, t, a, t2, p : S = HashValues /\ t = table /\ a = Hash(Four(si)) /\ t2 = table' /\ p = si
        OBVIOUS
      <3>2. t \in [S -> Int] /\ p \in Nat /\ p + 1 \in Nat /\ p < p + 1
            /\ (\A h \in S : t[h] < p) /\ t2 = [t EXCEPT ![a] = p]
        BY <1>1, <1>2, <3>1
      <3>3. t2 \in [S -> Int] /\ \A h \in S : t2[h] < p + 1
        BY <3>2, Remembered
      <3> QED
        BY <3>1, <3>3
    <2>2. si + 1 <= srcLen /\ anchor <= si + 1
      <3>1. MFLimit \in Nat
        BY CodecNumbers
      <3>2. anchor \in 0 .. srcLen
        BY DEF CodecInv
      <3> QED
        BY <1>1, <3>1, <3>2
    <2> QED
      BY <1>1, <1>2, <1>3, <2>1, <2>2 DEF TableInv
  <1>6. PlacesInv'
    <2>1. PICK G : Growing(out, anchor, G)
      BY <1>1 DEF CodecInv, PlacesInv
    <2>2. PICK o, a : o = out /\ a = anchor
      OBVIOUS
    <2>3. Growing(o, a, G)
      BY <2>1, <2>2
    <2>4. Growing(o, a, G)'
      BY <1>2, <2>3, TextStays
    <2>5. o = out' /\ a = anchor' /\ phase' = "compress"
      BY <1>1, <1>2, <2>2
    <2> QED
      BY <2>4, <2>5 DEF PlacesInv
  <1>7. DecodedPrefix'
    BY <1>2 DEF CodecInv, DecodedPrefix, SrcAt
  <1>8. CopyInv'
    BY <1>1, <1>2 DEF CopyInv
  <1> QED
    BY <1>1, <1>2, <1>3, <1>4, <1>5, <1>6, <1>7, <1>8 DEF CodecInv

\* A match is emitted.
LEMMA EmitKeeps ==
    ASSUME CodecInv, EmitMatch
    PROVE  CodecInv'
  <1>1. /\ phase = "compress" /\ si < srcLen - MFLimit /\ srcLen \in Nat /\ si \in Nat /\ written
        /\ anchor \in 0 .. srcLen /\ anchor <= si /\ di = 0 /\ src \in Seq(Nat) /\ out \in Seq(Nat)
        /\ table \in [HashValues -> Int] /\ \A h \in HashValues : table[h] < si
    BY DEF EmitMatch, Searching, CodecInv, SourceText, TableInv
  <1>2. /\ src' = src /\ room' = room /\ written' = written /\ phase' = phase
        /\ di' = di /\ full' = full /\ offset' = offset /\ ml' = ml /\ end' = end
        /\ table' = [table EXCEPT ![Hash(Four(si))] = si]
        /\ si' = si + MatchLength /\ anchor' = si + MatchLength
        /\ out' = out \o Sequence(anchor, si, si - Ref, MatchLength)
    BY DEF EmitMatch, Remember, AfterMatch
  <1>3. /\ Ref \in Nat /\ Ref < si /\ MatchLength \in Nat /\ MatchLength >= MinMatch
        /\ si + MatchLength <= srcLen
        /\ \A j \in 0 .. MatchLength - 1 : SrcAt(Ref + j) = SrcAt(si + j)
    BY MatchIs DEF EmitMatch
  <1>4. srcLen' = srcLen /\ Capacity' = Capacity /\ HashValues' = HashValues
    BY <1>2 DEF srcLen, Capacity, HashValues
  <1>5. MinMatch \in Nat /\ MinMatch >= 1
    BY CodecNumbers
  <1>6. PICK o, a, u, r, l, p : o = out /\ a = anchor /\ u = out' /\ r = Ref /\ l = MatchLength /\ p = si
    OBVIOUS
  <1>7. PICK G : Growing(o, a, G)
    BY <1>1, <1>6 DEF CodecInv, PlacesInv
  <1> DEFINE lit == p - a
             dist == p - r
  <1>8. /\ lit \in Nat /\ a \in Nat /\ dist \in Nat /\ dist >= 1 /\ dist <= p /\ p = a + lit
        /\ l \in Nat /\ p \in Nat /\ p + l <= srcLen /\ p + l \in Nat /\ l >= MinMatch /\ l >= 1
    BY <1>1, <1>3, <1>5, <1>6
  <1>8a. dist <= MaxOffset
    BY <1>6 DEF EmitMatch, Matches
  <1>9. Repeats(p, l, dist)
    <2>1. \A j \in 0 .. l - 1 : SrcAt(p + j) = SrcAt(p + j - dist)
      <3> TAKE j \in 0 .. l - 1
      <3>1. p + j - dist = r + j
        BY <1>3, <1>6, <1>8
      <3>2. SrcAt(r + j) = SrcAt(p + j)
        BY <1>3, <1>6
      <3> QED
        BY <3>1, <3>2
    <2> QED
      BY <2>1 DEF Repeats
  <1>10. u = o \o Sequence(a, p, dist, l)
    BY <1>2, <1>6
  <1> HIDE DEF lit, dist
  <1>11. u \in Seq(Nat) /\ \E H : Growing(u, p + l, H)
    <2>1. Repeats(a + lit, l, dist) /\ u = o \o Sequence(a, a + lit, dist, l) /\ a + lit + l <= srcLen
          /\ dist <= a + lit /\ o \in Seq(Nat)
      BY <1>1, <1>6, <1>8, <1>9, <1>10
    <2>2. u \in Seq(Nat) /\ \E H : Growing(u, a + lit + l, H)
      BY <1>1, <1>7, <1>8, <1>8a, <2>1, GrowingOn
    <2> QED
      BY <1>8, <2>2
  <1>12. SourceText'
    BY <1>2, <1>4, <1>6, <1>11 DEF CodecInv, SourceText
  <1>13. TableInv'
    <2>1. table' \in [HashValues -> Int] /\ \A h \in HashValues : table'[h] < si + MatchLength
      <3>1. PICK S, t, b, t2 : S = HashValues /\ t = table /\ b = Hash(Four(si)) /\ t2 = table'
        OBVIOUS
      <3>2. t \in [S -> Int] /\ (\A h \in S : t[h] < p) /\ t2 = [t EXCEPT ![b] = p] /\ p < p + l
        <4>1. t \in [S -> Int] /\ \A h \in S : t[h] < p
          BY <1>1, <1>6, <3>1
        <4>2. t2 = [t EXCEPT ![b] = p]
          BY <1>2, <1>6, <3>1
        <4> QED
          BY <1>8, <4>1, <4>2
      <3>3. t2 \in [S -> Int] /\ \A h \in S : t2[h] < p + l
        BY <1>8, <3>2, Remembered
      <3> QED
        BY <1>6, <3>1, <3>3
    <2> QED
      BY <1>1, <1>2, <1>3, <1>4, <2>1 DEF TableInv
  <1>14. PlacesInv'
    <2>1. PICK H : Growing(u, p + l, H)
      BY <1>11
    <2>2. PICK b : b = p + l
      OBVIOUS
    <2>3. Growing(u, b, H)'
      BY <1>2, <2>1, <2>2, TextStays
    <2>4. u = out' /\ b = anchor' /\ phase' = "compress"
      BY <1>1, <1>2, <1>6, <2>2
    <2> QED
      BY <2>3, <2>4 DEF PlacesInv
  <1>15. DecodedPrefix'
    BY <1>2 DEF CodecInv, DecodedPrefix, SrcAt
  <1>16. CopyInv'
    BY <1>1, <1>2 DEF CopyInv
  <1>17. si' \in Nat /\ anchor' \in 0 .. srcLen
    BY <1>2, <1>6, <1>8
  <1> QED
    BY <1>1, <1>2, <1>4, <1>12, <1>13, <1>14, <1>15, <1>16, <1>17 DEF CodecInv

\* The last literals end the block.
LEMMA FinalKeeps ==
    ASSUME CodecInv, FinalLiterals
    PROVE  CodecInv'
  <1>1. /\ phase = "compress" /\ srcLen \in Nat /\ written /\ anchor \in 0 .. srcLen /\ di = 0
        /\ src \in Seq(Nat) /\ out \in Seq(Nat)
    BY DEF FinalLiterals, CodecInv, SourceText, TableInv
  <1>2. /\ src' = src /\ room' = room /\ written' = written /\ phase' = "sequence" /\ si' = 0
        /\ di' = di /\ full' = full /\ offset' = offset /\ ml' = ml /\ end' = end
        /\ anchor' = anchor /\ out' = out \o TokenAndLiterals(anchor, srcLen, 0)
    BY DEF FinalLiterals
  <1>3. srcLen' = srcLen /\ Capacity' = Capacity
    BY <1>2 DEF srcLen, Capacity
  <1>4. PICK o, a, u : o = out /\ a = anchor /\ u = out'
    OBVIOUS
  <1>5. PICK G : Growing(o, a, G)
    BY <1>1, <1>4 DEF CodecInv, PlacesInv
  <1>6. u \in Seq(Nat) /\ Complete(u, G)
    <2>1. o \in Seq(Nat) /\ a \in Nat /\ a <= srcLen /\ u = o \o TokenAndLiterals(a, srcLen, 0)
      BY <1>1, <1>2, <1>4
    <2> QED
      BY <1>1, <1>5, <2>1, GrowingEnds
  <1>7. PlacesInv'
    <2>1. Complete(u, G)'
      BY <1>2, <1>6, TextStays
    <2>2. <<0, 0>> \in G
      BY <1>6 DEF Complete
    <2> QED
      BY <1>1, <1>2, <1>4, <2>1, <2>2 DEF PlacesInv
  <1>8. SourceText'
    BY <1>2, <1>3, <1>4, <1>6 DEF CodecInv, SourceText
  <1>9. DecodedPrefix'
    BY <1>2 DEF CodecInv, DecodedPrefix, SrcAt
  <1>10. TableInv' /\ CopyInv'
    BY <1>2 DEF TableInv, CopyInv
  <1>11. 0 <= Len(out')
    BY <1>4, <1>6
  <1> QED
    BY <1>1, <1>2, <1>3, <1>7, <1>8, <1>9, <1>10, <1>11 DEF CodecInv

----------------------------------------------------------------------------
\* Decompress: a token, its literals, and what follows them.

ReadLit == ReadLen(Byte(si) \div (Nibble + 1), si + 1)
LitEnd == ReadLit.next + ReadLit.len
ReadOff == Byte(LitEnd) + Byte(LitEnd + 1) * (Cont + 1)
ReadMatch == ReadLen(Byte(si) % (Nibble + 1), LitEnd + 2)

Corrupts ==
    \/ LitEnd > Len(out) \/ ReadLit.len > srcLen - di
    \/ LitEnd = Len(out) /\ di + ReadLit.len # srcLen
    \/ LitEnd + 1 = Len(out)
    \/ /\ LitEnd + 1 < Len(out)
       /\ ReadOff = 0 \/ ReadOff > di + ReadLit.len \/ ReadMatch.len + MinMatch > srcLen - (di + ReadLit.len)
Ends == LitEnd = Len(out) /\ di + ReadLit.len = srcLen
HasMatch ==
    /\ LitEnd + 1 < Len(out) /\ di + ReadLit.len <= srcLen
    /\ ReadOff # 0 /\ ReadOff <= di + ReadLit.len /\ ReadMatch.len + MinMatch <= srcLen - (di + ReadLit.len)

LEMMA ReadIs ==
    ASSUME ReadSequence
    PROVE  /\ phase = "sequence" /\ si < Len(out)
           /\ src' = src /\ room' = room /\ written' = written /\ anchor' = anchor /\ out' = out /\ end' = end
           /\ \/ /\ Corrupts /\ phase' = "corrupt"
                 /\ si' = si /\ di' = di /\ full' = full /\ offset' = offset /\ ml' = ml
              \/ /\ Ends /\ phase' = "done" /\ full' = WithLiterals(ReadLit.len, ReadLit.next)
                 /\ di' = di + ReadLit.len /\ si' = LitEnd /\ offset' = offset /\ ml' = ml
              \/ /\ HasMatch /\ phase' = "match" /\ full' = WithLiterals(ReadLit.len, ReadLit.next)
                 /\ di' = di + ReadLit.len /\ si' = ReadMatch.next
                 /\ offset' = ReadOff /\ ml' = ReadMatch.len + MinMatch
  BY DEF ReadSequence, compressVars, ReadLit, LitEnd, ReadOff, ReadMatch, Corrupts, Ends, HasMatch

\* b is the buffer with the len bytes of the block from from on behind what is decoded.
Decodes(b, n, len, from) ==
    /\ b \in [0 .. n - 1 -> Nat]
    /\ \A i \in 0 .. di - 1 : b[i] = full[i]
    /\ \A j \in 0 .. len - 1 : b[di + j] = Byte(from + j)

LEMMA WithLiteralsIs ==
    ASSUME NEW n \in Nat, n = Capacity, srcLen \in Nat, srcLen <= n,
           full \in [0 .. n - 1 -> Nat], out \in Seq(Nat), di \in Nat,
           NEW len \in Nat, NEW from \in Nat, from + len <= Len(out), di + len <= srcLen
    PROVE  Decodes(WithLiterals(len, from), n, len, from)
  <1> DEFINE L == IF Wide(len, from) THEN 2 * Chunk ELSE len
             f == Literals(L, from)
             b == WithLiterals(len, from)
  <1>1. L \in Nat /\ len <= L /\ from + L <= Len(out) /\ di + L <= n
    BY CodecNumbers DEF Wide
  <1>2. b = Put(full, f)
    BY DEF WithLiterals
  <1> HIDE DEF L
  <1>3. f \in [di .. di + L - 1 -> Nat] /\ \A i \in di .. di + L - 1 : f[i] = Byte(from + i - di)
    <2>1. ASSUME NEW i \in di .. di + L - 1 PROVE Byte(from + i - di) \in Nat
      <3>1. (from + i - di) + 1 \in 1 .. Len(out)
        BY <1>1
      <3> QED
        BY <3>1 DEF Byte
    <2> QED
      BY <2>1 DEF Literals
  <1> HIDE DEF b, f
  <1>4. Wrote(full, b, n, di, L, f)
    <2>1. Cells(n, full, di, L, f)
      BY <1>1, <1>3 DEF Cells
    <2> QED
      BY <1>2, <2>1, PutIs
  <1>5. b \in [0 .. n - 1 -> Nat]
    BY <1>4 DEF Wrote
  <1>6. ASSUME NEW i \in 0 .. di - 1 PROVE b[i] = full[i]
    <2>1. i \in 0 .. n - 1 /\ i \notin di .. di + L - 1
      BY <1>1
    <2> QED
      BY <1>4, <2>1 DEF Wrote
  <1>7. ASSUME NEW j \in 0 .. len - 1 PROVE b[di + j] = Byte(from + j)
    <2>1. di + j \in 0 .. n - 1 /\ di + j \in di .. di + L - 1 /\ from + (di + j) - di = from + j
      BY <1>1
    <2>2. b[di + j] = f[di + j]
      BY <1>4, <2>1 DEF Wrote
    <2> QED
      BY <1>3, <2>1, <2>2
  <1> QED
    BY <1>5, <1>6, <1>7 DEF b, Decodes

\* What is read of any block has the type of a sequence.
LEMMA ReadTypes ==
    ASSUME out \in Seq(Nat), srcLen \in Nat, si \in Nat, si < Len(out), di \in 0 .. srcLen
    PROVE  /\ ReadLit.len \in Nat /\ ReadLit.next \in Nat /\ LitEnd \in Nat
           /\ ReadMatch.len \in Nat /\ ReadMatch.next \in Nat
           /\ LitEnd + 1 < Len(out) => ReadOff \in Nat
           /\ HasMatch => ReadMatch.next <= Len(out)
  <1>1. Nibble \in Nat /\ Cont \in Nat /\ MinMatch \in Nat /\ Nibble + 1 \in Nat \ {0} /\ Len(out) \in Nat
        /\ Cont + 1 \in Nat
    BY CodecNumbers
  <1> DEFINE m == Nibble + 1
             t == Byte(si)
  <1>2. t \in Nat
    <2>1. si + 1 \in 1 .. Len(out)
      BY <1>1
    <2> QED
      BY <2>1 DEF Byte
  <1>3. t \div m \in Nat /\ t % m \in Nat
    <2> HIDE DEF m, t
    <2>1. m \in Nat \ {0}
      BY <1>1 DEF m
    <2>2. t \div m \in Nat /\ t % m \in 0 .. m - 1
      BY <1>2, <2>1, Quotient
    <2> QED
      BY <2>1, <2>2
  <1> DEFINE h == t \div m
             k == t % m
  <1>4. ReadLit = ReadLen(h, si + 1) /\ ReadMatch = ReadLen(k, LitEnd + 2)
    BY DEF ReadLit, ReadMatch
  <1>5. h \in Nat /\ k \in Nat
    BY <1>3
  <1> HIDE DEF h, k, t, m
  <1>6. ReadLit.len \in Nat /\ ReadLit.next \in Nat
    <2>1. si + 1 \in Nat
      OBVIOUS
    <2> QED
      BY <1>4, <1>5, <2>1, ReadLenType
  <1>7. LitEnd \in Nat
    BY <1>6 DEF LitEnd
  <1>8. /\ ReadMatch.len \in Nat /\ ReadMatch.next \in Nat
        /\ LitEnd + 2 <= Len(out) /\ ReadMatch.len <= srcLen => ReadMatch.next <= Len(out)
    <2>1. LitEnd + 2 \in Nat
      BY <1>7
    <2> QED
      BY <1>4, <1>5, <2>1, ReadLenType
  <1>9. ASSUME LitEnd + 1 < Len(out) PROVE ReadOff \in Nat
    <2>1. LitEnd + 1 \in 1 .. Len(out) /\ (LitEnd + 1) + 1 \in 1 .. Len(out)
      BY <1>1, <1>7, <1>9
    <2>2. Byte(LitEnd) \in Nat /\ Byte(LitEnd + 1) \in Nat
      BY <2>1 DEF Byte
    <2>3. Byte(LitEnd + 1) * (Cont + 1) \in Nat
      BY <1>1, <2>2
    <2> QED
      BY <2>2, <2>3 DEF ReadOff
  <1>10. ASSUME HasMatch PROVE ReadMatch.next <= Len(out)
    <2>1. LitEnd + 1 < Len(out) /\ di + ReadLit.len <= srcLen
          /\ ReadMatch.len + MinMatch <= srcLen - (di + ReadLit.len)
      BY <1>10 DEF HasMatch
    <2>2. PICK e, n, l, g, z : e = LitEnd /\ n = Len(out) /\ l = ReadLit.len /\ g = ReadMatch.len /\ z = srcLen
      OBVIOUS
    <2>3. e \in Nat /\ n \in Nat /\ l \in Nat /\ g \in Nat /\ z \in Nat /\ di \in Nat /\ e + 1 < n
          /\ g + MinMatch <= z - (di + l) /\ MinMatch \in Nat
      BY <1>1, <1>6, <1>7, <1>8, <2>1, <2>2
    <2>4. e + 2 <= n
      BY <2>3
    <2>5. g <= g + MinMatch /\ z - (di + l) <= z
      BY <2>3
    <2>6. g <= z
      BY <2>3, <2>5
    <2> QED
      BY <1>8, <2>2, <2>4, <2>6
  <1> QED
    BY <1>6, <1>7, <1>8, <1>9, <1>10

\* At a place of a block of Compress, what is read is what src has.
LEMMA ReadsWritten ==
    ASSUME SourceText, si \in Nat, di \in 0 .. srcLen, NEW G, Complete(out, G), <<si, di>> \in G
    PROVE  /\ si < Len(out) /\ ~Corrupts
           /\ \A i \in 0 .. ReadLit.len - 1 : Byte(ReadLit.next + i) = SrcAt(di + i)
           /\ HasMatch =>
                /\ Repeats(di + ReadLit.len, ReadMatch.len + MinMatch, ReadOff)
                /\ <<ReadMatch.next, di + ReadLit.len + (ReadMatch.len + MinMatch)>> \in G
  <1>1. /\ src \in Seq(Nat) /\ out \in Seq(Nat) /\ srcLen \in Nat /\ Len(out) \in Nat /\ di \in Nat /\ di <= srcLen
        /\ MinMatch \in Nat /\ MinMatch >= 1 /\ Nibble \in Nat
    BY CodecNumbers DEF SourceText
  <1>2. Goes(out, si, di, G) \/ Closes(out, si, di)
    BY <1>1 DEF Complete
  <1>3. CASE Goes(out, si, di, G)
    <2>1. PICK lit, off, len \in Nat :
        /\ len >= MinMatch /\ di + lit + len <= srcLen /\ off >= 1 /\ off <= di + lit /\ off <= MaxOffset
        /\ LiesAt(out, si, Sequence(di, di + lit, off, len))
        /\ Repeats(di + lit, len, off)
        /\ <<si + Len(Sequence(di, di + lit, off, len)), di + lit + len>> \in G
      BY <1>3 DEF Goes
    <2> DEFINE to == di + lit
               n1 == si + 1 + Len(RestBytes(to - di))
               n2 == n1 + (to - di)
               past == si + Len(Sequence(di, to, off, len))
    <2>2. to \in Nat /\ di <= to /\ to <= srcLen /\ to - di = lit /\ to + len <= srcLen
      BY <1>1, <2>1
    <2>3. LiesAt(out, si, Sequence(di, to, off, len)) /\ <<past, to + len>> \in G /\ Repeats(to, len, off)
      BY <2>1
    <2> HIDE DEF to
    <2>4. /\ si < Len(out) /\ n1 \in Nat
          /\ ReadLen(Byte(si) \div (Nibble + 1), si + 1) = [len |-> to - di, next |-> n1]
          /\ \A i \in 0 .. (to - di) - 1 : Byte(n1 + i) = SrcAt(di + i)
          /\ n2 + 1 < Len(out)
          /\ Byte(n2) + Byte(n2 + 1) * (Cont + 1) = off
          /\ ReadLen(Byte(si) % (Nibble + 1), n2 + 2) = [len |-> len - MinMatch, next |-> past]
          /\ past <= Len(out) /\ past \in Nat
      BY <1>1, <2>1, <2>2, <2>3, SequenceRead
    <2> HIDE DEF n1, past
    <2>5. ReadLit.len = lit /\ ReadLit.next = n1
      BY <2>2, <2>4 DEF ReadLit
    <2>6. LitEnd = n2
      BY <2>2, <2>4, <2>5 DEF LitEnd
    <2>7. n2 \in Nat
      BY <2>2, <2>4
    <2> HIDE DEF n2
    <2>8. ReadOff = off /\ ReadMatch.len = len - MinMatch /\ ReadMatch.next = past
      BY <2>4, <2>6 DEF ReadOff, ReadMatch
    <2>9. ReadMatch.len + MinMatch = len /\ di + ReadLit.len = to
      BY <1>1, <2>1, <2>2, <2>5, <2>8 DEF to
    <2>10. ~Corrupts
      <3>1. /\ LitEnd \in Nat /\ LitEnd + 1 < Len(out) /\ ReadLit.len <= srcLen - di /\ ReadOff # 0
            /\ ReadOff <= di + ReadLit.len /\ ReadMatch.len + MinMatch <= srcLen - (di + ReadLit.len)
        <4>1. lit <= srcLen - di /\ off <= to /\ len <= srcLen - to
          BY <1>1, <2>1, <2>2 DEF to
        <4>2. off # 0
          BY <2>1
        <4> QED
          BY <2>4, <2>5, <2>6, <2>7, <2>8, <2>9, <4>1, <4>2
      <3>2. PICK e, n, l, z, f, m : e = LitEnd /\ n = Len(out) /\ l = ReadLit.len /\ z = srcLen
                                  /\ f = ReadOff /\ m = ReadMatch.len
        OBVIOUS
      <3>3. /\ e \in Nat /\ n \in Nat /\ e + 1 < n /\ l <= z - di /\ f # 0 /\ f <= di + l
            /\ m + MinMatch <= z - (di + l)
        BY <1>1, <3>1, <3>2
      <3>4. ~(e > n) /\ e # n /\ e + 1 # n /\ ~(l > z - di) /\ ~(f > di + l) /\ ~(m + MinMatch > z - (di + l))
        <4>1. l \in Nat /\ z \in Nat /\ f \in Nat /\ m \in Nat
          <5>1. len - MinMatch \in Nat
            BY <1>1, <2>1
          <5> QED
            BY <1>1, <2>1, <2>5, <2>8, <3>2, <5>1
        <4> QED
          BY <1>1, <3>3, <4>1
      <3> QED
        BY <3>1, <3>2, <3>4 DEF Corrupts
    <2> QED
      BY <2>2, <2>3, <2>4, <2>5, <2>8, <2>9, <2>10
  <1>4. CASE Closes(out, si, di)
    <2> DEFINE n1 == si + 1 + Len(RestBytes(srcLen - di))
               T == TokenAndLiterals(di, srcLen, 0)
    <2>1. LiesAt(out, si, T) /\ si + Len(T) = Len(out) /\ 0 \in 0 .. Nibble
      BY <1>1, <1>4 DEF Closes
    <2>2. /\ si < Len(out) /\ n1 \in Nat /\ Len(T) = (n1 - si) + (srcLen - di)
          /\ ReadLen(Byte(si) \div (Nibble + 1), si + 1) = [len |-> srcLen - di, next |-> n1]
          /\ \A i \in 0 .. (srcLen - di) - 1 : Byte(n1 + i) = SrcAt(di + i)
      <3>1. PICK to, half : to = srcLen /\ half = 0
        OBVIOUS
      <3>2. /\ to \in Nat /\ di <= to /\ to <= srcLen /\ half \in 0 .. Nibble
            /\ LiesAt(out, si, TokenAndLiterals(di, to, half))
            /\ src \in Seq(Nat) /\ out \in Seq(Nat) /\ di \in Nat
        BY <1>1, <2>1, <3>1
      <3>3. ReadsLiterals(si, di, to, half, si + 1 + Len(RestBytes(to - di)))
        BY <3>2, LiteralsRead
      <3>4. ReadsLiterals(si, di, srcLen, 0, n1)
        BY <3>1, <3>3
      <3> HIDE DEF n1
      <3> QED
        BY <3>4 DEF ReadsLiterals
    <2> HIDE DEF n1, T
    <2>3. ReadLit.len = srcLen - di /\ ReadLit.next = n1
      BY <2>2 DEF ReadLit
    <2>4. LitEnd = Len(out)
      BY <1>1, <2>1, <2>2, <2>3 DEF LitEnd
    <2>5. ~Corrupts /\ ~HasMatch
      BY <1>1, <2>3, <2>4 DEF Corrupts, HasMatch
    <2> QED
      BY <2>2, <2>3, <2>5
  <1> QED
    BY <1>2, <1>3, <1>4

LEMMA ReadKeeps ==
    ASSUME CodecInv, ReadSequence
    PROVE  CodecInv'
  <1>1. /\ phase = "sequence" /\ si < Len(out)
        /\ src' = src /\ room' = room /\ written' = written /\ anchor' = anchor /\ out' = out /\ end' = end
    BY ReadIs
  <1>2. /\ SourceText /\ src \in Seq(Nat) /\ out \in Seq(Nat) /\ srcLen \in Nat /\ room \in Nat /\ Capacity \in Nat
        /\ srcLen <= Capacity /\ si \in Nat /\ di \in 0 .. srcLen /\ di \in Nat /\ Len(out) \in Nat
        /\ MinMatch \in Nat /\ MinMatch >= 1 /\ full \in [0 .. Capacity - 1 -> Nat]
        /\ offset \in 0 .. srcLen /\ ml \in 0 .. srcLen
    BY CodecNumbers DEF CodecInv, SourceText, Capacity
  <1>3. srcLen' = srcLen /\ Capacity' = Capacity
    BY <1>1 DEF srcLen, Capacity
  <1>4. /\ ReadLit.len \in Nat /\ ReadLit.next \in Nat /\ LitEnd \in Nat /\ LitEnd = ReadLit.next + ReadLit.len
        /\ ReadMatch.len \in Nat /\ ReadMatch.next \in Nat
        /\ LitEnd + 1 < Len(out) => ReadOff \in Nat
        /\ HasMatch => ReadMatch.next <= Len(out)
    BY <1>1, <1>2, ReadTypes DEF LitEnd
  <1>5. SourceText' /\ anchor' \in 0 .. srcLen /\ end' \in 0 .. srcLen
    BY <1>1, <1>2, <1>3 DEF CodecInv, SourceText
  <1>6. PICK o, G : o = out /\ (written => Complete(o, G) /\ <<si, di>> \in G)
    BY <1>1 DEF CodecInv, PlacesInv
  <1>7. ASSUME written
        PROVE  /\ ~Corrupts /\ Complete(o, G)'
               /\ \A i \in 0 .. ReadLit.len - 1 : Byte(ReadLit.next + i) = SrcAt(di + i)
               /\ HasMatch =>
                    /\ Repeats(di + ReadLit.len, ReadMatch.len + MinMatch, ReadOff)
                    /\ <<ReadMatch.next, di + ReadLit.len + (ReadMatch.len + MinMatch)>> \in G
    <2>1. Complete(out, G) /\ <<si, di>> \in G
      BY <1>6, <1>7
    <2>2. Complete(o, G)'
      BY <1>1, <1>6, <1>7, TextStays
    <2> QED
      BY <1>2, <2>1, <2>2, ReadsWritten
  <1>8. CASE phase' = "corrupt"
    <2>1. /\ Corrupts /\ si' = si /\ di' = di /\ full' = full /\ offset' = offset /\ ml' = ml
      BY <1>8, ReadIs
    <2>2. ~written
      BY <1>7, <2>1
    <2>3. ~written'
      BY <1>1, <2>2
    <2>4. TableInv' /\ CopyInv' /\ PlacesInv' /\ DecodedPrefix'
      BY <1>8, <2>3 DEF TableInv, CopyInv, PlacesInv, DecodedPrefix
    <2> QED
      BY <1>1, <1>2, <1>3, <1>5, <1>8, <2>1, <2>3, <2>4 DEF CodecInv
  <1>9. CASE phase' # "corrupt"
    <2>1. /\ full' = WithLiterals(ReadLit.len, ReadLit.next) /\ di' = di + ReadLit.len
          /\ \/ Ends /\ phase' = "done" /\ si' = LitEnd /\ offset' = offset /\ ml' = ml
             \/ /\ HasMatch /\ phase' = "match" /\ si' = ReadMatch.next
                /\ offset' = ReadOff /\ ml' = ReadMatch.len + MinMatch
      BY <1>9, ReadIs
    <2>2. LitEnd <= Len(out) /\ di + ReadLit.len <= srcLen
      BY <1>2, <1>4, <2>1 DEF Ends, HasMatch
    <2>3. /\ full' \in [0 .. Capacity - 1 -> Nat]
          /\ \A i \in 0 .. di - 1 : full'[i] = full[i]
          /\ \A j \in 0 .. ReadLit.len - 1 : full'[di + j] = Byte(ReadLit.next + j)
      <3>1. PICK n : n = Capacity
        OBVIOUS
      <3>2. n \in Nat /\ srcLen \in Nat /\ srcLen <= n /\ full \in [0 .. n - 1 -> Nat]
            /\ out \in Seq(Nat) /\ di \in Nat /\ ReadLit.next + ReadLit.len <= Len(out)
        BY <1>2, <1>4, <2>2, <3>1
      <3>3. PICK len, from : len = ReadLit.len /\ from = ReadLit.next
        OBVIOUS
      <3>4. len \in Nat /\ from \in Nat /\ from + len <= Len(out) /\ di + len <= srcLen
        BY <1>4, <2>2, <3>2, <3>3
      <3>5. Decodes(WithLiterals(len, from), n, len, from)
        BY <3>1, <3>2, <3>4, WithLiteralsIs
      <3>6. full' = WithLiterals(len, from)
        BY <2>1, <3>3
      <3> QED
        BY <3>1, <3>3, <3>5, <3>6 DEF Decodes
    <2>4. DecodedPrefix'
      <3> SUFFICES ASSUME written', NEW i \in 0 .. di' - 1 PROVE full'[i] = SrcAt(i)'
        BY DEF DecodedPrefix
      <3>1. written /\ SrcAt(i)' = SrcAt(i)
        BY <1>1 DEF SrcAt
      <3>2. CASE i < di
        <4>1. i \in 0 .. di - 1
          BY <1>2, <1>4, <2>1, <3>2
        <4>2. full[i] = SrcAt(i)
          BY <3>1, <4>1 DEF CodecInv, DecodedPrefix
        <4> QED
          BY <2>3, <3>1, <4>1, <4>2
      <3>3. CASE ~(i < di)
        <4>1. i - di \in 0 .. ReadLit.len - 1 /\ di + (i - di) = i
          BY <1>2, <1>4, <2>1, <3>3
        <4>2. Byte(ReadLit.next + (i - di)) = SrcAt(di + (i - di))
          BY <1>7, <3>1, <4>1
        <4> QED
          BY <2>3, <3>1, <4>1, <4>2
      <3> QED
        BY <3>2, <3>3
    <2>5. CASE phase' = "done"
      <3>1. si' = LitEnd /\ offset' = offset /\ ml' = ml
        BY <2>1, <2>5
      <3>2. TableInv' /\ CopyInv'
        BY <2>5 DEF TableInv, CopyInv
      <3>3. PlacesInv'
        BY <1>1, <1>6, <1>7, <2>5 DEF PlacesInv
      <3>4. di' \in 0 .. srcLen
        BY <1>2, <1>4, <2>1, <2>2
      <3> QED
        BY <1>1, <1>2, <1>3, <1>4, <1>5, <2>1, <2>2, <2>3, <2>4, <2>5, <3>1, <3>2, <3>3, <3>4 DEF CodecInv
    <2>6. CASE phase' = "match"
      <3>1. /\ HasMatch /\ si' = ReadMatch.next /\ offset' = ReadOff /\ ml' = ReadMatch.len + MinMatch
        BY <2>1, <2>6
      <3>2. /\ offset' \in Nat /\ offset' >= 1 /\ offset' <= di' /\ ml' \in Nat /\ di' + ml' <= srcLen
            /\ di' \in Nat /\ ml' = ReadMatch.len + MinMatch /\ di' = di + ReadLit.len /\ si' \in Nat /\ si' <= Len(out)
        <4>0. LitEnd + 1 < Len(out) /\ ReadOff # 0 /\ ReadOff <= di + ReadLit.len
          BY <3>1 DEF HasMatch
        <4>1. ReadOff \in Nat /\ ReadOff # 0 /\ ReadOff <= di + ReadLit.len
          BY <1>4, <4>0
        <4>2. ReadMatch.len + MinMatch <= srcLen - (di + ReadLit.len)
          BY <3>1 DEF HasMatch
        <4>3. di + ReadLit.len \in Nat /\ ReadMatch.len + MinMatch \in Nat
          <5>1. di \in Nat /\ ReadLit.len \in Nat /\ ReadMatch.len \in Nat /\ MinMatch \in Nat
            BY <1>2, <1>4
          <5> QED
            BY <5>1
        <4>4. di + ReadLit.len + (ReadMatch.len + MinMatch) <= srcLen
          <5>1. PICK a, m, z : a = di + ReadLit.len /\ m = ReadMatch.len + MinMatch /\ z = srcLen
            OBVIOUS
          <5>2. a \in Nat /\ m \in Nat /\ z \in Nat /\ m <= z - a
            BY <1>2, <4>2, <4>3, <5>1
          <5>3. a + m <= z
            BY <5>2
          <5> QED
            BY <5>1, <5>3
        <4> QED
          BY <1>4, <2>1, <3>1, <4>1, <4>3, <4>4
      <3>3. CopyInv'
        <4>1. ASSUME written' PROVE Repeats(di, ml, offset)'
          <5>1. PICK a, m, d : a = di' /\ m = ml' /\ d = offset'
            OBVIOUS
          <5>2. Repeats(a, m, d)
            BY <1>1, <1>7, <2>1, <3>1, <4>1, <5>1
          <5>3. Repeats(a, m, d)'
            BY <1>1, <5>2, TextStays
          <5> QED
            BY <5>1, <5>3
        <4> QED
          BY <1>3, <2>6, <3>2, <4>1 DEF CopyInv
      <3>4. PlacesInv'
        <4>1. written' => Complete(o, G)' /\ <<si', di' + ml'>> \in G
          <5>1. written' => written
            BY <1>1
          <5>2. si' = ReadMatch.next /\ di' + ml' = di + ReadLit.len + (ReadMatch.len + MinMatch)
            BY <2>1, <3>1
          <5>3. written => Complete(o, G)' /\ <<ReadMatch.next, di + ReadLit.len + (ReadMatch.len + MinMatch)>> \in G
            BY <1>7, <3>1
          <5> QED
            BY <5>1, <5>2, <5>3
        <4>2. o = out'
          BY <1>1, <1>6
        <4> QED
          BY <2>6, <4>1, <4>2 DEF PlacesInv
      <3>5. TableInv'
        BY <2>6 DEF TableInv
      <3>6. di' \in 0 .. srcLen /\ offset' \in 0 .. srcLen /\ ml' \in 0 .. srcLen
        BY <1>2, <3>2
      <3> QED
        BY <1>1, <1>2, <1>3, <1>5, <2>3, <2>4, <2>6, <3>2, <3>3, <3>4, <3>5, <3>6 DEF CodecInv
    <2> QED
      BY <2>1, <2>5, <2>6
  <1> QED
    BY <1>8, <1>9

----------------------------------------------------------------------------
\* Decompress: a match.

\* A buffer whose prefix is src.
IsDecoded(b, n, upto) == b \in [0 .. n - 1 -> Nat] /\ (written => HoldsSrc(b, upto))

\* A copy that continues what is decoded, where src repeats itself, decodes src further.
LEMMA CopyDecodes ==
    ASSUME CodecInv, NEW n \in Nat, NEW b, NEW len \in Nat, NEW dist \in Nat,
           dist >= 1, dist <= di, Continues(full, b, n, di, len, dist), written => Repeats(di, len, dist)
    PROVE  IsDecoded(b, n, di + len)
  <1>1. b \in [0 .. n - 1 -> Nat]
    BY DEF Continues
  <1>2. ASSUME written PROVE HoldsSrc(b, di + len)
    <2>1. HoldsSrc(full, di)
      BY <1>2 DEF CodecInv, DecodedPrefix, HoldsSrc
    <2>2. di \in Nat
      BY DEF CodecInv, SourceText
    <2> QED
      BY <1>2, <2>1, <2>2, CopyIsSrc
  <1> QED
    BY <1>1, <1>2 DEF IsDecoded

\* The places where sequences begin stay.
LEMMA PlacesStay ==
    ASSUME CodecInv, phase # "compress", src' = src, written' = written, out' = out, phase' # "compress",
           \A G : /\ phase = "sequence" => <<si, di>> \in G
                  /\ phase = "match" => <<si, di + ml>> \in G
                  /\ phase = "pattern" => <<si, end>> \in G
                  => /\ phase' = "sequence" => <<si', di'>> \in G
                     /\ phase' = "match" => <<si', di' + ml'>> \in G
                     /\ phase' = "pattern" => <<si', end'>> \in G
    PROVE  PlacesInv'
  <1> SUFFICES ASSUME written PROVE PlacesInv'
    BY DEF PlacesInv
  <1>1. PICK o, G : /\ o = out /\ Complete(o, G)
                    /\ phase = "sequence" => <<si, di>> \in G
                    /\ phase = "match" => <<si, di + ml>> \in G
                    /\ phase = "pattern" => <<si, end>> \in G
    BY DEF CodecInv, PlacesInv
  <1>2. Complete(o, G)'
    BY <1>1, TextStays
  <1>3. /\ phase' = "sequence" => <<si', di'>> \in G
        /\ phase' = "match" => <<si', di' + ml'>> \in G
        /\ phase' = "pattern" => <<si', end'>> \in G
    BY <1>1
  <1>4. o = out'
    BY <1>1
  <1> QED
    BY <1>2, <1>3, <1>4 DEF PlacesInv

LEMMA MatchKeeps ==
    ASSUME CodecInv, CopyMatch
    PROVE  CodecInv'
  <1>1. /\ phase = "match" /\ src' = src /\ room' = room /\ written' = written /\ anchor' = anchor
        /\ out' = out /\ si' = si /\ offset' = offset /\ ml' = ml
    BY DEF CopyMatch, compressVars
  <1>2. /\ SourceText /\ srcLen \in Nat /\ room \in Nat /\ Capacity \in Nat /\ Capacity = srcLen + room
        /\ srcLen <= Capacity /\ di \in Nat /\ ml \in Nat /\ offset \in Nat
        /\ offset >= 1 /\ offset <= di /\ di + ml <= srcLen
        /\ written => Repeats(di, ml, offset)
        /\ full \in [0 .. Capacity - 1 -> Nat] /\ si \in Nat /\ si <= Len(out) /\ Len(out) \in Nat
    BY <1>1 DEF CodecInv, CopyInv, SourceText, Capacity
  <1>3. srcLen' = srcLen /\ Capacity' = Capacity
    BY <1>1 DEF srcLen, Capacity
  <1>4. SourceText' /\ anchor' \in 0 .. srcLen /\ offset' \in 0 .. srcLen /\ ml' \in 0 .. srcLen /\ di + ml \in 0 .. srcLen
    BY <1>1, <1>2, <1>3 DEF CodecInv, SourceText
  <1>5. PICK n : n = Capacity
    OBVIOUS
  <1>6. n \in Nat /\ di + ml <= n /\ full \in [0 .. n - 1 -> Nat]
    BY <1>2, <1>5
  <1>7. CASE phase' = "sequence"
    <2>1. /\ di' = di + ml /\ end' = end
          /\ \/ MayChunk /\ full' = ChunkCopy
             \/ ~MayChunk /\ offset >= ml /\ full' = Put(full, Behind(full, di, ml, offset))
      BY <1>7 DEF CopyMatch
    <2>2. PICK b : b = full'
      OBVIOUS
    <2>3. Continues(full, b, n, di, ml, offset)
      <3>1. CASE MayChunk
        <4>1. offset >= Chunk /\ di + ml + Slack <= n
          BY <1>5, <3>1 DEF MayChunk
        <4>2. Continues(full, ChunkCopy, n, di, ml, offset)
          BY <1>2, <1>5, <1>6, <4>1, ChunksContinue
        <4> QED
          BY <2>1, <2>2, <3>1, <4>2
      <3>2. CASE ~MayChunk
        <4>1. ml <= offset
          BY <1>2, <2>1, <3>2
        <4>2. Continues(full, Put(full, Behind(full, di, ml, offset)), n, di, ml, offset)
          BY <1>2, <1>6, <4>1, BehindIs
        <4> QED
          BY <2>1, <2>2, <3>2, <4>2
      <3> QED
        BY <3>1, <3>2
    <2>4. IsDecoded(b, n, di + ml)
      BY <1>2, <1>5, <1>6, <2>3, CopyDecodes
    <2>5. full' \in [0 .. Capacity - 1 -> Nat] /\ DecodedPrefix'
      <3>1. b \in [0 .. n - 1 -> Nat] /\ (written => \A i \in 0 .. di' - 1 : b[i] = SrcAt(i))
        BY <2>1, <2>4 DEF IsDecoded, HoldsSrc
      <3>2. \A i : SrcAt(i)' = SrcAt(i)
        BY <1>1 DEF SrcAt
      <3> QED
        BY <1>1, <1>5, <2>2, <3>1, <3>2 DEF DecodedPrefix
    <2>6. PlacesInv'
      BY <1>1, <1>7, <2>1, PlacesStay
    <2>7. TableInv' /\ CopyInv'
      BY <1>7 DEF TableInv, CopyInv
    <2>8. end' \in 0 .. srcLen
      BY <2>1 DEF CodecInv
    <2> QED
      BY <1>1, <1>2, <1>3, <1>4, <1>7, <2>1, <2>5, <2>6, <2>7, <2>8 DEF CodecInv
  <1>8. CASE phase' # "sequence"
    <2>1. phase' = "pattern" /\ end' = di + ml /\ full' = full /\ di' = di
      BY <1>8 DEF CopyMatch
    <2>2. From' = di - offset /\ end' - di' = ml /\ di' - From' = offset
      <3>1. From' = end' - ml' - offset'
        BY DEF From
      <3> QED
        BY <1>1, <1>2, <2>1, <3>1
    <2>3. CopyInv'
      <3>1. ASSUME written' PROVE Repeats(di, end - di, di - From)'
        <4>1. PICK a, m, d : a = di' /\ m = ml /\ d = offset
          OBVIOUS
        <4>2. Repeats(a, m, d)'
          BY <1>1, <1>2, <2>1, <3>1, <4>1, TextStays
        <4>3. m = (end - di)' /\ d = (di - From)'
          BY <2>2, <4>1
        <4> QED
          BY <4>1, <4>2, <4>3
      <3>2. offset' >= 1 /\ From' \in Nat /\ From' + offset' <= di' /\ di' <= end'
        BY <1>1, <1>2, <2>1, <2>2
      <3> QED
        BY <2>1, <3>1, <3>2 DEF CopyInv
    <2>4. DecodedPrefix'
      BY <1>1, <2>1 DEF CodecInv, DecodedPrefix, SrcAt
    <2>5. PlacesInv'
      BY <1>1, <2>1, PlacesStay
    <2>6. TableInv'
      BY <2>1 DEF TableInv
    <2> QED
      BY <1>1, <1>2, <1>3, <1>4, <2>1, <2>3, <2>4, <2>5, <2>6 DEF CodecInv
  <1> QED
    BY <1>7, <1>8

LEMMA PatternKeeps ==
    ASSUME CodecInv, CopyPattern
    PROVE  CodecInv'
  <1>1. /\ phase = "pattern" /\ src' = src /\ room' = room /\ written' = written /\ anchor' = anchor
        /\ out' = out /\ si' = si /\ offset' = offset /\ ml' = ml /\ end' = end
    BY DEF CopyPattern, compressVars
  <1>2. /\ SourceText /\ srcLen \in Nat /\ room \in Nat /\ Capacity \in Nat /\ Capacity = srcLen + room
        /\ srcLen <= Capacity /\ di \in Nat /\ ml \in Nat /\ offset \in Nat /\ end \in Nat /\ end <= srcLen
        /\ offset >= 1 /\ From \in Nat /\ From + offset <= di /\ di <= end
        /\ written => Repeats(di, end - di, di - From)
        /\ full \in [0 .. Capacity - 1 -> Nat] /\ si \in Nat /\ si <= Len(out) /\ Len(out) \in Nat
    BY <1>1 DEF CodecInv, CopyInv, SourceText, Capacity
  <1>3. srcLen' = srcLen /\ Capacity' = Capacity /\ From' = From
    BY <1>1 DEF srcLen, Capacity, From
  <1>4. SourceText' /\ anchor' \in 0 .. srcLen /\ offset' \in 0 .. srcLen /\ ml' \in 0 .. srcLen /\ end' \in 0 .. srcLen
    BY <1>1, <1>2, <1>3 DEF CodecInv, SourceText
  <1>5. CASE di < end
    <2> DEFINE P == di - From
               L == PatternLength
    <2>1. /\ full' = Put(full, Behind(full, di, L, P)) /\ di' = di + L /\ phase' = "pattern"
      BY <1>1, <1>5 DEF CopyPattern
    <2>2. /\ P \in Nat /\ P >= 1 /\ P <= di /\ L \in Nat /\ L <= P /\ di + L <= end
          /\ L = P \/ di + L = end
      BY <1>2, <1>5 DEF PatternLength
    <2>3. From = di - P
      BY <1>2
    <2> HIDE DEF L, P
    <2>4. PICK n, b, l, p : n = Capacity /\ b = full' /\ l = L /\ p = P
      OBVIOUS
    <2>5. /\ n \in Nat /\ l \in Nat /\ p \in Nat /\ l <= p /\ p >= 1 /\ p <= di /\ di + l <= end /\ di + l <= n
          /\ l = p \/ di + l = end
          /\ full \in [0 .. n - 1 -> Nat] /\ b = Put(full, Behind(full, di, l, p))
      BY <1>2, <2>1, <2>2, <2>4
    <2>6. Continues(full, b, n, di, l, p)
      BY <1>2, <2>5, BehindIs
    <2>7. written => \A j \in 0 .. (end - di) - 1 : SrcAt(di + j) = SrcAt(di + j - p)
      BY <1>2, <2>4 DEF Repeats, P
    <2>8. IsDecoded(b, n, di + l)
      <3>1. written => Repeats(di, l, p)
        <4>1. \A j \in 0 .. l - 1 : j \in 0 .. (end - di) - 1
          BY <1>2, <2>5
        <4> QED
          BY <2>7, <4>1 DEF Repeats
      <3> QED
        BY <2>4, <2>5, <2>6, <3>1, CopyDecodes
    <2>9. full' \in [0 .. Capacity - 1 -> Nat] /\ DecodedPrefix'
      <3>1. b \in [0 .. n - 1 -> Nat] /\ (written => \A i \in 0 .. di' - 1 : b[i] = SrcAt(i))
        BY <2>1, <2>4, <2>8 DEF IsDecoded, HoldsSrc
      <3>2. \A i : SrcAt(i)' = SrcAt(i)
        BY <1>1 DEF SrcAt
      <3> QED
        BY <1>1, <2>4, <3>1, <3>2 DEF DecodedPrefix
    <2>10. di' = di + l /\ di' \in Nat /\ di' <= end /\ di' - From = p + l
      BY <1>2, <2>1, <2>3, <2>4, <2>5
    <2>11. CopyInv'
      <3>1. ASSUME written' PROVE Repeats(di, end - di, di - From)'
        <4>1. PICK a, m, d : a = di + l /\ m = end - (di + l) /\ d = p + l
          OBVIOUS
        <4>2. ASSUME NEW j \in 0 .. m - 1 PROVE SrcAt(a + j) = SrcAt(a + j - d)
          <5>1. l = p
            BY <1>2, <2>5, <4>1, <4>2
          <5>2. /\ j \in 0 .. (end - di) - 1 /\ l + j \in 0 .. (end - di) - 1
                /\ di + (l + j) = a + j /\ di + (l + j) - p = di + j /\ di + j - p = a + j - d
            BY <1>2, <2>5, <4>1, <4>2, <5>1
          <5>3. SrcAt(di + (l + j)) = SrcAt(di + (l + j) - p) /\ SrcAt(di + j) = SrcAt(di + j - p)
            BY <1>1, <2>7, <3>1, <5>2
          <5> QED
            BY <5>2, <5>3
        <4>3. Repeats(a, m, d)
          BY <4>2 DEF Repeats
        <4>4. Repeats(a, m, d)'
          BY <1>1, <4>3, TextStays
        <4>5. a = di' /\ m = (end - di)' /\ d = (di - From)'
          BY <1>1, <1>3, <2>10, <4>1
        <4> QED
          BY <4>4, <4>5
      <3> QED
        BY <1>1, <1>2, <1>3, <2>1, <2>5, <2>10, <3>1 DEF CopyInv
    <2>12. PlacesInv'
      BY <1>1, <2>1, PlacesStay
    <2>13. TableInv'
      BY <2>1 DEF TableInv
    <2>14. di' \in 0 .. srcLen
      BY <1>2, <2>10
    <2> QED
      BY <1>1, <1>2, <1>3, <1>4, <2>1, <2>9, <2>11, <2>12, <2>13, <2>14 DEF CodecInv
  <1>6. CASE ~(di < end)
    <2>1. phase' = "sequence" /\ full' = full /\ di' = di
      BY <1>6 DEF CopyPattern
    <2>2. di = end
      BY <1>2, <1>6
    <2>3. PlacesInv'
      BY <1>1, <2>1, <2>2, PlacesStay
    <2>4. DecodedPrefix'
      BY <1>1, <2>1 DEF CodecInv, DecodedPrefix, SrcAt
    <2>5. TableInv' /\ CopyInv'
      BY <2>1 DEF TableInv, CopyInv
    <2> QED
      BY <1>1, <1>2, <1>3, <1>4, <2>1, <2>3, <2>4, <2>5 DEF CodecInv
  <1> QED
    BY <1>5, <1>6

\* The block cannot end where a token of Compress should be.
LEMMA EndKeeps ==
    ASSUME CodecInv, NoSequence
    PROVE  CodecInv'
  <1>1. /\ phase = "sequence" /\ si >= Len(out) /\ phase' = "corrupt"
        /\ src' = src /\ room' = room /\ written' = written /\ anchor' = anchor /\ out' = out
        /\ si' = si /\ di' = di /\ full' = full /\ offset' = offset /\ ml' = ml /\ end' = end
    BY DEF NoSequence, compressVars
  <1>2. SourceText /\ si \in Nat /\ di \in 0 .. srcLen /\ Len(out) \in Nat
    BY DEF CodecInv, SourceText
  <1>3. ~written
    <2> SUFFICES ASSUME written PROVE FALSE
      OBVIOUS
    <2>1. PICK G : Complete(out, G) /\ <<si, di>> \in G
      BY <1>1 DEF CodecInv, PlacesInv
    <2>2. si < Len(out)
      BY <1>2, <2>1, ReadsWritten
    <2> QED
      BY <1>1, <1>2, <2>2
  <1>4. srcLen' = srcLen /\ Capacity' = Capacity
    BY <1>1 DEF srcLen, Capacity
  <1>5. SourceText'
    BY <1>1, <1>2, <1>4 DEF SourceText
  <1>6. TableInv' /\ CopyInv' /\ PlacesInv' /\ DecodedPrefix'
    BY <1>1, <1>3 DEF TableInv, CopyInv, PlacesInv, DecodedPrefix
  <1> QED
    BY <1>1, <1>3, <1>4, <1>5, <1>6 DEF CodecInv

LEMMA CodecStutters ==
    ASSUME CodecInv, UNCHANGED codecVars
    PROVE  CodecInv'
  <1>1. /\ src' = src /\ room' = room /\ written' = written /\ phase' = phase /\ anchor' = anchor
        /\ si' = si /\ table' = table /\ out' = out /\ di' = di /\ full' = full /\ offset' = offset
        /\ ml' = ml /\ end' = end
    BY DEF codecVars
  <1>2. srcLen' = srcLen /\ Capacity' = Capacity /\ HashValues' = HashValues /\ From' = From
        /\ \A i : SrcAt(i)' = SrcAt(i)
    BY <1>1 DEF srcLen, Capacity, HashValues, From, SrcAt
  <1>3. SourceText' /\ TableInv' /\ DecodedPrefix'
    BY <1>1, <1>2 DEF CodecInv, SourceText, TableInv, DecodedPrefix
  <1>4. CopyInv'
    <2>1. Repeats(di, ml, offset)' <=> Repeats(di, ml, offset)
      BY <1>1 DEF Repeats, SrcAt
    <2>2. Repeats(di, end - di, di - From)' <=> Repeats(di, end - di, di - From)
      BY <1>1 DEF Repeats, SrcAt, From
    <2> QED
      BY <1>1, <1>2, <2>1, <2>2 DEF CodecInv, CopyInv
  <1>5. PlacesInv'
    <2>1. CASE phase = "compress"
      <3> SUFFICES ASSUME written PROVE PlacesInv'
        BY <1>1 DEF PlacesInv
      <3>1. PICK o, a, G : o = out /\ a = anchor /\ Growing(o, a, G)
        BY <2>1 DEF CodecInv, PlacesInv
      <3>2. Growing(o, a, G)'
        BY <1>1, <3>1, TextStays
      <3>3. o = out' /\ a = anchor' /\ phase' = "compress"
        BY <1>1, <2>1, <3>1
      <3> QED
        BY <3>2, <3>3 DEF PlacesInv
    <2>2. CASE phase # "compress"
      BY <1>1, <2>2, PlacesStay
    <2> QED
      BY <2>1, <2>2
  <1> QED
    BY <1>1, <1>2, <1>3, <1>4, <1>5 DEF CodecInv

LEMMA CodecKeeps ==
    ASSUME CodecInv, [CodecNext]_codecVars
    PROVE  CodecInv'
  BY SkipKeeps, EmitKeeps, FinalKeeps, ReadKeeps, EndKeeps, MatchKeeps, PatternKeeps, CodecStutters
     DEF CodecNext

LEMMA CodecSays == CodecInv => RoundTrip
  <1> SUFFICES ASSUME CodecInv PROVE RoundTrip
    OBVIOUS
  <1>1. si \in 0 .. srcLen + Len(out)
    <2>1. srcLen \in Nat /\ Len(out) \in Nat /\ si \in Nat
      BY DEF CodecInv, SourceText
    <2>2. phase # "compress" => si <= Len(out)
      BY DEF CodecInv
    <2>3. phase = "compress" => si <= srcLen
      BY DEF CodecInv, TableInv
    <2> QED
      BY <2>1, <2>2, <2>3
  <1>2. CodecTypeOK
    BY <1>1 DEF CodecInv, CodecTypeOK
  <1>3. DecodedPrefix /\ NeverCorrupt
    BY DEF CodecInv, NeverCorrupt
  <1> QED
    BY <1>2, <1>3 DEF RoundTrip

\* Whatever the input, the tables of the hash and the buffer: what Decompress decodes of a
\* block of Compress is the input, it does not take it for a corrupted one, and no block at
\* all makes it write outside the buffer.
THEOREM CodecIsExact == CodecSpec => []RoundTrip
  <1>1. CodecInit => CodecInv
    BY CodecStart
  <1>2. CodecInv /\ [CodecNext]_codecVars => CodecInv'
    BY CodecKeeps
  <1>3. CodecInv => RoundTrip
    BY CodecSays
  <1> QED
    BY <1>1, <1>2, <1>3, PTL DEF CodecSpec
=============================================================================
