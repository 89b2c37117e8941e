------------------------------- MODULE PTHash -------------------------------
(****************************************************************************)
(* The minimal perfect hash of version 2 files (internal/pthash): BuildWith *)
(* finds a pilot for every bucket of hashes, packs the pilots and remaps    *)
(* the positions past the last slot; Slot reads the packed table.           *)
(*                                                                          *)
(* The mixing functions are any functions: bucketOf of a hash, and posOf,   *)
(* the position Reduce(Mix(x ^ HP(p)), M) of a hash under a pilot.          *)
(****************************************************************************)
EXTENDS Integers, FiniteSets

CONSTANTS
    Rows,        \* indexes of xs
    Hashes,      \* values of xs
    Inputs,      \* the xs built from
    PosFns,      \* the position functions tried
    M,           \* positions
    NB, P2,      \* buckets, and how many of them are in front
    PilotBits    \* pilots are below 2^PilotBits (32)

N == Cardinality(Rows)
Positions == 0 .. M - 1
Buckets == 0 .. NB - 1
Pilots == 0 .. 2 ^ PilotBits - 1

ASSUME RowsAssumption == IsFiniteSet(Rows) /\ Rows # {}
ASSUME SizesAssumption == /\ M \in Nat /\ M >= N /\ NB \in Nat /\ P2 \in 1 .. NB - 1
                          /\ PilotBits \in Nat \ {0} /\ \A w \in 1 .. PilotBits : 2 ^ w \in Nat \ {0}
ASSUME InputsAssumption == /\ Inputs \subseteq [Rows -> Hashes]
                           /\ PosFns \subseteq [Hashes -> [Pilots -> Positions]]

VARIABLES
    xs, bucketOf, posOf,
    pc,         \* "search", "remap", "done", "duplicate" or "nopilot"
    todo,       \* non-empty buckets without a pilot
    pilots,
    taken,      \* the bitmap of positions
    spare,      \* the free positions below N not handed out yet, in their order
    q,          \* the position the remapping is at
    free        \* Table.Free: where a position from N on is sent

inputVars == <<xs, bucketOf, posOf>>
vars == <<inputVars, pc, todo, pilots, taken, spare, q, free>>

Members(b) == {r \in Rows : bucketOf[xs[r]] = b}
Pos(r, p) == posOf[xs[r]][p]

Init ==
    /\ xs \in Inputs
    /\ bucketOf \in [Hashes -> Buckets]
    /\ posOf \in PosFns
    /\ pc = "search"
    /\ todo = {b \in Buckets : Members(b) # {}}
    /\ pilots = [b \in Buckets |-> 0]
    /\ taken = {}
    /\ spare = {} /\ q = N
    /\ free = [p \in N .. M - 1 |-> 0]

----------------------------------------------------------------------------
\* The pilot search: large buckets first, then by index.

Before(a, b) ==
    \/ Cardinality(Members(a)) > Cardinality(Members(b))
    \/ Cardinality(Members(a)) = Cardinality(Members(b)) /\ a <= b
NextBucket(b) == b \in todo /\ \A a \in todo : Before(b, a)

EqualHashes(b) == \E r, s \in Members(b) : r # s /\ xs[r] = xs[s]

\* mutants: positions of other buckets are not looked at; nor those of the bucket itself.
DistinctOnly(b, p) == \A r, s \in Members(b) : r # s => Pos(r, p) # Pos(s, p)
FreeOnly(b, p) == \A r \in Members(b) : Pos(r, p) \notin taken
Fits(b, p) == FreeOnly(b, p) /\ DistinctOnly(b, p)

Duplicate(b) ==
    /\ pc = "search" /\ NextBucket(b) /\ EqualHashes(b)
    /\ pc' = "duplicate"
    /\ UNCHANGED <<inputVars, todo, pilots, taken, spare, q, free>>

PlaceBucket(b, p) ==
    /\ pc = "search" /\ NextBucket(b) /\ ~EqualHashes(b)
    /\ Fits(b, p) /\ \A o \in Pilots : o < p => ~Fits(b, o)
    /\ pilots' = [pilots EXCEPT ![b] = p]
    /\ taken' = taken \cup {Pos(r, p) : r \in Members(b)}
    /\ todo' = todo \ {b}
    /\ UNCHANGED <<inputVars, pc, spare, q, free>>

NoPilot(b) ==
    /\ pc = "search" /\ NextBucket(b) /\ ~EqualHashes(b)
    /\ \A p \in Pilots : ~Fits(b, p)
    /\ pc' = "nopilot"
    /\ UNCHANGED <<inputVars, todo, pilots, taken, spare, q, free>>

SpareSlots == (0 .. N - 1) \ taken

\* All buckets have a pilot; the free positions below N are collected.
Collect ==
    /\ pc = "search" /\ todo = {}
    /\ spare' = SpareSlots
    /\ pc' = "remap"
    /\ UNCHANGED <<inputVars, todo, pilots, taken, q, free>>

SpareUsed(s) == spare \ {s}

\* A taken position from N on gets the next spare one.
Remap ==
    /\ pc = "remap" /\ q < M
    /\ IF q \in taken
       THEN \E s \in spare : /\ \A o \in spare : s <= o
                             /\ free' = [free EXCEPT ![q] = s]
                             /\ spare' = SpareUsed(s)
       ELSE UNCHANGED <<spare, free>>
    /\ q' = q + 1
    /\ UNCHANGED <<inputVars, pc, todo, pilots, taken>>

Built ==
    /\ pc = "remap" /\ q = M
    /\ pc' = "done"
    /\ UNCHANGED <<inputVars, todo, pilots, taken, spare, q, free>>

----------------------------------------------------------------------------
\* The packed table and its reader.

Front(b) == b < P2
\* mutant: both halves are packed with the width of the front.
FrontHalf(b) == {a \in Buckets : Front(a)}
Half(b) == {a \in Buckets : Front(a) = Front(b)}

\* widthFor the largest pilot of a half.
Width(b) ==
    CHOOSE w \in 1 .. PilotBits :
        /\ \A a \in Half(b) : pilots[a] < 2 ^ w
        /\ \A v \in 1 .. w - 1 : \E a \in Half(b) : pilots[a] >= 2 ^ v

\* setBits, getBits: Width bits of the pilot.
PackedPilot(b) == pilots[b] % (2 ^ Width(b))

\* Table.Slot
Slot(x) ==
    LET p == posOf[x][PackedPilot(bucketOf[x])]
    IN IF p >= N THEN free[p] ELSE p

----------------------------------------------------------------------------
Next == \/ \E b \in Buckets : Duplicate(b) \/ NoPilot(b) \/ \E p \in Pilots : PlaceBucket(b, p)
        \/ Collect \/ Remap \/ Built

Spec == Init /\ [][Next]_vars

----------------------------------------------------------------------------
\* Properties.

TypeOK ==
    /\ xs \in [Rows -> Hashes] /\ bucketOf \in [Hashes -> Buckets]
    /\ posOf \in [Hashes -> [Pilots -> Positions]]
    /\ pc \in {"search", "remap", "done", "duplicate", "nopilot"}
    /\ todo \subseteq Buckets /\ pilots \in [Buckets -> Pilots]
    /\ taken \subseteq Positions /\ spare \subseteq 0 .. N - 1
    /\ q \in N .. M /\ free \in [N .. M - 1 -> Nat]

\* A built table sends the rows to the slots one to one: distinct slots, all below N; and
\* it sends any other hash to some slot too (BuildWith, Slot, and the free-slot table).
MinimalPerfect ==
    pc = "done" =>
        /\ \A x \in Hashes : Slot(x) \in 0 .. N - 1
        /\ \A r, s \in Rows : r # s => Slot(xs[r]) # Slot(xs[s])

\* The remapping never runs out of spare positions (free[fi]), and uses them all.
SpareSuffices ==
    pc \in {"remap", "done"} =>
        Cardinality(spare) = Cardinality({p \in taken : p >= q})
=============================================================================
