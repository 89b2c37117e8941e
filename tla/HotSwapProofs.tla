---------------------------- MODULE HotSwapProofs ----------------------------
(****************************************************************************)
(* Proofs about HotSwap, for any number of readers, publishers, closers,    *)
(* mappings and stripes.  The inductive invariant says who may refer to a   *)
(* mapping at each stage of its life, that each stripe's counters differ by *)
(* the readers inside, and what a half-done scan of the counters knows.     *)
(* Relative to it: what pending and retireWG count, what Close may rely on, *)
(* the order of the installations, and the refinement of MapSpec.           *)
(****************************************************************************)
EXTENDS HotSwap, FiniteSetTheorems, TLAPS

\* A reader refers to a mapping it found in cur.
ReaderRefs ==
    \A r \in Readers :
        rpc[r] \in {"enter", "check", "backoff", "pinned"} =>
            rmap[r] \in Mappings /\ Installed(rmap[r])

\* A mapping a publisher has opened is its own until it is installed.
HasNew(p) == ppc[p] \in {"lock", "wait", "discard"}
NewRefs ==
    /\ \A p \in Publishers : HasNew(p) => pnew[p] \in mapped /\ ~Installed(pnew[p])
    /\ \A p, q \in Publishers : HasNew(p) /\ HasNew(q) /\ p # q => pnew[p] # pnew[q]

\* A mapping that was swapped out has one owner, who has not started its drain.
HasOld(p) == ppc[p] \in {"mark", "spawn"}
Undrained(m) == m \in Mappings /\ Installed(m) /\ dpc[m] = "none" /\ m # cur
OldRefs ==
    /\ \A p \in Publishers : HasOld(p) => Undrained(pold[p])
    /\ \A p \in Publishers : ppc[p] = "spawn" => pold[p] \in retired
    /\ \A p, q \in Publishers : HasOld(p) /\ HasOld(q) /\ p # q => pold[p] # pold[q]

\* closeOnce lets one closer in.
Active == {"swap", "mark", "drain", "wait", "parked", "ready"}
CloserRefs ==
    /\ once = "new" => \A c \in Closers : cpc[c] \notin Active
    /\ \A c, d \in Closers : cpc[c] \in Active /\ cpc[d] \in Active => c = d
    /\ \A c \in Closers : cpc[c] = "mark" =>
          Undrained(closeOld) /\ \A p \in Publishers : HasOld(p) => pold[p] # closeOld

\* The stages of a mapping's life.
Drained == {"grace", "unmap", "release", "wgdone", "end"}
LifeInv ==
    /\ mapped \subseteq opened
    /\ \A m \in Mappings : Installed(m) => m \in opened
    /\ cur # NoMap => Installed(cur) /\ dpc[cur] = "none"
    /\ \A m \in Mappings : dpc[m] # "none" => Installed(m) /\ m \in retired
    /\ \A m \in Mappings :
          Installed(m) /\ dpc[m] \notin {"release", "wgdone", "end"} => m \in mapped

\* Every entry of a stripe is matched by an exit or by a reader inside.
Inside(m, s) == {r \in Readers : /\ rpc[r] \in {"check", "backoff", "pinned"}
                                 /\ rmap[r] = m /\ rstripe[r] = s}
CountInv ==
    \A m \in Mappings, s \in Stripes :
        enter[m][s] = exit[m][s] + Cardinality(Inside(m, s))

\* What the exit loop added for a stripe is at most what the stripe holds now.
ExitsRead(m, n) ==
    /\ exSum[m][0] = 0
    /\ \A i \in Stripes : i < n => exSum[m][i + 1] <= exSum[m][i] + exit[m][i]

\* Equal sums so far: no reader is pinned in the stripes that were added up.
EntersRead(m) ==
    /\ en[m] >= exSum[m][di[m]]
    /\ en[m] = exSum[m][di[m]] =>
          \A r \in Readers : rpc[r] = "pinned" /\ rmap[r] = m => rstripe[r] >= di[m]

ScanInv ==
    \A m \in Mappings :
        /\ dpc[m] = "exits" => ExitsRead(m, di[m])
        /\ dpc[m] = "enters" => ExitsRead(m, NumStripes) /\ EntersRead(m)
        /\ dpc[m] # "enters" => en[m] = 0
        /\ dpc[m] \notin {"exits", "enters"} => di[m] = 0 /\ exSum[m] = NoSums
        /\ dpc[m] \in Drained =>
              \A r \in Readers : ~(rpc[r] = "pinned" /\ rmap[r] = m)

IInv == /\ TypeOK /\ ReaderRefs /\ NewRefs /\ OldRefs /\ CloserRefs /\ LifeInv
        /\ CountInv /\ ScanInv

----------------------------------------------------------------------------
USE StripesAssumption, RetiredAssumption, ReadsAssumption, NoMapAssumption DEF Stripes

LEMMA InstallsNat == Installs \in Nat
  <1>1. IsFiniteSet({m \in Mappings : Installed(m)})
    BY FS_Subset, FiniteAssumption
  <1> QED
    BY <1>1, FS_CardinalityType DEF Installs

LEMMA InsideFinite ==
    \A m, s : IsFiniteSet(Inside(m, s)) /\ Cardinality(Inside(m, s)) \in Nat
  <1> TAKE m, s
  <1>1. IsFiniteSet(Inside(m, s))
    BY FS_Subset, FiniteAssumption DEF Inside
  <1> QED
    BY <1>1, FS_CardinalityType

\* A reader that is inside a stripe is counted by its enter counter.
LEMMA CountedIn ==
    ASSUME IInv, NEW r \in Readers, rpc[r] \in {"check", "backoff", "pinned"}
    PROVE  /\ rmap[r] \in Mappings /\ rstripe[r] \in Stripes
           /\ enter[rmap[r]][rstripe[r]] > exit[rmap[r]][rstripe[r]]
  <1> DEFINE In == Inside(rmap[r], rstripe[r])
  <1>1. rmap[r] \in Mappings /\ rstripe[r] \in Stripes
    BY DEF IInv, ReaderRefs, TypeOK, ReaderTypes
  <1>2. In # {}
    BY DEF Inside
  <1>3. Cardinality(In) > 0
    <2> HIDE DEF In
    <2>1. IsFiniteSet(In) /\ Cardinality(In) \in Nat
      BY InsideFinite DEF In
    <2> QED
      BY <1>2, <2>1, FS_EmptySet
  <1> QED
    BY <1>1, <1>3, InsideFinite DEF IInv, CountInv, TypeOK, CounterTypes

LEMMA TypeInit == Init => TypeOK
  <1> SUFFICES ASSUME Init PROVE TypeOK
    OBVIOUS
  <1>1. MapTypes /\ CounterTypes
    BY DEF Init, MapTypes, CounterTypes
  <1>2. ReaderTypes
    BY DEF Init, ReaderTypes
  <1>3. PublisherTypes /\ CloserTypes
    BY DEF Init, PublisherTypes, CloserTypes
  <1>4. DrainTypes
    BY DEF Init, DrainTypes, NoSums
  <1> QED
    BY <1>1, <1>2, <1>3, <1>4 DEF TypeOK

LEMMA ReaderTypesStep == IInv /\ [Next]_vars => ReaderTypes'
  <1> SUFFICES ASSUME IInv, [Next]_vars PROVE ReaderTypes'
    OBVIOUS
  <1> TypeOK /\ ReaderRefs /\ OldRefs /\ CloserRefs
    BY DEF IInv
  <1>1. ASSUME NEW r \in Readers, Call(r) PROVE ReaderTypes'
    BY <1>1, InstallsNat DEF TypeOK, ReaderTypes, Call, Floor
  <1>2. ASSUME NEW r \in Readers, Load(r) PROVE ReaderTypes'
    BY <1>2 DEF TypeOK, MapTypes, ReaderTypes, Load
  <1>3. ASSUME NEW r \in Readers, NoMapErr(r) PROVE ReaderTypes'
    BY <1>3 DEF TypeOK, MapTypes, ReaderTypes, NoMapErr, Returned
  <1>4. ASSUME NEW r \in Readers, Enter(r) PROVE ReaderTypes'
    BY <1>4 DEF TypeOK, MapTypes, ReaderTypes, Enter
  <1>5. ASSUME NEW r \in Readers, Check(r) PROVE ReaderTypes'
    BY <1>5 DEF TypeOK, MapTypes, ReaderTypes, Check
  <1>6. ASSUME NEW r \in Readers, BackOff(r) PROVE ReaderTypes'
    BY <1>6 DEF TypeOK, MapTypes, ReaderTypes, BackOff
  <1>7. ASSUME NEW r \in Readers, Exit(r) PROVE ReaderTypes'
    BY <1>7 DEF TypeOK, MapTypes, ReaderTypes, Exit, Returned
  <1>8. ASSUME NEW p \in Publishers, Publisher(p) PROVE ReaderTypes'
    <2>1. UNCHANGED readerVars
      BY <1>8 DEF Publisher, OpenMapping, PublishWait, PublishClosed, Discard, PublishSwap, MarkRetired, SpawnRetire, readerVars
    <2> QED
      BY <2>1 DEF TypeOK, ReaderTypes, readerVars
  <1>9. ASSUME NEW m \in Mappings, Drainer(m) PROVE ReaderTypes'
    <2>1. UNCHANGED readerVars
      BY <1>9 DEF Drainer, ScanExit, ScanEnter, GraceOver, Unmap, Release, WGDone, readerVars
    <2> QED
      BY <2>1 DEF TypeOK, ReaderTypes, readerVars
  <1>10. ASSUME NEW c \in Closers, Closer(c) PROVE ReaderTypes'
    <2>1. UNCHANGED readerVars
      BY <1>10 DEF Closer, CloseMark, CloseSwap, CloseRetire, CloseUnmapped, WGWait, WGReturn, CloseAgain, readerVars
    <2> QED
      BY <2>1 DEF TypeOK, ReaderTypes, readerVars
  <1>11. CASE UNCHANGED vars
    BY <1>11 DEF vars, readerVars, TypeOK, ReaderTypes, readerVars
  <1> QED
    BY <1>1, <1>2, <1>3, <1>4, <1>5, <1>6, <1>7, <1>8, <1>9, <1>10, <1>11
       DEF Next, Reader, Publisher, Drainer, Closer, Finished

LEMMA StripeAdd ==
    ASSUME NEW f \in [Mappings -> [Stripes -> Nat]], NEW m \in Mappings, NEW s \in Stripes,
           NEW n \in Nat
    PROVE  [f EXCEPT ![m][s] = n] \in [Mappings -> [Stripes -> Nat]]
  <1> HIDE DEF Stripes
  <1>1. [f[m] EXCEPT ![s] = n] \in [Stripes -> Nat]
    OBVIOUS
  <1> QED
    BY <1>1

LEMMA CounterTypesStep == IInv /\ [Next]_vars => CounterTypes'
  <1> SUFFICES ASSUME IInv, [Next]_vars PROVE CounterTypes'
    OBVIOUS
  <1> TypeOK /\ ReaderRefs /\ OldRefs /\ CloserRefs
    BY DEF IInv
  <1>c. CounterTypes
    BY DEF TypeOK
  <1>1. ASSUME NEW r \in Readers, Enter(r) PROVE CounterTypes'
    <2>1. rmap[r] \in Mappings /\ rstripe[r] \in Stripes
      BY <1>1 DEF TypeOK, ReaderTypes, ReaderRefs, Enter
    <2>2. enter[rmap[r]][rstripe[r]] + 1 \in Nat
      BY <2>1, <1>c DEF CounterTypes
    <2>3. /\ enter' = [enter EXCEPT ![rmap[r]][rstripe[r]] = enter[rmap[r]][rstripe[r]] + 1]
          /\ exit' = exit
      BY <1>1 DEF Enter
    <2> QED
      BY <1>c, <2>1, <2>2, <2>3, StripeAdd DEF CounterTypes
  <1>2. ASSUME NEW r \in Readers, BackOff(r) PROVE CounterTypes'
    <2>1. /\ rmap[r] \in Mappings /\ rstripe[r] \in Stripes
          /\ enter[rmap[r]][rstripe[r]] > exit[rmap[r]][rstripe[r]]
      BY <1>2, CountedIn DEF BackOff
    <2>2. enter[rmap[r]][rstripe[r]] \in Nat /\ exit[rmap[r]][rstripe[r]] \in Nat
      BY <2>1, <1>c DEF CounterTypes
    <2>3. enter[rmap[r]][rstripe[r]] - 1 \in Nat
      BY <2>1, <2>2
    <2>4. /\ enter' = [enter EXCEPT ![rmap[r]][rstripe[r]] = enter[rmap[r]][rstripe[r]] - 1]
          /\ exit' = exit
      BY <1>2 DEF BackOff, AddMinusOne
    <2> QED
      BY <1>c, <2>1, <2>3, <2>4, StripeAdd DEF CounterTypes
  <1>3. ASSUME NEW r \in Readers, Exit(r) PROVE CounterTypes'
    <2>1. rmap[r] \in Mappings /\ rstripe[r] \in Stripes
      BY <1>3 DEF TypeOK, ReaderTypes, ReaderRefs, Exit
    <2>2. exit[rmap[r]][rstripe[r]] + 1 \in Nat
      BY <2>1, <1>c DEF CounterTypes
    <2>3. /\ exit' = [exit EXCEPT ![rmap[r]][rstripe[r]] = exit[rmap[r]][rstripe[r]] + 1]
          /\ enter' = enter
      BY <1>3 DEF Exit
    <2> QED
      BY <1>c, <2>1, <2>2, <2>3, StripeAdd DEF CounterTypes
  <1>4. ASSUME NEW r \in Readers, Call(r) \/ Load(r) \/ NoMapErr(r) \/ Check(r) PROVE CounterTypes'
    <2>1. UNCHANGED counterVars
      BY <1>4 DEF Call, Load, NoMapErr, Check, counterVars
    <2> QED
      BY <2>1 DEF TypeOK, CounterTypes, counterVars
  <1>5. ASSUME NEW p \in Publishers, Publisher(p) PROVE CounterTypes'
    <2>1. UNCHANGED counterVars
      BY <1>5 DEF Publisher, OpenMapping, PublishWait, PublishClosed, Discard, PublishSwap, MarkRetired, SpawnRetire, counterVars
    <2> QED
      BY <2>1 DEF TypeOK, CounterTypes, counterVars
  <1>6. ASSUME NEW m \in Mappings, Drainer(m) PROVE CounterTypes'
    <2>1. UNCHANGED counterVars
      BY <1>6 DEF Drainer, ScanExit, ScanEnter, GraceOver, Unmap, Release, WGDone, counterVars
    <2> QED
      BY <2>1 DEF TypeOK, CounterTypes, counterVars
  <1>7. ASSUME NEW c \in Closers, Closer(c) PROVE CounterTypes'
    <2>1. UNCHANGED counterVars
      BY <1>7 DEF Closer, CloseMark, CloseSwap, CloseRetire, CloseUnmapped, WGWait, WGReturn, CloseAgain, counterVars
    <2> QED
      BY <2>1 DEF TypeOK, CounterTypes, counterVars
  <1>8. CASE UNCHANGED vars
    BY <1>8 DEF vars, counterVars, TypeOK, CounterTypes, counterVars
  <1> QED
    BY <1>1, <1>2, <1>3, <1>4, <1>5, <1>6, <1>7, <1>8
       DEF Next, Reader, Publisher, Drainer, Closer, Finished

LEMMA PublisherTypesStep == IInv /\ [Next]_vars => PublisherTypes'
  <1> SUFFICES ASSUME IInv, [Next]_vars PROVE PublisherTypes'
    OBVIOUS
  <1> TypeOK /\ ReaderRefs /\ OldRefs /\ CloserRefs
    BY DEF IInv
  <1>1. ASSUME NEW r \in Readers, Reader(r) PROVE PublisherTypes'
    <2>1. UNCHANGED pubVars
      BY <1>1 DEF Reader, Call, Load, NoMapErr, Enter, Check, BackOff, Exit, pubVars
    <2> QED
      BY <2>1 DEF TypeOK, PublisherTypes, pubVars
  <1>2. ASSUME NEW p \in Publishers, OpenMapping(p) PROVE PublisherTypes'
    BY <1>2 DEF TypeOK, MapTypes, PublisherTypes, OpenMapping
  <1>3. ASSUME NEW p \in Publishers, PublishWait(p) PROVE PublisherTypes'
    BY <1>3 DEF TypeOK, MapTypes, PublisherTypes, PublishWait
  <1>4. ASSUME NEW p \in Publishers, PublishClosed(p) PROVE PublisherTypes'
    BY <1>4 DEF TypeOK, MapTypes, PublisherTypes, PublishClosed
  <1>5. ASSUME NEW p \in Publishers, Discard(p) PROVE PublisherTypes'
    BY <1>5 DEF TypeOK, MapTypes, PublisherTypes, Discard
  <1>6. ASSUME NEW p \in Publishers, PublishSwap(p) PROVE PublisherTypes'
    BY <1>6 DEF TypeOK, MapTypes, PublisherTypes, PublishSwap
  <1>7. ASSUME NEW p \in Publishers, MarkRetired(p) PROVE PublisherTypes'
    BY <1>7 DEF TypeOK, MapTypes, PublisherTypes, MarkRetired
  <1>8. ASSUME NEW p \in Publishers, SpawnRetire(p) PROVE PublisherTypes'
    BY <1>8 DEF TypeOK, MapTypes, PublisherTypes, SpawnRetire
  <1>9. ASSUME NEW m \in Mappings, Release(m) PROVE PublisherTypes'
    BY <1>9 DEF TypeOK, MapTypes, PublisherTypes, Release, Woken
  <1>10. ASSUME NEW m \in Mappings, ScanExit(m) \/ ScanEnter(m) \/ GraceOver(m) \/ Unmap(m) \/ WGDone(m) PROVE PublisherTypes'
    <2>1. UNCHANGED pubVars
      BY <1>10 DEF ScanExit, ScanEnter, GraceOver, Unmap, WGDone, pubVars
    <2> QED
      BY <2>1 DEF TypeOK, PublisherTypes, pubVars
  <1>11. ASSUME NEW c \in Closers, CloseSwap(c) PROVE PublisherTypes'
    BY <1>11 DEF TypeOK, MapTypes, PublisherTypes, CloseSwap, Woken
  <1>12. ASSUME NEW c \in Closers, CloseMark(c) \/ CloseRetire(c) \/ CloseUnmapped(c) \/ WGWait(c) \/ WGReturn(c) \/ CloseAgain(c) PROVE PublisherTypes'
    <2>1. UNCHANGED pubVars
      BY <1>12 DEF CloseMark, CloseRetire, CloseUnmapped, WGWait, WGReturn, CloseAgain, pubVars
    <2> QED
      BY <2>1 DEF TypeOK, PublisherTypes, pubVars
  <1>13. CASE UNCHANGED vars
    BY <1>13 DEF vars, pubVars, TypeOK, PublisherTypes, pubVars
  <1> QED
    BY <1>1, <1>2, <1>3, <1>4, <1>5, <1>6, <1>7, <1>8, <1>9, <1>10, <1>11, <1>12, <1>13
       DEF Next, Reader, Publisher, Drainer, Closer, Finished

LEMMA DrainTypesStep == IInv /\ [Next]_vars => DrainTypes'
  <1> SUFFICES ASSUME IInv, [Next]_vars PROVE DrainTypes'
    OBVIOUS
  <1> TypeOK /\ ReaderRefs /\ OldRefs /\ CloserRefs
    BY DEF IInv
  <1>1. ASSUME NEW r \in Readers, Reader(r) PROVE DrainTypes'
    <2>1. UNCHANGED drainVars
      BY <1>1 DEF Reader, Call, Load, NoMapErr, Enter, Check, BackOff, Exit, drainVars
    <2> QED
      BY <2>1 DEF TypeOK, DrainTypes, drainVars
  <1>2. ASSUME NEW p \in Publishers, SpawnRetire(p) PROVE DrainTypes'
    BY <1>2 DEF TypeOK, CounterTypes, DrainTypes, SpawnRetire
  <1>3. ASSUME NEW p \in Publishers, OpenMapping(p) \/ PublishWait(p) \/ PublishClosed(p) \/ Discard(p) \/ PublishSwap(p) \/ MarkRetired(p) PROVE DrainTypes'
    <2>1. UNCHANGED drainVars
      BY <1>3 DEF OpenMapping, PublishWait, PublishClosed, Discard, PublishSwap, MarkRetired, drainVars
    <2> QED
      BY <2>1 DEF TypeOK, DrainTypes, drainVars
  <1>4. ASSUME NEW m \in Mappings, ScanExit(m) PROVE DrainTypes'
    <2>1. di[m] \in Stripes /\ di[m] \in 0 .. NumStripes /\ di[m] + 1 \in 0 .. NumStripes
      BY DEF TypeOK, DrainTypes
    <2>2. exSum[m] \in [0 .. NumStripes -> Nat] /\ exit[m] \in [Stripes -> Nat]
      BY DEF TypeOK, DrainTypes, CounterTypes
    <2>3. exSum[m][di[m]] + exit[m][di[m]] \in Nat
      <3>1. exSum[m][di[m]] \in Nat
        BY <2>1, <2>2
      <3>2. exit[m][di[m]] \in Nat
        <4> HIDE DEF Stripes
        <4> QED
          BY <2>1, <2>2
      <3> QED
        BY <3>1, <3>2
    <2>4. exSum' \in [Mappings -> [0 .. NumStripes -> Nat]]
      BY <1>4, <2>1, <2>2, <2>3 DEF TypeOK, DrainTypes, ScanExit
    <2>5. di' \in [Mappings -> Stripes]
      <3>1. CASE di[m] + 1 < ScanEnd
        <4>1. di[m] + 1 \in Stripes
          BY <3>1, <2>1 DEF ScanEnd
        <4> QED
          BY <1>4, <3>1, <4>1 DEF TypeOK, DrainTypes, ScanExit
      <3>2. CASE ~(di[m] + 1 < ScanEnd)
        <4>1. 0 \in Stripes
          OBVIOUS
        <4>2. di' = [di EXCEPT ![m] = 0]
          BY <1>4, <3>2 DEF ScanExit
        <4> QED
          BY <1>4, <3>2, <4>1, <4>2 DEF TypeOK, DrainTypes, ScanExit
      <3> QED
        BY <3>1, <3>2
    <2> QED
      BY <1>4, <2>4, <2>5 DEF TypeOK, DrainTypes, ScanExit
  <1>5. ASSUME NEW m \in Mappings, ScanEnter(m) PROVE DrainTypes'
    <2>1. di[m] \in Stripes
      BY DEF TypeOK, DrainTypes
    <2>2. en[m] + enter[m][di[m]] \in Nat
      <3>1. en[m] \in Nat /\ CounterTypes
        BY DEF TypeOK, DrainTypes
      <3> HIDE DEF Stripes
      <3>2. enter[m][di[m]] \in Nat
        BY <2>1, <3>1 DEF CounterTypes
      <3> QED
        BY <3>1, <3>2
    <2>3. NoSums \in [0 .. NumStripes -> Nat]
      BY DEF NoSums
    <2>4. exSum' \in [Mappings -> [0 .. NumStripes -> Nat]]
      BY <1>5, <2>3 DEF TypeOK, DrainTypes, ScanEnter
    <2>5. di' \in [Mappings -> Stripes] /\ en' \in [Mappings -> Nat]
      <3>1. CASE di[m] + 1 < ScanEnd
        <4>1. di[m] + 1 \in Stripes
          BY <3>1, <2>1 DEF ScanEnd
        <4> QED
          BY <1>5, <2>2, <3>1, <4>1 DEF TypeOK, DrainTypes, ScanEnter
      <3>2. CASE ~(di[m] + 1 < ScanEnd)
        <4>1. 0 \in Stripes
          OBVIOUS
        <4>2. di' = [di EXCEPT ![m] = 0]
          BY <1>5, <3>2 DEF ScanEnter
        <4>3. en' = [en EXCEPT ![m] = 0]
          BY <1>5, <3>2 DEF ScanEnter
        <4> QED
          BY <4>1, <4>2, <4>3 DEF TypeOK, DrainTypes
      <3> QED
        BY <3>1, <3>2
    <2> QED
      BY <1>5, <2>4, <2>5 DEF TypeOK, DrainTypes, ScanEnter, AfterDrain
  <1>6. ASSUME NEW m \in Mappings, GraceOver(m) PROVE DrainTypes'
    BY <1>6 DEF TypeOK, CounterTypes, DrainTypes, GraceOver
  <1>7. ASSUME NEW m \in Mappings, Unmap(m) PROVE DrainTypes'
    BY <1>7 DEF TypeOK, CounterTypes, DrainTypes, Unmap
  <1>8. ASSUME NEW m \in Mappings, Release(m) PROVE DrainTypes'
    BY <1>8 DEF TypeOK, CounterTypes, DrainTypes, Release
  <1>9. ASSUME NEW m \in Mappings, WGDone(m) PROVE DrainTypes'
    BY <1>9 DEF TypeOK, CounterTypes, DrainTypes, WGDone
  <1>10. ASSUME NEW c \in Closers, CloseRetire(c) PROVE DrainTypes'
    BY <1>10 DEF TypeOK, CounterTypes, DrainTypes, CloseRetire
  <1>11. ASSUME NEW c \in Closers, CloseMark(c) \/ CloseSwap(c) \/ CloseUnmapped(c) \/ WGWait(c) \/ WGReturn(c) \/ CloseAgain(c) PROVE DrainTypes'
    <2>1. UNCHANGED drainVars
      BY <1>11 DEF CloseMark, CloseSwap, CloseUnmapped, WGWait, WGReturn, CloseAgain, drainVars
    <2> QED
      BY <2>1 DEF TypeOK, DrainTypes, drainVars
  <1>12. CASE UNCHANGED vars
    BY <1>12 DEF vars, drainVars, TypeOK, DrainTypes, drainVars
  <1> QED
    BY <1>1, <1>2, <1>3, <1>4, <1>5, <1>6, <1>7, <1>8, <1>9, <1>10, <1>11, <1>12
       DEF Next, Reader, Publisher, Drainer, Closer, Finished

LEMMA CloserTypesStep == IInv /\ [Next]_vars => CloserTypes'
  <1> SUFFICES ASSUME IInv, [Next]_vars PROVE CloserTypes'
    OBVIOUS
  <1> TypeOK /\ ReaderRefs /\ OldRefs /\ CloserRefs
    BY DEF IInv
  <1>1. ASSUME NEW r \in Readers, Reader(r) PROVE CloserTypes'
    <2>1. UNCHANGED closeVars
      BY <1>1 DEF Reader, Call, Load, NoMapErr, Enter, Check, BackOff, Exit, closeVars
    <2> QED
      BY <2>1 DEF TypeOK, CloserTypes, closeVars
  <1>2. ASSUME NEW p \in Publishers, Publisher(p) PROVE CloserTypes'
    <2>1. UNCHANGED closeVars
      BY <1>2 DEF Publisher, OpenMapping, PublishWait, PublishClosed, Discard, PublishSwap, MarkRetired, SpawnRetire, closeVars
    <2> QED
      BY <2>1 DEF TypeOK, CloserTypes, closeVars
  <1>3. ASSUME NEW m \in Mappings, WGDone(m) PROVE CloserTypes'
    BY <1>3 DEF TypeOK, MapTypes, CloserTypes, WGDone
  <1>4. ASSUME NEW m \in Mappings, ScanExit(m) \/ ScanEnter(m) \/ GraceOver(m) \/ Unmap(m) \/ Release(m) PROVE CloserTypes'
    <2>1. UNCHANGED closeVars
      BY <1>4 DEF ScanExit, ScanEnter, GraceOver, Unmap, Release, closeVars
    <2> QED
      BY <2>1 DEF TypeOK, CloserTypes, closeVars
  <1>5. ASSUME NEW c \in Closers, CloseMark(c) PROVE CloserTypes'
    BY <1>5 DEF TypeOK, MapTypes, CloserTypes, CloseMark
  <1>6. ASSUME NEW c \in Closers, CloseSwap(c) PROVE CloserTypes'
    BY <1>6 DEF TypeOK, MapTypes, CloserTypes, CloseSwap
  <1>7. ASSUME NEW c \in Closers, CloseRetire(c) PROVE CloserTypes'
    BY <1>7 DEF TypeOK, MapTypes, CloserTypes, CloseRetire
  <1>8. ASSUME NEW c \in Closers, CloseUnmapped(c) PROVE CloserTypes'
    BY <1>8 DEF TypeOK, MapTypes, CloserTypes, CloseUnmapped
  <1>9. ASSUME NEW c \in Closers, WGWait(c) PROVE CloserTypes'
    BY <1>9 DEF TypeOK, MapTypes, CloserTypes, WGWait
  <1>10. ASSUME NEW c \in Closers, WGReturn(c) PROVE CloserTypes'
    BY <1>10 DEF TypeOK, MapTypes, CloserTypes, WGReturn
  <1>11. ASSUME NEW c \in Closers, CloseAgain(c) PROVE CloserTypes'
    BY <1>11 DEF TypeOK, MapTypes, CloserTypes, CloseAgain
  <1>12. CASE UNCHANGED vars
    BY <1>12 DEF vars, closeVars, TypeOK, CloserTypes, closeVars
  <1> QED
    BY <1>1, <1>2, <1>3, <1>4, <1>5, <1>6, <1>7, <1>8, <1>9, <1>10, <1>11, <1>12
       DEF Next, Reader, Publisher, Drainer, Closer, Finished

LEMMA MapTypesStep == IInv /\ [Next]_vars => MapTypes'
  <1> SUFFICES ASSUME IInv, [Next]_vars PROVE MapTypes'
    OBVIOUS
  <1> TypeOK /\ ReaderRefs /\ OldRefs /\ CloserRefs
    BY DEF IInv
  <1>1. ASSUME NEW r \in Readers, Reader(r) PROVE MapTypes'
    <2>1. UNCHANGED <<cur, pending, swaps, opened, mapped, retired, wg, version>>
      BY <1>1 DEF Reader, Call, Load, NoMapErr, Enter, Check, BackOff, Exit
    <2> QED
      BY <2>1 DEF TypeOK, MapTypes
  <1>2. ASSUME NEW p \in Publishers, OpenMapping(p) PROVE MapTypes'
    BY <1>2 DEF TypeOK, MapTypes, PublisherTypes, CloserTypes, OpenMapping
  <1>3. ASSUME NEW p \in Publishers, Discard(p) PROVE MapTypes'
    BY <1>3 DEF TypeOK, MapTypes, PublisherTypes, CloserTypes, Discard
  <1>4. ASSUME NEW p \in Publishers, PublishSwap(p) PROVE MapTypes'
    <2>1. pnew[p] \in Mappings \cup {NoMap}
      BY DEF TypeOK, PublisherTypes
    <2>2. version' \in [Mappings -> Nat]
      <3>1. Installs + 1 \in Nat
        BY InstallsNat
      <3>2. version' = [version EXCEPT ![pnew[p]] = Installs + 1]
        BY <1>4 DEF PublishSwap
      <3> QED
        BY <3>1, <3>2 DEF TypeOK, MapTypes
    <2>3. pending' \in Int /\ swaps' \in Nat
      BY <1>4 DEF TypeOK, MapTypes, PublishSwap
    <2> QED
      BY <1>4, <2>1, <2>2, <2>3 DEF TypeOK, MapTypes, PublishSwap
  <1>5. ASSUME NEW p \in Publishers, MarkRetired(p) PROVE MapTypes'
    BY <1>5 DEF TypeOK, MapTypes, PublisherTypes, CloserTypes, MarkRetired, OldRefs, HasOld, Undrained
  <1>6. ASSUME NEW p \in Publishers, SpawnRetire(p) PROVE MapTypes'
    BY <1>6 DEF TypeOK, MapTypes, PublisherTypes, CloserTypes, SpawnRetire
  <1>7. ASSUME NEW p \in Publishers, PublishWait(p) \/ PublishClosed(p) PROVE MapTypes'
    <2>1. UNCHANGED <<cur, pending, swaps, opened, mapped, retired, wg, version>>
      BY <1>7 DEF PublishWait, PublishClosed
    <2> QED
      BY <2>1 DEF TypeOK, MapTypes
  <1>8. ASSUME NEW m \in Mappings, Unmap(m) PROVE MapTypes'
    BY <1>8 DEF TypeOK, MapTypes, PublisherTypes, CloserTypes, Unmap
  <1>9. ASSUME NEW m \in Mappings, Release(m) PROVE MapTypes'
    BY <1>9 DEF TypeOK, MapTypes, PublisherTypes, CloserTypes, Release
  <1>10. ASSUME NEW m \in Mappings, WGDone(m) PROVE MapTypes'
    BY <1>10 DEF TypeOK, MapTypes, PublisherTypes, CloserTypes, WGDone
  <1>11. ASSUME NEW m \in Mappings, ScanExit(m) \/ ScanEnter(m) \/ GraceOver(m) PROVE MapTypes'
    <2>1. UNCHANGED <<cur, pending, swaps, opened, mapped, retired, wg, version>>
      BY <1>11 DEF ScanExit, ScanEnter, GraceOver
    <2> QED
      BY <2>1 DEF TypeOK, MapTypes
  <1>12. ASSUME NEW c \in Closers, CloseSwap(c) PROVE MapTypes'
    BY <1>12 DEF TypeOK, MapTypes, PublisherTypes, CloserTypes, CloseSwap, CurAfterClose
  <1>13. ASSUME NEW c \in Closers, CloseRetire(c) PROVE MapTypes'
    BY <1>13 DEF TypeOK, MapTypes, PublisherTypes, CloserTypes, CloseRetire, CloserRefs, Undrained
  <1>14. ASSUME NEW c \in Closers, CloseMark(c) \/ CloseUnmapped(c) \/ WGWait(c) \/ WGReturn(c) \/ CloseAgain(c) PROVE MapTypes'
    <2>1. UNCHANGED <<cur, pending, swaps, opened, mapped, retired, wg, version>>
      BY <1>14 DEF CloseMark, CloseUnmapped, WGWait, WGReturn, CloseAgain
    <2> QED
      BY <2>1 DEF TypeOK, MapTypes
  <1>15. CASE UNCHANGED vars
    BY <1>15 DEF vars, TypeOK, MapTypes
  <1> QED
    BY <1>1, <1>2, <1>3, <1>4, <1>5, <1>6, <1>7, <1>8, <1>9, <1>10, <1>11, <1>12, <1>13, <1>14, <1>15
       DEF Next, Reader, Publisher, Drainer, Closer, Finished

LEMMA TypeStep == IInv /\ [Next]_vars => TypeOK'
  BY ReaderTypesStep, CounterTypesStep, PublisherTypesStep, DrainTypesStep, CloserTypesStep,
     MapTypesStep DEF TypeOK

\* What PublishSwap does to the set of installed mappings.
LEMMA SwapInstalls ==
    ASSUME IInv, NEW p \in Publishers, PublishSwap(p)
    PROVE  /\ pnew[p] \in Mappings /\ pnew[p] \in mapped /\ ~Installed(pnew[p])
           /\ \A m \in Mappings : Installed(m)' <=> Installed(m) \/ m = pnew[p]
  <1>1. pnew[p] \in Mappings /\ pnew[p] \in mapped /\ ~Installed(pnew[p])
    BY DEF IInv, NewRefs, HasNew, PublishSwap, TypeOK, MapTypes
  <1>2. Installs + 1 > 0 /\ Installs + 1 \in Nat
    BY InstallsNat
  <1>3. version' = [version EXCEPT ![pnew[p]] = Installs + 1]
    BY DEF PublishSwap
  <1> QED
    BY <1>1, <1>2, <1>3 DEF Installed, IInv, TypeOK, MapTypes

LEMMA ReaderRefsStep == IInv /\ [Next]_vars => ReaderRefs'
  <1> SUFFICES ASSUME IInv, [Next]_vars PROVE ReaderRefs'
    OBVIOUS
  <1> TypeOK /\ ReaderRefs /\ NewRefs /\ OldRefs /\ CloserRefs /\ LifeInv
    BY DEF IInv
  <1>1. ASSUME NEW r \in Readers, Call(r) PROVE ReaderRefs'
    BY <1>1 DEF TypeOK, MapTypes, ReaderTypes, ReaderRefs, Installed, Call
  <1>2. ASSUME NEW r \in Readers, Load(r) PROVE ReaderRefs'
    BY <1>2 DEF TypeOK, MapTypes, ReaderTypes, ReaderRefs, LifeInv, Installed, Load
  <1>3. ASSUME NEW r \in Readers, NoMapErr(r) PROVE ReaderRefs'
    BY <1>3 DEF TypeOK, MapTypes, ReaderTypes, ReaderRefs, Installed, NoMapErr, Returned
  <1>4. ASSUME NEW r \in Readers, Enter(r) PROVE ReaderRefs'
    BY <1>4 DEF TypeOK, MapTypes, ReaderTypes, ReaderRefs, Installed, Enter
  <1>5. ASSUME NEW r \in Readers, Check(r) PROVE ReaderRefs'
    BY <1>5 DEF TypeOK, MapTypes, ReaderTypes, ReaderRefs, Installed, Check
  <1>6. ASSUME NEW r \in Readers, BackOff(r) PROVE ReaderRefs'
    BY <1>6 DEF TypeOK, MapTypes, ReaderTypes, ReaderRefs, Installed, BackOff
  <1>7. ASSUME NEW r \in Readers, Exit(r) PROVE ReaderRefs'
    BY <1>7 DEF TypeOK, MapTypes, ReaderTypes, ReaderRefs, Installed, Exit, Returned
  <1>8. ASSUME NEW p \in Publishers, PublishSwap(p) PROVE ReaderRefs'
    BY <1>8, SwapInstalls DEF ReaderRefs, readerVars, PublishSwap
  <1>9. ASSUME NEW p \in Publishers, OpenMapping(p) \/ PublishWait(p) \/ PublishClosed(p) \/ Discard(p) \/ MarkRetired(p) \/ SpawnRetire(p) PROVE ReaderRefs'
    <2>1. UNCHANGED <<rpc, rmap, version>>
      BY <1>9 DEF OpenMapping, PublishWait, PublishClosed, Discard, MarkRetired, SpawnRetire, readerVars
    <2> QED
      BY <2>1 DEF ReaderRefs, Installed
  <1>10. ASSUME NEW m \in Mappings, Drainer(m) PROVE ReaderRefs'
    <2>1. UNCHANGED <<rpc, rmap, version>>
      BY <1>10 DEF Drainer, ScanExit, ScanEnter, GraceOver, Unmap, Release, WGDone, readerVars
    <2> QED
      BY <2>1 DEF ReaderRefs, Installed
  <1>11. ASSUME NEW c \in Closers, Closer(c) PROVE ReaderRefs'
    <2>1. UNCHANGED <<rpc, rmap, version>>
      BY <1>11 DEF Closer, CloseMark, CloseSwap, CloseRetire, CloseUnmapped, WGWait, WGReturn, CloseAgain, readerVars
    <2> QED
      BY <2>1 DEF ReaderRefs, Installed
  <1>12. CASE UNCHANGED vars
    BY <1>12 DEF vars, readerVars, ReaderRefs, Installed
  <1> QED
    BY <1>1, <1>2, <1>3, <1>4, <1>5, <1>6, <1>7, <1>8, <1>9, <1>10, <1>11, <1>12
       DEF Next, Reader, Publisher, Drainer, Closer, Finished

LEMMA NewRefsStep == IInv /\ [Next]_vars => NewRefs'
  <1> SUFFICES ASSUME IInv, [Next]_vars PROVE NewRefs'
    OBVIOUS
  <1> TypeOK /\ ReaderRefs /\ NewRefs /\ OldRefs /\ CloserRefs /\ LifeInv
    BY DEF IInv
  <1>1. ASSUME NEW r \in Readers, Reader(r) PROVE NewRefs'
    <2>1. UNCHANGED <<ppc, pnew, mapped, version>>
      BY <1>1 DEF Reader, Call, Load, NoMapErr, Enter, Check, BackOff, Exit, pubVars
    <2> QED
      BY <2>1 DEF NewRefs, HasNew, Installed
  <1>2. ASSUME NEW p \in Publishers, OpenMapping(p) PROVE NewRefs'
    BY <1>2 DEF TypeOK, MapTypes, PublisherTypes, NewRefs, HasNew, LifeInv, Installed, OpenMapping
  <1>3. ASSUME NEW p \in Publishers, PublishWait(p) PROVE NewRefs'
    BY <1>3 DEF TypeOK, MapTypes, PublisherTypes, NewRefs, HasNew, Installed, PublishWait
  <1>4. ASSUME NEW p \in Publishers, PublishClosed(p) PROVE NewRefs'
    BY <1>4 DEF TypeOK, MapTypes, PublisherTypes, NewRefs, HasNew, Installed, PublishClosed
  <1>5. ASSUME NEW p \in Publishers, Discard(p) PROVE NewRefs'
    BY <1>5 DEF TypeOK, MapTypes, PublisherTypes, NewRefs, HasNew, Installed, Discard
  <1>6. ASSUME NEW p \in Publishers, PublishSwap(p) PROVE NewRefs'
    <2>1. /\ ppc' = [ppc EXCEPT ![p] = IF cur = NoMap THEN "idle" ELSE "mark"]
          /\ pnew' = [pnew EXCEPT ![p] = NoMap] /\ mapped' = mapped
          /\ HasNew(p)
      BY <1>6 DEF PublishSwap, HasNew
    <2>2. /\ ~HasNew(p)'
          /\ \A q \in Publishers : q # p => ppc'[q] = ppc[q] /\ pnew'[q] = pnew[q]
      BY <2>1 DEF TypeOK, PublisherTypes, HasNew
    <2>3. \A q \in Publishers : HasNew(q)' => HasNew(q) /\ pnew'[q] = pnew[q] /\ q # p
      BY <2>2 DEF HasNew
    <2>4. mapped \subseteq Mappings
      BY DEF TypeOK, MapTypes
    <2>5. \A m \in Mappings : Installed(m)' <=> Installed(m) \/ m = pnew[p]
      BY <1>6, SwapInstalls
    <2>6. ASSUME NEW q \in Publishers, ppc'[q] \in {"lock", "wait", "discard"}
          PROVE  pnew'[q] \in mapped' /\ ~(version'[pnew'[q]] > 0)
      <3>1. HasNew(q) /\ pnew'[q] = pnew[q] /\ q # p
        BY <2>3, <2>6 DEF HasNew
      <3>2. pnew[q] \in mapped /\ ~Installed(pnew[q]) /\ pnew[q] # pnew[p]
        BY <2>1, <3>1 DEF NewRefs
      <3>3. pnew[q] \in Mappings
        BY <2>4, <3>2
      <3>4. ~(version'[pnew[q]] > 0)
        BY <2>5, <3>2, <3>3 DEF Installed
      <3> QED
        BY <2>1, <3>1, <3>2, <3>4
    <2>7. ASSUME NEW q \in Publishers, NEW t \in Publishers, q # t,
                 ppc'[q] \in {"lock", "wait", "discard"}, ppc'[t] \in {"lock", "wait", "discard"}
          PROVE  pnew'[q] # pnew'[t]
      <3>1. HasNew(q) /\ pnew'[q] = pnew[q] /\ HasNew(t) /\ pnew'[t] = pnew[t]
        BY <2>3, <2>7 DEF HasNew
      <3> QED
        BY <2>7, <3>1 DEF NewRefs
    <2> QED
      BY <2>6, <2>7 DEF NewRefs, HasNew, Installed
  <1>7. ASSUME NEW p \in Publishers, MarkRetired(p) PROVE NewRefs'
    BY <1>7 DEF TypeOK, MapTypes, PublisherTypes, NewRefs, HasNew, Installed, MarkRetired
  <1>8. ASSUME NEW p \in Publishers, SpawnRetire(p) PROVE NewRefs'
    BY <1>8 DEF TypeOK, MapTypes, PublisherTypes, NewRefs, HasNew, Installed, SpawnRetire
  <1>9. ASSUME NEW m \in Mappings, Unmap(m) PROVE NewRefs'
    BY <1>9 DEF TypeOK, MapTypes, PublisherTypes, NewRefs, HasNew, LifeInv, Installed, Unmap, pubVars
  <1>10. ASSUME NEW m \in Mappings, Release(m) PROVE NewRefs'
    BY <1>10 DEF TypeOK, MapTypes, PublisherTypes, NewRefs, HasNew, Installed, Release, Woken
  <1>11. ASSUME NEW m \in Mappings, ScanExit(m) \/ ScanEnter(m) \/ GraceOver(m) \/ WGDone(m) PROVE NewRefs'
    <2>1. UNCHANGED <<ppc, pnew, mapped, version>>
      BY <1>11 DEF ScanExit, ScanEnter, GraceOver, WGDone, pubVars
    <2> QED
      BY <2>1 DEF NewRefs, HasNew, Installed
  <1>12. ASSUME NEW c \in Closers, CloseSwap(c) PROVE NewRefs'
    BY <1>12 DEF TypeOK, MapTypes, PublisherTypes, NewRefs, HasNew, Installed, CloseSwap, Woken
  <1>13. ASSUME NEW c \in Closers, CloseMark(c) \/ CloseRetire(c) \/ CloseUnmapped(c) \/ WGWait(c) \/ WGReturn(c) \/ CloseAgain(c) PROVE NewRefs'
    <2>1. UNCHANGED <<ppc, pnew, mapped, version>>
      BY <1>13 DEF CloseMark, CloseRetire, CloseUnmapped, WGWait, WGReturn, CloseAgain, pubVars
    <2> QED
      BY <2>1 DEF NewRefs, HasNew, Installed
  <1>14. CASE UNCHANGED vars
    BY <1>14 DEF vars, pubVars, NewRefs, HasNew, Installed
  <1> QED
    BY <1>1, <1>2, <1>3, <1>4, <1>5, <1>6, <1>7, <1>8, <1>9, <1>10, <1>11, <1>12, <1>13, <1>14
       DEF Next, Reader, Publisher, Drainer, Closer, Finished

LEMMA OldRefsStep == IInv /\ [Next]_vars => OldRefs'
  <1> SUFFICES ASSUME IInv, [Next]_vars PROVE OldRefs'
    OBVIOUS
  <1> TypeOK /\ ReaderRefs /\ NewRefs /\ OldRefs /\ CloserRefs /\ LifeInv
    BY DEF IInv
  <1>1. ASSUME NEW r \in Readers, Reader(r) PROVE OldRefs'
    <2>1. UNCHANGED <<ppc, pold, version, dpc, cur, retired>>
      BY <1>1 DEF Reader, Call, Load, NoMapErr, Enter, Check, BackOff, Exit, pubVars, drainVars
    <2> QED
      BY <2>1 DEF OldRefs, HasOld, Undrained, Installed
  <1>2. ASSUME NEW p \in Publishers, OpenMapping(p) PROVE OldRefs'
    BY <1>2 DEF TypeOK, MapTypes, PublisherTypes, DrainTypes, OldRefs, HasOld, Undrained, Installed, OpenMapping, drainVars
  <1>3. ASSUME NEW p \in Publishers, PublishWait(p) PROVE OldRefs'
    BY <1>3 DEF TypeOK, MapTypes, PublisherTypes, DrainTypes, OldRefs, HasOld, Undrained, Installed, PublishWait, drainVars
  <1>4. ASSUME NEW p \in Publishers, PublishClosed(p) PROVE OldRefs'
    BY <1>4 DEF TypeOK, MapTypes, PublisherTypes, DrainTypes, OldRefs, HasOld, Undrained, Installed, PublishClosed, drainVars
  <1>5. ASSUME NEW p \in Publishers, Discard(p) PROVE OldRefs'
    BY <1>5 DEF TypeOK, MapTypes, PublisherTypes, DrainTypes, OldRefs, HasOld, Undrained, Installed, Discard, drainVars
  <1>6. ASSUME NEW p \in Publishers, PublishSwap(p) PROVE OldRefs'
    <2>1. \A m : Undrained(m) /\ m # cur => Undrained(m)'
      BY <1>6, SwapInstalls DEF Undrained, PublishSwap, drainVars
    <2>2. \A q \in Publishers : q # p => ppc'[q] = ppc[q] /\ pold'[q] = pold[q]
      BY <1>6 DEF TypeOK, PublisherTypes, PublishSwap
    <2>3. HasOld(p)' => cur # NoMap /\ pold'[p] = cur /\ ppc'[p] = "mark"
      BY <1>6 DEF TypeOK, PublisherTypes, PublishSwap, HasOld
    <2>4. \A m : m = cur /\ cur # NoMap => Undrained(m)'
      BY <1>6, SwapInstalls DEF TypeOK, MapTypes, LifeInv, Undrained, PublishSwap, drainVars
    <2>5. \A q \in Publishers : HasOld(q) => pold[q] # cur /\ Undrained(pold[q])
      BY DEF OldRefs, Undrained
    <2>6. \A q \in Publishers : q # p => (HasOld(q)' <=> HasOld(q))
      BY <2>2 DEF HasOld
    <2>7. ppc'[p] # "spawn" /\ retired' = retired
      BY <1>6 DEF TypeOK, PublisherTypes, PublishSwap
    <2>8. ASSUME NEW q \in Publishers, HasOld(q)' PROVE Undrained(pold[q])'
      <3>1. \E m : m = pold'[q]
        OBVIOUS
      <3> QED
        BY <2>1, <2>2, <2>3, <2>4, <2>5, <2>6, <2>8, <3>1 DEF Undrained
    <2>9. \A q \in Publishers : ppc'[q] = "spawn" => pold'[q] \in retired'
      BY <2>2, <2>7 DEF OldRefs
    <2>10. \A q, q2 \in Publishers : HasOld(q)' /\ HasOld(q2)' /\ q # q2 => pold'[q] # pold'[q2]
      BY <2>2, <2>3, <2>5, <2>6 DEF OldRefs
    <2> QED
      BY <2>8, <2>9, <2>10 DEF OldRefs
  <1>7. ASSUME NEW p \in Publishers, MarkRetired(p) PROVE OldRefs'
    <2>1. /\ UNCHANGED <<version, cur, dpc, pold>> /\ retired' = retired \cup {pold[p]}
          /\ ppc[p] = "mark" /\ ppc' = [ppc EXCEPT ![p] = "spawn"]
      BY <1>7 DEF MarkRetired, drainVars
    <2>2. \A q \in Publishers : ppc'[q] = IF q = p THEN "spawn" ELSE ppc[q]
      BY <2>1 DEF TypeOK, PublisherTypes
    <2>3. \A q \in Publishers : ppc'[q] \in {"mark", "spawn"} => HasOld(q)
      BY <2>1, <2>2 DEF HasOld
    <2>4. \A q \in Publishers : ppc'[q] = "spawn" => pold[q] \in retired'
      BY <2>1, <2>2 DEF OldRefs
    <2> QED
      BY <2>1, <2>3, <2>4 DEF OldRefs, HasOld, Undrained, Installed
  <1>8. ASSUME NEW p \in Publishers, SpawnRetire(p) PROVE OldRefs'
    BY <1>8 DEF TypeOK, MapTypes, PublisherTypes, DrainTypes, OldRefs, HasOld, Undrained, Installed, SpawnRetire
  <1>9. ASSUME NEW m \in Mappings, ScanExit(m) PROVE OldRefs'
    BY <1>9 DEF TypeOK, MapTypes, PublisherTypes, DrainTypes, OldRefs, HasOld, Undrained, Installed, ScanExit, pubVars
  <1>10. ASSUME NEW m \in Mappings, ScanEnter(m) PROVE OldRefs'
    BY <1>10 DEF TypeOK, MapTypes, PublisherTypes, DrainTypes, OldRefs, HasOld, Undrained, Installed, ScanEnter, pubVars
  <1>11. ASSUME NEW m \in Mappings, GraceOver(m) PROVE OldRefs'
    BY <1>11 DEF TypeOK, MapTypes, PublisherTypes, DrainTypes, OldRefs, HasOld, Undrained, Installed, GraceOver, pubVars
  <1>12. ASSUME NEW m \in Mappings, Unmap(m) PROVE OldRefs'
    BY <1>12 DEF TypeOK, MapTypes, PublisherTypes, DrainTypes, OldRefs, HasOld, Undrained, Installed, Unmap, pubVars
  <1>13. ASSUME NEW m \in Mappings, Release(m) PROVE OldRefs'
    BY <1>13 DEF TypeOK, MapTypes, PublisherTypes, DrainTypes, OldRefs, HasOld, Undrained, Installed, Release, Woken
  <1>14. ASSUME NEW m \in Mappings, WGDone(m) PROVE OldRefs'
    BY <1>14 DEF TypeOK, MapTypes, PublisherTypes, DrainTypes, OldRefs, HasOld, Undrained, Installed, WGDone, pubVars
  <1>15. ASSUME NEW c \in Closers, CloseSwap(c) PROVE OldRefs'
    BY <1>15 DEF TypeOK, MapTypes, PublisherTypes, DrainTypes, OldRefs, HasOld, Undrained, Installed, CloseSwap, Woken, drainVars, CurAfterClose
  <1>16. ASSUME NEW c \in Closers, CloseRetire(c) PROVE OldRefs'
    BY <1>16 DEF TypeOK, MapTypes, PublisherTypes, DrainTypes, OldRefs, HasOld, Undrained, Installed, CloseRetire, pubVars, CloserRefs, HasOld
  <1>17. ASSUME NEW c \in Closers, CloseMark(c) \/ CloseUnmapped(c) \/ WGWait(c) \/ WGReturn(c) \/ CloseAgain(c) PROVE OldRefs'
    <2>1. UNCHANGED <<ppc, pold, version, dpc, cur, retired>>
      BY <1>17 DEF CloseMark, CloseUnmapped, WGWait, WGReturn, CloseAgain, pubVars, drainVars
    <2> QED
      BY <2>1 DEF OldRefs, HasOld, Undrained, Installed
  <1>18. CASE UNCHANGED vars
    BY <1>18 DEF vars, pubVars, drainVars, OldRefs, HasOld, Undrained, Installed
  <1> QED
    BY <1>1, <1>2, <1>3, <1>4, <1>5, <1>6, <1>7, <1>8, <1>9, <1>10, <1>11, <1>12, <1>13, <1>14, <1>15, <1>16, <1>17, <1>18
       DEF Next, Reader, Publisher, Drainer, Closer, Finished

\* The closer that is inside may go on, out of reach of the mapping it took.
LEMMA OneCloser ==
    ASSUME CloserRefs, NEW c \in Closers, cpc[c] \in Active, once' # "new" \/ once' = once,
           UNCHANGED <<version, dpc, cur, ppc, pold, closeOld>>,
           cpc'[c] # "mark", \A d \in Closers : d # c => cpc'[d] = cpc[d]
    PROVE  CloserRefs'
  <1>1. once # "new" /\ \A d \in Closers : d # c => cpc[d] \notin Active
    BY DEF CloserRefs
  <1>2. \A d \in Closers : d # c => cpc'[d] \notin Active
    BY <1>1
  <1>3. \A d \in Closers : cpc'[d] # "mark"
    BY <1>1, <1>2 DEF Active
  <1> QED
    BY <1>1, <1>2, <1>3 DEF CloserRefs

LEMMA CloserRefsStep == IInv /\ [Next]_vars => CloserRefs'
  <1> SUFFICES ASSUME IInv, [Next]_vars PROVE CloserRefs'
    OBVIOUS
  <1> TypeOK /\ ReaderRefs /\ NewRefs /\ OldRefs /\ CloserRefs /\ LifeInv
    BY DEF IInv
  <1>1. ASSUME NEW r \in Readers, Reader(r) PROVE CloserRefs'
    <2>1. UNCHANGED <<once, cpc, closeOld, version, dpc, cur, ppc, pold>>
      BY <1>1 DEF Reader, Call, Load, NoMapErr, Enter, Check, BackOff, Exit, pubVars, drainVars, closeVars
    <2> QED
      BY <2>1 DEF CloserRefs, HasOld, Undrained, Active, Installed
  <1>2. ASSUME NEW p \in Publishers, OpenMapping(p) PROVE CloserRefs'
    BY <1>2 DEF TypeOK, MapTypes, PublisherTypes, DrainTypes, CloserTypes, CloserRefs, HasOld, Undrained, Active, Installed, OpenMapping, drainVars, closeVars
  <1>3. ASSUME NEW p \in Publishers, PublishWait(p) PROVE CloserRefs'
    BY <1>3 DEF TypeOK, MapTypes, PublisherTypes, DrainTypes, CloserTypes, CloserRefs, HasOld, Undrained, Active, Installed, PublishWait, drainVars, closeVars
  <1>4. ASSUME NEW p \in Publishers, PublishClosed(p) PROVE CloserRefs'
    BY <1>4 DEF TypeOK, MapTypes, PublisherTypes, DrainTypes, CloserTypes, CloserRefs, HasOld, Undrained, Active, Installed, PublishClosed, drainVars, closeVars
  <1>5. ASSUME NEW p \in Publishers, Discard(p) PROVE CloserRefs'
    BY <1>5 DEF TypeOK, MapTypes, PublisherTypes, DrainTypes, CloserTypes, CloserRefs, HasOld, Undrained, Active, Installed, Discard, drainVars, closeVars
  <1>6. ASSUME NEW p \in Publishers, PublishSwap(p) PROVE CloserRefs'
    <2>1. /\ UNCHANGED <<once, cpc, closeOld, dpc>> /\ cur' = pnew[p]
          /\ pold' = [pold EXCEPT ![p] = cur]
          /\ ppc' = [ppc EXCEPT ![p] = IF cur = NoMap THEN "idle" ELSE "mark"]
      BY <1>6 DEF PublishSwap, drainVars, closeVars
    <2>2. /\ \A m \in Mappings : Installed(m) => Installed(m)'
          /\ ~Installed(pnew[p])
      BY <1>6, SwapInstalls
    <2>3. \A q \in Publishers : HasOld(q)' =>
                  \/ q = p /\ pold'[q] = cur
                  \/ HasOld(q) /\ pold'[q] = pold[q]
      <3>1. pold'[p] = cur
        BY <2>1 DEF TypeOK, PublisherTypes
      <3>2. \A q \in Publishers : q # p => ppc'[q] = ppc[q] /\ pold'[q] = pold[q]
        BY <2>1 DEF TypeOK, PublisherTypes
      <3>3. ASSUME NEW q \in Publishers, q # p, HasOld(q)' PROVE HasOld(q) /\ pold'[q] = pold[q]
        BY <3>2, <3>3 DEF HasOld
      <3> QED
        BY <3>1, <3>3
    <2>4. \A m : Undrained(m) => Undrained(m)'
      BY <2>1, <2>2 DEF Undrained
    <2>5. ASSUME NEW c \in Closers, cpc'[c] = "mark"
          PROVE  /\ Undrained(closeOld)'
                 /\ \A q \in Publishers : HasOld(q)' => pold'[q] # closeOld'
      <3>1. /\ Undrained(closeOld) /\ closeOld' = closeOld
            /\ \A q \in Publishers : HasOld(q) => pold[q] # closeOld
        BY <2>1, <2>5 DEF CloserRefs
      <3>2. Undrained(closeOld)'
        BY <2>1, <2>4, <3>1 DEF Undrained, Installed
      <3> QED
        BY <2>3, <3>1, <3>2 DEF Undrained
    <2>6. /\ once' = "new" => \A c \in Closers : cpc'[c] \notin Active
          /\ \A c, d \in Closers : cpc'[c] \in Active /\ cpc'[d] \in Active => c = d
      BY <2>1 DEF CloserRefs
    <2> QED
      BY <2>5, <2>6 DEF CloserRefs
  <1>7. ASSUME NEW p \in Publishers, MarkRetired(p) PROVE CloserRefs'
    BY <1>7 DEF TypeOK, MapTypes, PublisherTypes, DrainTypes, CloserTypes, CloserRefs, HasOld, Undrained, Active, Installed, MarkRetired, drainVars, closeVars
  <1>8. ASSUME NEW p \in Publishers, SpawnRetire(p) PROVE CloserRefs'
    BY <1>8 DEF TypeOK, MapTypes, PublisherTypes, DrainTypes, CloserTypes, CloserRefs, HasOld, Undrained, Active, Installed, SpawnRetire, closeVars
  <1>9. ASSUME NEW m \in Mappings, ScanExit(m) PROVE CloserRefs'
    BY <1>9 DEF TypeOK, MapTypes, PublisherTypes, DrainTypes, CloserTypes, CloserRefs, HasOld, Undrained, Active, Installed, ScanExit, pubVars, closeVars
  <1>10. ASSUME NEW m \in Mappings, ScanEnter(m) PROVE CloserRefs'
    BY <1>10 DEF TypeOK, MapTypes, PublisherTypes, DrainTypes, CloserTypes, CloserRefs, HasOld, Undrained, Active, Installed, ScanEnter, pubVars, closeVars
  <1>11. ASSUME NEW m \in Mappings, GraceOver(m) PROVE CloserRefs'
    BY <1>11 DEF TypeOK, MapTypes, PublisherTypes, DrainTypes, CloserTypes, CloserRefs, HasOld, Undrained, Active, Installed, GraceOver, pubVars, closeVars
  <1>12. ASSUME NEW m \in Mappings, Unmap(m) PROVE CloserRefs'
    BY <1>12 DEF TypeOK, MapTypes, PublisherTypes, DrainTypes, CloserTypes, CloserRefs, HasOld, Undrained, Active, Installed, Unmap, pubVars, closeVars
  <1>13. ASSUME NEW m \in Mappings, Release(m) PROVE CloserRefs'
    <2>1. UNCHANGED <<once, cpc, version, cur, pold, closeOld>>
      BY <1>13 DEF Release, closeVars
    <2>2. \A x \in Mappings : dpc[x] = "none" => dpc'[x] = "none"
      BY <1>13 DEF TypeOK, DrainTypes, Release
    <2>3. \A q \in Publishers : ppc'[q] \in {"mark", "spawn"} => HasOld(q)
      BY <1>13 DEF TypeOK, PublisherTypes, Release, Woken, HasOld
    <2> QED
      BY <2>1, <2>2, <2>3 DEF CloserRefs, HasOld, Undrained, Installed
  <1>14. ASSUME NEW m \in Mappings, WGDone(m) PROVE CloserRefs'
    BY <1>14 DEF TypeOK, MapTypes, PublisherTypes, DrainTypes, CloserTypes, CloserRefs, HasOld, Undrained, Active, Installed, WGDone, pubVars
  <1>15. ASSUME NEW c \in Closers, CloseMark(c) PROVE CloserRefs'
    <2>1. /\ UNCHANGED <<version, cur, dpc, ppc, pold, closeOld>> /\ once = "new"
          /\ once' = "running" /\ cpc' = [cpc EXCEPT ![c] = "swap"]
      BY <1>15 DEF CloseMark, pubVars, drainVars
    <2>2. \A d \in Closers : cpc'[d] = IF d = c THEN "swap" ELSE cpc[d]
      BY <2>1 DEF TypeOK, CloserTypes
    <2>3. \A d \in Closers : cpc[d] \notin Active
      BY <2>1 DEF CloserRefs
    <2>4. \A d \in Closers : cpc'[d] \in Active => d = c
      BY <2>2, <2>3
    <2>5. \A d \in Closers : cpc'[d] # "mark"
      BY <2>2, <2>3 DEF Active
    <2> QED
      BY <2>1, <2>4, <2>5 DEF CloserRefs
  <1>16. ASSUME NEW c \in Closers, CloseSwap(c) PROVE CloserRefs'
    BY <1>16 DEF TypeOK, MapTypes, PublisherTypes, DrainTypes, CloserTypes, CloserRefs, HasOld, Undrained, Active, Installed, CloseSwap, Woken, drainVars, CurAfterClose, LifeInv, OldRefs
  <1>17. ASSUME NEW c \in Closers, CloseRetire(c) PROVE CloserRefs'
    <2>1. /\ cpc[c] = "mark" /\ UNCHANGED once
          /\ cpc' = [cpc EXCEPT ![c] = "drain"]
      BY <1>17 DEF CloseRetire
    <2>2. cpc'[c] = "drain" /\ \A d \in Closers : d # c => cpc'[d] = cpc[d]
      BY <2>1 DEF TypeOK, CloserTypes
    <2>3. once # "new" /\ \A d \in Closers : d # c => cpc[d] \notin Active
      BY <2>1 DEF CloserRefs, Active
    <2>4. \A d \in Closers : d # c => cpc'[d] \notin Active
      BY <2>2, <2>3
    <2>5. \A d \in Closers : cpc'[d] # "mark"
      BY <2>2, <2>4 DEF Active
    <2> QED
      BY <2>1, <2>3, <2>4, <2>5 DEF CloserRefs
  <1>18. ASSUME NEW c \in Closers, CloseUnmapped(c) PROVE CloserRefs'
    <2>1. /\ UNCHANGED <<version, dpc, cur, ppc, pold, closeOld>>
          /\ once' # "new" \/ once' = once
          /\ cpc[c] \in Active
      BY <1>18 DEF CloseUnmapped, pubVars, drainVars, Active
    <2>2. /\ cpc'[c] # "mark"
          /\ \A d \in Closers : d # c => cpc'[d] = cpc[d]
      BY <1>18 DEF CloseUnmapped, TypeOK, CloserTypes
    <2> QED
      BY <2>1, <2>2, OneCloser
  <1>19. ASSUME NEW c \in Closers, WGWait(c) PROVE CloserRefs'
    <2>1. /\ UNCHANGED <<version, dpc, cur, ppc, pold, closeOld>>
          /\ once' # "new" \/ once' = once
          /\ cpc[c] \in Active
      BY <1>19 DEF WGWait, pubVars, drainVars, Active
    <2>2. /\ cpc'[c] # "mark"
          /\ \A d \in Closers : d # c => cpc'[d] = cpc[d]
      BY <1>19 DEF WGWait, TypeOK, CloserTypes
    <2> QED
      BY <2>1, <2>2, OneCloser
  <1>20. ASSUME NEW c \in Closers, WGReturn(c) PROVE CloserRefs'
    <2>1. /\ UNCHANGED <<version, dpc, cur, ppc, pold, closeOld>>
          /\ once' # "new" \/ once' = once
          /\ cpc[c] \in Active
      BY <1>20 DEF WGReturn, pubVars, drainVars, Active
    <2>2. /\ cpc'[c] # "mark"
          /\ \A d \in Closers : d # c => cpc'[d] = cpc[d]
      BY <1>20 DEF WGReturn, TypeOK, CloserTypes
    <2> QED
      BY <2>1, <2>2, OneCloser
  <1>21. ASSUME NEW c \in Closers, CloseAgain(c) PROVE CloserRefs'
    <2>1. UNCHANGED <<once, version, cur, dpc, ppc, pold, closeOld>> /\ once = "done"
      BY <1>21 DEF CloseAgain, pubVars, drainVars
    <2>2. \A d \in Closers : \/ cpc'[d] = cpc[d]
                              \/ cpc'[d] = "done"
      BY <1>21 DEF TypeOK, CloserTypes, CloseAgain
    <2>3. \A d \in Closers : cpc'[d] \in Active => cpc[d] \in Active
      BY <2>2 DEF Active
    <2>4. \A d \in Closers : cpc'[d] = "mark" => cpc[d] = "mark"
      BY <2>2
    <2> QED
      BY <2>1, <2>3, <2>4 DEF CloserRefs, HasOld, Undrained, Installed
  <1>22. CASE UNCHANGED vars
    BY <1>22 DEF vars, pubVars, drainVars, closeVars, CloserRefs, HasOld, Undrained, Active, Installed
  <1> QED
    BY <1>1, <1>2, <1>3, <1>4, <1>5, <1>6, <1>7, <1>8, <1>9, <1>10, <1>11, <1>12, <1>13, <1>14, <1>15, <1>16, <1>17, <1>18, <1>19, <1>20, <1>21, <1>22
       DEF Next, Reader, Publisher, Drainer, Closer, Finished

LEMMA LifeInvStep == IInv /\ [Next]_vars => LifeInv'
  <1> SUFFICES ASSUME IInv, [Next]_vars PROVE LifeInv'
    OBVIOUS
  <1> TypeOK /\ ReaderRefs /\ NewRefs /\ OldRefs /\ CloserRefs /\ LifeInv
    BY DEF IInv
  <1>1. ASSUME NEW r \in Readers, Reader(r) PROVE LifeInv'
    <2>1. UNCHANGED <<mapped, opened, version, cur, dpc, retired>>
      BY <1>1 DEF Reader, Call, Load, NoMapErr, Enter, Check, BackOff, Exit, drainVars
    <2> QED
      BY <2>1 DEF LifeInv, Installed
  <1>2. ASSUME NEW p \in Publishers, OpenMapping(p) PROVE LifeInv'
    BY <1>2 DEF TypeOK, MapTypes, PublisherTypes, DrainTypes, CloserTypes, LifeInv, Installed, OpenMapping, drainVars
  <1>3. ASSUME NEW p \in Publishers, Discard(p) PROVE LifeInv'
    BY <1>3 DEF TypeOK, MapTypes, PublisherTypes, DrainTypes, CloserTypes, LifeInv, Installed, Discard, drainVars, NewRefs, HasNew
  <1>4. ASSUME NEW p \in Publishers, PublishSwap(p) PROVE LifeInv'
    BY <1>4, SwapInstalls DEF TypeOK, MapTypes, DrainTypes, LifeInv, PublishSwap, drainVars
  <1>5. ASSUME NEW p \in Publishers, MarkRetired(p) PROVE LifeInv'
    BY <1>5 DEF TypeOK, MapTypes, PublisherTypes, DrainTypes, CloserTypes, LifeInv, Installed, MarkRetired, drainVars
  <1>6. ASSUME NEW p \in Publishers, SpawnRetire(p) PROVE LifeInv'
    BY <1>6 DEF TypeOK, MapTypes, PublisherTypes, DrainTypes, CloserTypes, LifeInv, Installed, SpawnRetire, OldRefs, HasOld, Undrained
  <1>7. ASSUME NEW p \in Publishers, PublishWait(p) \/ PublishClosed(p) PROVE LifeInv'
    <2>1. UNCHANGED <<mapped, opened, version, cur, dpc, retired>>
      BY <1>7 DEF PublishWait, PublishClosed, drainVars
    <2> QED
      BY <2>1 DEF LifeInv, Installed
  <1>8. ASSUME NEW m \in Mappings, ScanExit(m) PROVE LifeInv'
    BY <1>8 DEF TypeOK, MapTypes, PublisherTypes, DrainTypes, CloserTypes, LifeInv, Installed, ScanExit
  <1>9. ASSUME NEW m \in Mappings, ScanEnter(m) PROVE LifeInv'
    BY <1>9 DEF TypeOK, MapTypes, PublisherTypes, DrainTypes, CloserTypes, LifeInv, Installed, ScanEnter, AfterDrain
  <1>10. ASSUME NEW m \in Mappings, GraceOver(m) PROVE LifeInv'
    BY <1>10 DEF TypeOK, MapTypes, PublisherTypes, DrainTypes, CloserTypes, LifeInv, Installed, GraceOver
  <1>11. ASSUME NEW m \in Mappings, Unmap(m) PROVE LifeInv'
    BY <1>11 DEF TypeOK, MapTypes, PublisherTypes, DrainTypes, CloserTypes, LifeInv, Installed, Unmap
  <1>12. ASSUME NEW m \in Mappings, Release(m) PROVE LifeInv'
    BY <1>12 DEF TypeOK, MapTypes, PublisherTypes, DrainTypes, CloserTypes, LifeInv, Installed, Release
  <1>13. ASSUME NEW m \in Mappings, WGDone(m) PROVE LifeInv'
    BY <1>13 DEF TypeOK, MapTypes, PublisherTypes, DrainTypes, CloserTypes, LifeInv, Installed, WGDone
  <1>14. ASSUME NEW c \in Closers, CloseSwap(c) PROVE LifeInv'
    BY <1>14 DEF TypeOK, MapTypes, PublisherTypes, DrainTypes, CloserTypes, LifeInv, Installed, CloseSwap, drainVars, CurAfterClose
  <1>15. ASSUME NEW c \in Closers, CloseRetire(c) PROVE LifeInv'
    BY <1>15 DEF TypeOK, MapTypes, PublisherTypes, DrainTypes, CloserTypes, LifeInv, Installed, CloseRetire, CloserRefs, Undrained
  <1>16. ASSUME NEW c \in Closers, CloseMark(c) \/ CloseUnmapped(c) \/ WGWait(c) \/ WGReturn(c) \/ CloseAgain(c) PROVE LifeInv'
    <2>1. UNCHANGED <<mapped, opened, version, cur, dpc, retired>>
      BY <1>16 DEF CloseMark, CloseUnmapped, WGWait, WGReturn, CloseAgain, drainVars
    <2> QED
      BY <2>1 DEF LifeInv, Installed
  <1>17. CASE UNCHANGED vars
    BY <1>17 DEF vars, drainVars, LifeInv, Installed
  <1> QED
    BY <1>1, <1>2, <1>3, <1>4, <1>5, <1>6, <1>7, <1>8, <1>9, <1>10, <1>11, <1>12, <1>13, <1>14, <1>15, <1>16, <1>17
       DEF Next, Reader, Publisher, Drainer, Closer, Finished

\* Inside changes by the one reader that enters or leaves.
LEMMA CountInvStep == IInv /\ [Next]_vars => CountInv'
  <1> SUFFICES ASSUME IInv, [Next]_vars PROVE CountInv'
    OBVIOUS
  <1> TypeOK /\ ReaderRefs /\ LifeInv /\ CountInv /\ ScanInv
    BY DEF IInv
  <1>1. ASSUME NEW r \in Readers, Call(r) PROVE CountInv'
    <2>1. \A m \in Mappings, s \in Stripes : Inside(m, s)' = Inside(m, s)
      BY <1>1 DEF TypeOK, ReaderTypes, Inside, Call
    <2>2. UNCHANGED counterVars
      BY <1>1 DEF Call
    <2> QED
      BY <2>1, <2>2 DEF CountInv, counterVars
  <1>2. ASSUME NEW r \in Readers, Load(r) PROVE CountInv'
    <2>1. \A m \in Mappings, s \in Stripes : Inside(m, s)' = Inside(m, s)
      BY <1>2 DEF TypeOK, ReaderTypes, Inside, Load
    <2>2. UNCHANGED counterVars
      BY <1>2 DEF Load
    <2> QED
      BY <2>1, <2>2 DEF CountInv, counterVars
  <1>3. ASSUME NEW r \in Readers, NoMapErr(r) PROVE CountInv'
    <2>1. \A m \in Mappings, s \in Stripes : Inside(m, s)' = Inside(m, s)
      BY <1>3 DEF TypeOK, ReaderTypes, Inside, NoMapErr, Returned
    <2>2. UNCHANGED counterVars
      BY <1>3 DEF NoMapErr
    <2> QED
      BY <2>1, <2>2 DEF CountInv, counterVars
  <1>4. ASSUME NEW r \in Readers, Enter(r) PROVE CountInv'
    <2>1. PICK m \in Mappings, s \in Stripes : m = rmap[r] /\ s = rstripe[r]
      BY <1>4 DEF TypeOK, ReaderTypes, ReaderRefs, Enter
    <2>2. \A n \in Mappings, t \in Stripes : n # m \/ t # s => Inside(n, t)' = Inside(n, t)
      BY <1>4, <2>1 DEF TypeOK, ReaderTypes, Inside, Enter
    <2>3. r \in Inside(m, s)' /\ r \notin Inside(m, s) /\ Inside(m, s)' = Inside(m, s) \cup {r}
      BY <1>4, <2>1 DEF TypeOK, ReaderTypes, Inside, Enter
    <2>4. IsFiniteSet(Inside(m, s)) /\ IsFiniteSet(Inside(m, s)')
      BY FiniteAssumption, FS_Subset DEF Inside
    <2>5. Cardinality(Inside(m, s)') = Cardinality(Inside(m, s)) + 1
      BY <2>3, <2>4, FS_AddElement
    <2>6. Cardinality(Inside(m, s)) \in Nat /\ Cardinality(Inside(m, s)') \in Nat
      BY <2>4, FS_CardinalityType
    <2>7. enter'[m][s] = enter[m][s] + 1 /\ exit'[m][s] = exit[m][s]
      BY <1>4, <2>1 DEF TypeOK, CounterTypes, Enter, AddMinusOne
    <2>8. \A n \in Mappings, t \in Stripes : n # m \/ t # s =>
             enter'[n][t] = enter[n][t] /\ exit'[n][t] = exit[n][t]
      BY <1>4, <2>1 DEF TypeOK, CounterTypes, Enter
    <2>9. enter[m][s] \in Nat /\ exit[m][s] \in Nat /\ enter[m][s] = exit[m][s] + Cardinality(Inside(m, s))
      BY DEF TypeOK, CounterTypes, CountInv
    <2>10. enter'[m][s] = exit'[m][s] + Cardinality(Inside(m, s)')
      BY <2>5, <2>6, <2>7, <2>9
    <2>11. ASSUME NEW n \in Mappings, NEW t \in Stripes, n # m \/ t # s
           PROVE  enter'[n][t] = exit'[n][t] + Cardinality(Inside(n, t)')
      BY <2>2, <2>8, <2>11 DEF CountInv
    <2> QED
      BY <2>10, <2>11 DEF CountInv
  <1>5. ASSUME NEW r \in Readers, Check(r) PROVE CountInv'
    <2>1. \A m \in Mappings, s \in Stripes : Inside(m, s)' = Inside(m, s)
      BY <1>5 DEF TypeOK, ReaderTypes, Inside, Check
    <2>2. UNCHANGED counterVars
      BY <1>5 DEF Check
    <2> QED
      BY <2>1, <2>2 DEF CountInv, counterVars
  <1>6. ASSUME NEW r \in Readers, BackOff(r) PROVE CountInv'
    <2>1. PICK m \in Mappings, s \in Stripes : m = rmap[r] /\ s = rstripe[r]
      BY <1>6 DEF TypeOK, ReaderTypes, ReaderRefs, BackOff
    <2>2. \A n \in Mappings, t \in Stripes : n # m \/ t # s => Inside(n, t)' = Inside(n, t)
      BY <1>6, <2>1 DEF TypeOK, ReaderTypes, Inside, BackOff
    <2>3. r \in Inside(m, s) /\ r \notin Inside(m, s)' /\ Inside(m, s) = Inside(m, s)' \cup {r}
      BY <1>6, <2>1 DEF TypeOK, ReaderTypes, Inside, BackOff
    <2>4. IsFiniteSet(Inside(m, s)) /\ IsFiniteSet(Inside(m, s)')
      BY FiniteAssumption, FS_Subset DEF Inside
    <2>5. Cardinality(Inside(m, s)) = Cardinality(Inside(m, s)') + 1
      BY <2>3, <2>4, FS_AddElement
    <2>6. Cardinality(Inside(m, s)) \in Nat /\ Cardinality(Inside(m, s)') \in Nat
      BY <2>4, FS_CardinalityType
    <2>7. enter'[m][s] = enter[m][s] - 1 /\ exit'[m][s] = exit[m][s]
      BY <1>6, <2>1 DEF TypeOK, CounterTypes, BackOff, AddMinusOne
    <2>8. \A n \in Mappings, t \in Stripes : n # m \/ t # s =>
             enter'[n][t] = enter[n][t] /\ exit'[n][t] = exit[n][t]
      BY <1>6, <2>1 DEF TypeOK, CounterTypes, BackOff
    <2>9. enter[m][s] \in Nat /\ exit[m][s] \in Nat /\ enter[m][s] = exit[m][s] + Cardinality(Inside(m, s))
      BY DEF TypeOK, CounterTypes, CountInv
    <2>10. enter'[m][s] = exit'[m][s] + Cardinality(Inside(m, s)')
      BY <2>5, <2>6, <2>7, <2>9
    <2>11. ASSUME NEW n \in Mappings, NEW t \in Stripes, n # m \/ t # s
           PROVE  enter'[n][t] = exit'[n][t] + Cardinality(Inside(n, t)')
      BY <2>2, <2>8, <2>11 DEF CountInv
    <2> QED
      BY <2>10, <2>11 DEF CountInv
  <1>7. ASSUME NEW r \in Readers, Exit(r) PROVE CountInv'
    <2>1. PICK m \in Mappings, s \in Stripes : m = rmap[r] /\ s = rstripe[r]
      BY <1>7 DEF TypeOK, ReaderTypes, ReaderRefs, Exit
    <2>2. \A n \in Mappings, t \in Stripes : n # m \/ t # s => Inside(n, t)' = Inside(n, t)
      BY <1>7, <2>1 DEF TypeOK, ReaderTypes, Inside, Exit, Returned
    <2>3. r \in Inside(m, s) /\ r \notin Inside(m, s)' /\ Inside(m, s) = Inside(m, s)' \cup {r}
      BY <1>7, <2>1 DEF TypeOK, ReaderTypes, Inside, Exit, Returned
    <2>4. IsFiniteSet(Inside(m, s)) /\ IsFiniteSet(Inside(m, s)')
      BY FiniteAssumption, FS_Subset DEF Inside
    <2>5. Cardinality(Inside(m, s)) = Cardinality(Inside(m, s)') + 1
      BY <2>3, <2>4, FS_AddElement
    <2>6. Cardinality(Inside(m, s)) \in Nat /\ Cardinality(Inside(m, s)') \in Nat
      BY <2>4, FS_CardinalityType
    <2>7. enter'[m][s] = enter[m][s] /\ exit'[m][s] = exit[m][s] + 1
      BY <1>7, <2>1 DEF TypeOK, CounterTypes, Exit, AddMinusOne
    <2>8. \A n \in Mappings, t \in Stripes : n # m \/ t # s =>
             enter'[n][t] = enter[n][t] /\ exit'[n][t] = exit[n][t]
      BY <1>7, <2>1 DEF TypeOK, CounterTypes, Exit
    <2>9. enter[m][s] \in Nat /\ exit[m][s] \in Nat /\ enter[m][s] = exit[m][s] + Cardinality(Inside(m, s))
      BY DEF TypeOK, CounterTypes, CountInv
    <2>10. enter'[m][s] = exit'[m][s] + Cardinality(Inside(m, s)')
      BY <2>5, <2>6, <2>7, <2>9
    <2>11. ASSUME NEW n \in Mappings, NEW t \in Stripes, n # m \/ t # s
           PROVE  enter'[n][t] = exit'[n][t] + Cardinality(Inside(n, t)')
      BY <2>2, <2>8, <2>11 DEF CountInv
    <2> QED
      BY <2>10, <2>11 DEF CountInv
  <1>8. ASSUME NEW p \in Publishers, Publisher(p) PROVE CountInv'
    <2>1. UNCHANGED <<enter, exit, rpc, rmap, rstripe>>
      BY <1>8 DEF Publisher, OpenMapping, PublishWait, PublishClosed, Discard, PublishSwap, MarkRetired, SpawnRetire, readerVars, counterVars
    <2> QED
      BY <2>1 DEF CountInv, Inside
  <1>9. ASSUME NEW m \in Mappings, Drainer(m) PROVE CountInv'
    <2>1. UNCHANGED <<enter, exit, rpc, rmap, rstripe>>
      BY <1>9 DEF Drainer, ScanExit, ScanEnter, GraceOver, Unmap, Release, WGDone, readerVars, counterVars
    <2> QED
      BY <2>1 DEF CountInv, Inside
  <1>10. ASSUME NEW c \in Closers, Closer(c) PROVE CountInv'
    <2>1. UNCHANGED <<enter, exit, rpc, rmap, rstripe>>
      BY <1>10 DEF Closer, CloseMark, CloseSwap, CloseRetire, CloseUnmapped, WGWait, WGReturn, CloseAgain, readerVars, counterVars
    <2> QED
      BY <2>1 DEF CountInv, Inside
  <1>11. CASE UNCHANGED vars
    BY <1>11 DEF vars, readerVars, counterVars, CountInv, Inside
  <1> QED
    BY <1>1, <1>2, <1>3, <1>4, <1>5, <1>6, <1>7, <1>8, <1>9, <1>10, <1>11
       DEF Next, Reader, Publisher, Drainer, Closer, Finished

\* What the scan of m knows, one conjunct of ScanInv.
ScanOf(m) ==
    /\ dpc[m] = "exits" => ExitsRead(m, di[m])
    /\ dpc[m] = "enters" => ExitsRead(m, NumStripes) /\ EntersRead(m)
    /\ dpc[m] # "enters" => en[m] = 0
    /\ dpc[m] \notin {"exits", "enters"} => di[m] = 0 /\ exSum[m] = NoSums
    /\ dpc[m] \in Drained =>
          \A r \in Readers : ~(rpc[r] = "pinned" /\ rmap[r] = m)

\* It stays true while the scan itself does not move, exits are added, and no reader
\* is pinned anew.
LEMMA ScanOfStable ==
    ASSUME IInv, IInv => TypeOK', NEW m \in Mappings,
           dpc'[m] = dpc[m], di'[m] = di[m], exSum'[m] = exSum[m], en'[m] = en[m],
           \A s \in Stripes : exit'[m][s] >= exit[m][s],
           \A r \in Readers : dpc[m] # "none" /\ rpc'[r] = "pinned" /\ rmap'[r] = m =>
               rpc[r] = "pinned" /\ rmap[r] = m /\ rstripe'[r] = rstripe[r]
    PROVE  ScanOf(m)'
  <1>1. ScanOf(m) /\ TypeOK /\ TypeOK'
    BY DEF IInv, ScanInv, ScanOf
  <1>2. ASSUME NEW n \in 0 .. NumStripes, ExitsRead(m, n) PROVE ExitsRead(m, n)'
    <2>1. exSum'[m][0] = 0
      BY <1>2 DEF ExitsRead
    <2>2. ASSUME NEW i \in Stripes, i < n
          PROVE  exSum'[m][i + 1] <= exSum'[m][i] + exit'[m][i]
      <3>1. exSum[m][i + 1] <= exSum[m][i] + exit[m][i]
        BY <1>2, <2>2 DEF ExitsRead
      <3>2. exSum[m] \in [0 .. NumStripes -> Nat]
        BY <1>1 DEF TypeOK, DrainTypes
      <3>3. i \in 0 .. NumStripes /\ i + 1 \in 0 .. NumStripes
        OBVIOUS
      <3>4. exSum[m][i] \in Nat /\ exSum[m][i + 1] \in Nat
        BY <3>2, <3>3
      <3>5. exit[m][i] \in Nat /\ exit'[m][i] \in Nat
        BY <1>1 DEF TypeOK, CounterTypes
      <3>6. exit'[m][i] >= exit[m][i]
        OBVIOUS
      <3>7. \A a, b, e, f \in Nat : a <= b + e /\ f >= e => a <= b + f
        OBVIOUS
      <3> QED
        BY <3>1, <3>4, <3>5, <3>6, <3>7
    <2> QED
      BY <2>1, <2>2 DEF ExitsRead
  <1>3. di[m] \in 0 .. NumStripes /\ NumStripes \in 0 .. NumStripes
    BY <1>1 DEF TypeOK, DrainTypes
  <1>4. dpc'[m] = "exits" => ExitsRead(m, di[m])'
    BY <1>1, <1>2, <1>3 DEF ScanOf, ExitsRead
  <1>5. dpc'[m] = "enters" => ExitsRead(m, NumStripes)' /\ EntersRead(m)'
    BY <1>1, <1>2, <1>3 DEF ScanOf, EntersRead
  <1> QED
    BY <1>1, <1>4, <1>5 DEF ScanOf, Drained

\* Exit counters that a step leaves alone do not shrink.
\* One more stripe keeps the entries at or above the exits, equal when they were equal.
LEMMA AtLeastCounted ==
    ASSUME NEW a \in Nat, NEW b \in Nat, NEW c \in Nat, NEW e \in Nat, NEW x \in Nat,
           e >= x, b <= a + x, c >= a
    PROVE  c + e >= b /\ (c + e = b => c = a /\ e = x)
  OBVIOUS

LEMMA ExitsKept ==
    ASSUME TypeOK, exit' = exit
    PROVE  \A x \in Mappings : \A s \in Stripes : exit'[x][s] >= exit[x][s]
  <1> SUFFICES ASSUME NEW x \in Mappings, NEW s \in Stripes PROVE exit[x][s] >= exit[x][s]
    OBVIOUS
  <1>1. exit[x][s] \in Nat
    BY DEF TypeOK, CounterTypes
  <1> QED
    BY <1>1

LEMMA ScanInvStep == IInv /\ [Next]_vars => ScanInv'
  <1> SUFFICES ASSUME IInv, [Next]_vars PROVE ScanInv'
    OBVIOUS
  <1> TypeOK /\ TypeOK' /\ ReaderRefs /\ OldRefs /\ CloserRefs /\ LifeInv /\ CountInv /\ ScanInv
    BY TypeStep DEF IInv
  <1> SUFFICES ASSUME NEW x \in Mappings PROVE ScanOf(x)'
    BY DEF ScanInv, ScanOf
  <1>1. ASSUME NEW r \in Readers, Call(r) PROVE ScanOf(x)'
    <2>1. \A r2 \in Readers : rpc'[r2] = "pinned" =>
             rpc[r2] = "pinned" /\ rmap'[r2] = rmap[r2] /\ rstripe'[r2] = rstripe[r2]
      BY <1>1 DEF TypeOK, ReaderTypes, Call
    <2>2. \A s \in Stripes : exit'[x][s] >= exit[x][s]
      BY <1>1 DEF TypeOK, CounterTypes, Call, counterVars
    <2>3. UNCHANGED drainVars
      BY <1>1 DEF Call
    <2> QED
      BY <2>1, <2>2, <2>3, ScanOfStable DEF drainVars
  <1>2. ASSUME NEW r \in Readers, Load(r) PROVE ScanOf(x)'
    <2>1. \A r2 \in Readers : rpc'[r2] = "pinned" =>
             rpc[r2] = "pinned" /\ rmap'[r2] = rmap[r2] /\ rstripe'[r2] = rstripe[r2]
      BY <1>2 DEF TypeOK, ReaderTypes, Load
    <2>2. \A s \in Stripes : exit'[x][s] >= exit[x][s]
      BY <1>2 DEF TypeOK, CounterTypes, Load, counterVars
    <2>3. UNCHANGED drainVars
      BY <1>2 DEF Load
    <2> QED
      BY <2>1, <2>2, <2>3, ScanOfStable DEF drainVars
  <1>3. ASSUME NEW r \in Readers, NoMapErr(r) PROVE ScanOf(x)'
    <2>1. \A r2 \in Readers : rpc'[r2] = "pinned" =>
             rpc[r2] = "pinned" /\ rmap'[r2] = rmap[r2] /\ rstripe'[r2] = rstripe[r2]
      BY <1>3 DEF TypeOK, ReaderTypes, NoMapErr, Returned
    <2>2. \A s \in Stripes : exit'[x][s] >= exit[x][s]
      BY <1>3 DEF TypeOK, CounterTypes, NoMapErr, counterVars
    <2>3. UNCHANGED drainVars
      BY <1>3 DEF NoMapErr
    <2> QED
      BY <2>1, <2>2, <2>3, ScanOfStable DEF drainVars
  <1>4. ASSUME NEW r \in Readers, Enter(r) PROVE ScanOf(x)'
    <2>1. \A r2 \in Readers : rpc'[r2] = "pinned" =>
             rpc[r2] = "pinned" /\ rmap'[r2] = rmap[r2] /\ rstripe'[r2] = rstripe[r2]
      BY <1>4 DEF TypeOK, ReaderTypes, Enter
    <2>2. \A s \in Stripes : exit'[x][s] >= exit[x][s]
      BY <1>4 DEF TypeOK, CounterTypes, Enter, counterVars
    <2>3. UNCHANGED drainVars
      BY <1>4 DEF Enter
    <2> QED
      BY <2>1, <2>2, <2>3, ScanOfStable DEF drainVars
  <1>5. ASSUME NEW r \in Readers, Check(r) PROVE ScanOf(x)'
    <2>1. \A r2 \in Readers : r2 # r => rpc'[r2] = rpc[r2]
      BY <1>5 DEF TypeOK, ReaderTypes, Check
    <2>2. UNCHANGED <<rmap, rstripe, drainVars, counterVars>>
      BY <1>5 DEF Check
    <2>3. rpc'[r] = "pinned" => dpc[rmap[r]] = "none"
      BY <1>5 DEF TypeOK, ReaderTypes, ReaderRefs, LifeInv, Check, MayPin
    <2>4. \A s \in Stripes : exit'[x][s] >= exit[x][s]
      BY <2>2 DEF TypeOK, CounterTypes, counterVars
    <2> QED
      BY <2>1, <2>2, <2>3, <2>4, ScanOfStable DEF drainVars
  <1>6. ASSUME NEW r \in Readers, BackOff(r) PROVE ScanOf(x)'
    <2>1. \A r2 \in Readers : rpc'[r2] = "pinned" =>
             rpc[r2] = "pinned" /\ rmap'[r2] = rmap[r2] /\ rstripe'[r2] = rstripe[r2]
      BY <1>6 DEF TypeOK, ReaderTypes, BackOff
    <2>2. \A s \in Stripes : exit'[x][s] >= exit[x][s]
      <3>1. exit' = exit
        BY <1>6 DEF BackOff
      <3> QED
        BY <3>1, ExitsKept
    <2>3. UNCHANGED drainVars
      BY <1>6 DEF BackOff
    <2> QED
      BY <2>1, <2>2, <2>3, ScanOfStable DEF drainVars
  <1>7. ASSUME NEW r \in Readers, Exit(r) PROVE ScanOf(x)'
    <2>1. \A r2 \in Readers : rpc'[r2] = "pinned" =>
             rpc[r2] = "pinned" /\ rmap'[r2] = rmap[r2] /\ rstripe'[r2] = rstripe[r2]
      BY <1>7 DEF TypeOK, ReaderTypes, Exit, Returned
    <2>2. rmap[r] \in Mappings /\ rstripe[r] \in Stripes
      BY <1>7 DEF TypeOK, ReaderTypes, ReaderRefs, Exit
    <2>3. \A s \in Stripes : exit'[x][s] >= exit[x][s]
      <3>1. CounterTypes
        BY DEF TypeOK
      <3>2. exit' = [exit EXCEPT ![rmap[r]][rstripe[r]] = exit[rmap[r]][rstripe[r]] + 1]
        BY <1>7 DEF Exit
      <3> SUFFICES ASSUME NEW s \in Stripes PROVE exit'[x][s] >= exit[x][s]
        OBVIOUS
      <3>3. exit[x][s] \in Nat /\ exit[rmap[r]][rstripe[r]] \in Nat
        BY <2>2, <3>1 DEF CounterTypes
      <3>4. exit'[x][s] = exit[x][s] \/ exit'[x][s] = exit[x][s] + 1
        <4> HIDE DEF Stripes
        <4> QED
          BY <2>2, <3>1, <3>2 DEF CounterTypes
      <3> QED
        BY <3>3, <3>4
    <2>4. UNCHANGED drainVars
      BY <1>7 DEF Exit
    <2> QED
      BY <2>1, <2>3, <2>4, ScanOfStable DEF drainVars
  <1>8. ASSUME NEW p \in Publishers, SpawnRetire(p) PROVE ScanOf(x)'
    <2>1. PICK m \in Mappings : m = pold[p] /\ dpc[m] = "none"
      BY <1>8 DEF OldRefs, HasOld, Undrained, SpawnRetire
    <2>2. UNCHANGED <<rpc, rmap, rstripe, exit, di, exSum, en>> /\ dpc' = [dpc EXCEPT ![m] = "exits"]
      BY <1>8, <2>1 DEF SpawnRetire, readerVars, counterVars
    <2>3. \A s \in Stripes : exit'[x][s] >= exit[x][s]
      BY <2>2, ExitsKept
    <2>4. CASE x = m
      <3>1. dpc'[x] = "exits" /\ di'[x] = 0 /\ exSum'[x] = NoSums /\ en'[x] = 0
        BY <2>1, <2>2, <2>4 DEF TypeOK, DrainTypes, ScanInv
      <3> QED
        BY <3>1 DEF ScanOf, ExitsRead, NoSums, Drained
    <2>5. CASE x # m
      <3>1. dpc'[x] = dpc[x]
        BY <2>2, <2>5 DEF TypeOK, DrainTypes
      <3> QED
        BY <3>1, <2>2, <2>3, ScanOfStable
    <2> QED
      BY <2>4, <2>5
  <1>9. ASSUME NEW p \in Publishers, OpenMapping(p) \/ PublishWait(p) \/ PublishClosed(p) \/ Discard(p) \/ PublishSwap(p) \/ MarkRetired(p) PROVE ScanOf(x)'
    <2>1. UNCHANGED <<dpc, di, exSum, en, exit, rpc, rmap, rstripe>>
      BY <1>9 DEF OpenMapping, PublishWait, PublishClosed, Discard, PublishSwap, MarkRetired, readerVars, counterVars, drainVars
    <2>2. \A s \in Stripes : exit'[x][s] >= exit[x][s]
      BY <2>1, ExitsKept
    <2> QED
      BY <2>1, <2>2, ScanOfStable
  <1>10. ASSUME NEW m \in Mappings, ScanExit(m) PROVE ScanOf(x)'
    <2>1. UNCHANGED <<rpc, rmap, rstripe, exit>>
      BY <1>10 DEF ScanExit, readerVars, counterVars
    <2> DEFINE i == di[m]
    <2>2. /\ i \in Stripes /\ i \in 0 .. NumStripes /\ i + 1 \in 0 .. NumStripes
          /\ exSum[m] \in [0 .. NumStripes -> Nat] /\ exit[m] \in [Stripes -> Nat]
      <3>1. i \in Stripes /\ exSum[m] \in [0 .. NumStripes -> Nat]
        BY DEF TypeOK, DrainTypes
      <3>2. exit[m] \in [Stripes -> Nat]
        BY DEF TypeOK, CounterTypes
      <3>3. \A k \in Stripes : k \in 0 .. NumStripes /\ k + 1 \in 0 .. NumStripes
        OBVIOUS
      <3> QED
        BY <3>1, <3>2, <3>3
    <2>3. exSum'[m] = [exSum[m] EXCEPT ![i + 1] = exSum[m][i] + exit[m][i]]
      BY <1>10 DEF TypeOK, DrainTypes, ScanExit
    <2>4. ExitsRead(m, i) /\ en[m] = 0
      BY <1>10 DEF ScanInv, ScanExit
    <2>5. exSum'[m][0] = 0
      BY <2>2, <2>3, <2>4 DEF ExitsRead
    <2>6. ASSUME NEW j \in Stripes, j < i + 1
          PROVE  exSum'[m][j + 1] <= exSum'[m][j] + exit'[m][j]
      <3>1. CASE j = i
        <4>1. exSum'[m][i + 1] = exSum[m][i] + exit[m][i]
          BY <2>2, <2>3
        <4>2. i # i + 1
          BY <2>2
        <4>3. exSum'[m][i] = exSum[m][i]
          BY <2>2, <2>3, <4>2
        <4>4. exSum[m][i] + exit[m][i] \in Nat
          <5> HIDE DEF i, Stripes
          <5>1. exSum[m][i] \in Nat /\ exit[m][i] \in Nat
            BY <2>2
          <5> QED
            BY <5>1
        <4> QED
          BY <3>1, <2>1, <4>1, <4>3, <4>4
      <3>2. CASE j # i
        <4>1. j < i /\ j + 1 \in 0 .. NumStripes /\ j \in 0 .. NumStripes /\ j # i + 1 /\ j + 1 # i + 1
          <5> HIDE DEF i
          <5> QED
            BY <2>2, <2>6, <3>2
        <4>2. exSum'[m][j + 1] = exSum[m][j + 1] /\ exSum'[m][j] = exSum[m][j]
          BY <4>1, <2>2, <2>3
        <4> QED
          BY <4>1, <4>2, <2>1, <2>4 DEF ExitsRead
      <3> QED
        BY <3>1, <3>2
    <2>8. CASE x = m
      <3>1. CASE i + 1 < NumStripes
        <4>1. dpc'[m] = "exits" /\ di'[m] = i + 1 /\ en'[m] = en[m]
          BY <1>10, <3>1 DEF TypeOK, DrainTypes, ScanExit, ScanEnd
        <4> QED
          BY <2>4, <2>5, <2>6, <2>8, <4>1 DEF ScanOf, ExitsRead, Drained
      <3>2. CASE ~(i + 1 < NumStripes)
        <4>1. dpc'[m] = "enters" /\ di'[m] = 0 /\ en'[m] = 0
          BY <1>10, <2>4, <3>2 DEF TypeOK, DrainTypes, ScanExit, ScanEnd
        <4>2. i + 1 = NumStripes
          BY <2>2, <3>2
        <4>3. ExitsRead(m, NumStripes)'
          BY <2>5, <2>6, <4>2 DEF ExitsRead
        <4>4. EntersRead(m)'
          BY <2>5, <4>1 DEF EntersRead, TypeOK, ReaderTypes
        <4> QED
          BY <2>8, <4>1, <4>3, <4>4 DEF ScanOf, Drained
      <3> QED
        BY <3>1, <3>2
    <2>9. CASE x # m
      <3>1. dpc'[x] = dpc[x] /\ di'[x] = di[x] /\ exSum'[x] = exSum[x] /\ en'[x] = en[x]
        BY <1>10, <2>9 DEF TypeOK, DrainTypes, ScanExit
      <3>2. \A s \in Stripes : exit'[x][s] >= exit[x][s]
        BY <2>1, ExitsKept
      <3> QED
        BY <3>1, <3>2, <2>1, ScanOfStable
    <2> QED
      BY <2>8, <2>9
  <1>11. ASSUME NEW m \in Mappings, ScanEnter(m) PROVE ScanOf(x)'
    <2>1. UNCHANGED <<rpc, rmap, rstripe, exit>>
      BY <1>11 DEF ScanEnter, readerVars, counterVars
    <2> DEFINE i == di[m]  sum == en[m] + enter[m][i]
    <2>2. /\ i \in Stripes /\ i \in 0 .. NumStripes /\ i + 1 \in 0 .. NumStripes
          /\ exSum[m] \in [0 .. NumStripes -> Nat] /\ en[m] \in Nat
          /\ enter[m][i] \in Nat /\ exit[m][i] \in Nat
      <3>1. i \in Stripes /\ exSum[m] \in [0 .. NumStripes -> Nat] /\ en[m] \in Nat
        BY DEF TypeOK, DrainTypes
      <3>2. enter[m][i] \in Nat /\ exit[m][i] \in Nat
        <4> HIDE DEF i, Stripes
        <4> QED
          BY <3>1 DEF TypeOK, CounterTypes
      <3>3. \A k \in Stripes : k \in 0 .. NumStripes /\ k + 1 \in 0 .. NumStripes
        OBVIOUS
      <3> QED
        BY <3>1, <3>2, <3>3
    <2>3. ExitsRead(m, NumStripes) /\ EntersRead(m)
      BY <1>11 DEF ScanInv, ScanEnter
    <2>4. enter[m][i] >= exit[m][i]
      BY <2>2, InsideFinite DEF CountInv
    <2>5. exSum[m][i + 1] <= exSum[m][i] + exit[m][i] /\ en[m] >= exSum[m][i]
      <3>1. i < NumStripes
        BY <2>2
      <3> QED
        BY <2>2, <2>3, <3>1 DEF ExitsRead, EntersRead
    <2>6. /\ sum >= exSum[m][i + 1]
          /\ sum = exSum[m][i + 1] => en[m] = exSum[m][i] /\ enter[m][i] = exit[m][i]
      <3> DEFINE a == exSum[m][i]  b == exSum[m][i + 1]  c == en[m]
                 e == enter[m][i]  f == exit[m][i]
      <3>1. a \in Nat /\ b \in Nat /\ c \in Nat /\ e \in Nat /\ f \in Nat
        BY <2>2
      <3>2. e >= f /\ b <= a + f /\ c >= a
        BY <2>4, <2>5
      <3>3. c + e >= b /\ (c + e = b => c = a /\ e = f)
        <4> HIDE DEF a, b, c, e, f
        <4> QED
          BY <3>1, <3>2, AtLeastCounted
      <3> QED
        BY <3>3
    <2>7. ASSUME sum = exSum[m][i + 1], NEW r \in Readers, rpc[r] = "pinned", rmap[r] = m
          PROVE  rstripe[r] >= i + 1
      <3>1. en[m] = exSum[m][i] /\ enter[m][i] = exit[m][i]
        BY <2>6, <2>7
      <3>2. rstripe[r] >= i
        BY <2>3, <2>7, <3>1 DEF EntersRead
      <3>3. rstripe[r] # i
        <4>1. enter[m][i] \in Nat
          BY <2>2
        <4> HIDE DEF Stripes
        <4> QED
          BY <2>7, <3>1, <4>1, CountedIn
      <3>4. rstripe[r] \in Stripes
        BY DEF TypeOK, ReaderTypes
      <3> QED
        BY <2>2, <3>2, <3>3, <3>4
    <2>8. CASE x = m
      <3>1. CASE i + 1 < NumStripes
        <4>1. dpc'[m] = "enters" /\ di'[m] = i + 1 /\ en'[m] = sum /\ exSum'[m] = exSum[m]
          BY <1>11, <3>1 DEF TypeOK, DrainTypes, ScanEnter, ScanEnd
        <4>2. EntersRead(m)'
          BY <2>1, <2>6, <2>7, <4>1 DEF EntersRead
        <4>3. ExitsRead(m, NumStripes)'
          BY <2>1, <2>3, <4>1 DEF ExitsRead
        <4> QED
          BY <2>8, <4>1, <4>2, <4>3 DEF ScanOf, Drained
      <3>2. CASE ~(i + 1 < NumStripes)
        <4>1. i + 1 = NumStripes
          BY <2>2, <3>2
        <4>2. di'[m] = 0 /\ en'[m] = 0 /\ exSum'[m] = NoSums
          BY <1>11, <3>2 DEF TypeOK, DrainTypes, ScanEnter, ScanEnd
        <4>3. CASE sum = exSum[m][NumStripes]
          <5>1. dpc'[m] \in {"grace", "unmap"}
            BY <1>11, <3>2, <4>3 DEF TypeOK, DrainTypes, ScanEnter, ScanEnd, AfterDrain
          <5>2. \A r \in Readers : ~(rpc[r] = "pinned" /\ rmap[r] = m)
            BY <2>7, <4>1, <4>3 DEF TypeOK, ReaderTypes
          <5> QED
            BY <2>1, <2>8, <4>2, <5>1, <5>2 DEF ScanOf, Drained
        <4>4. CASE sum # exSum[m][NumStripes]
          <5>1. dpc'[m] = "exits"
            BY <1>11, <3>2, <4>4 DEF TypeOK, DrainTypes, ScanEnter, ScanEnd
          <5> QED
            BY <2>8, <4>2, <5>1 DEF ScanOf, ExitsRead, NoSums, Drained
        <4> QED
          BY <4>3, <4>4
      <3> QED
        BY <3>1, <3>2
    <2>9. CASE x # m
      <3>1. dpc'[x] = dpc[x] /\ di'[x] = di[x] /\ exSum'[x] = exSum[x] /\ en'[x] = en[x]
        BY <1>11, <2>9 DEF TypeOK, DrainTypes, ScanEnter
      <3>2. \A s \in Stripes : exit'[x][s] >= exit[x][s]
        BY <2>1, ExitsKept
      <3> QED
        BY <3>1, <3>2, <2>1, ScanOfStable
    <2> QED
      BY <2>8, <2>9
  <1>12. ASSUME NEW m \in Mappings, GraceOver(m) PROVE ScanOf(x)'
    <2>1. UNCHANGED <<rpc, rmap, rstripe, exit, di, exSum, en>>
      BY <1>12 DEF GraceOver, readerVars, counterVars
    <2>2. \A s \in Stripes : exit'[x][s] >= exit[x][s]
      BY <2>1, ExitsKept
    <2>3. CASE x = m
      <3>1. dpc[x] \in Drained /\ dpc'[x] \in Drained
        BY <1>12, <2>3 DEF TypeOK, DrainTypes, GraceOver, Drained
      <3> QED
        BY <3>1, <2>1 DEF ScanInv, ScanOf, Drained
    <2>4. CASE x # m
      <3>1. dpc'[x] = dpc[x]
        BY <1>12, <2>4 DEF TypeOK, DrainTypes, GraceOver
      <3> QED
        BY <3>1, <2>1, <2>2, ScanOfStable
    <2> QED
      BY <2>3, <2>4
  <1>13. ASSUME NEW m \in Mappings, Unmap(m) PROVE ScanOf(x)'
    <2>1. UNCHANGED <<rpc, rmap, rstripe, exit, di, exSum, en>>
      BY <1>13 DEF Unmap, readerVars, counterVars
    <2>2. \A s \in Stripes : exit'[x][s] >= exit[x][s]
      BY <2>1, ExitsKept
    <2>3. CASE x = m
      <3>1. dpc[x] \in Drained /\ dpc'[x] \in Drained
        BY <1>13, <2>3 DEF TypeOK, DrainTypes, Unmap, Drained
      <3> QED
        BY <3>1, <2>1 DEF ScanInv, ScanOf, Drained
    <2>4. CASE x # m
      <3>1. dpc'[x] = dpc[x]
        BY <1>13, <2>4 DEF TypeOK, DrainTypes, Unmap
      <3> QED
        BY <3>1, <2>1, <2>2, ScanOfStable
    <2> QED
      BY <2>3, <2>4
  <1>14. ASSUME NEW m \in Mappings, Release(m) PROVE ScanOf(x)'
    <2>1. UNCHANGED <<rpc, rmap, rstripe, exit, di, exSum, en>>
      BY <1>14 DEF Release, readerVars, counterVars
    <2>2. \A s \in Stripes : exit'[x][s] >= exit[x][s]
      BY <2>1, ExitsKept
    <2>3. CASE x = m
      <3>1. dpc[x] \in Drained /\ dpc'[x] \in Drained
        BY <1>14, <2>3 DEF TypeOK, DrainTypes, Release, Drained
      <3> QED
        BY <3>1, <2>1 DEF ScanInv, ScanOf, Drained
    <2>4. CASE x # m
      <3>1. dpc'[x] = dpc[x]
        BY <1>14, <2>4 DEF TypeOK, DrainTypes, Release
      <3> QED
        BY <3>1, <2>1, <2>2, ScanOfStable
    <2> QED
      BY <2>3, <2>4
  <1>15. ASSUME NEW m \in Mappings, WGDone(m) PROVE ScanOf(x)'
    <2>1. UNCHANGED <<rpc, rmap, rstripe, exit, di, exSum, en>>
      BY <1>15 DEF WGDone, readerVars, counterVars
    <2>2. \A s \in Stripes : exit'[x][s] >= exit[x][s]
      BY <2>1, ExitsKept
    <2>3. CASE x = m
      <3>1. dpc[x] \in Drained /\ dpc'[x] \in Drained
        BY <1>15, <2>3 DEF TypeOK, DrainTypes, WGDone, Drained
      <3> QED
        BY <3>1, <2>1 DEF ScanInv, ScanOf, Drained
    <2>4. CASE x # m
      <3>1. dpc'[x] = dpc[x]
        BY <1>15, <2>4 DEF TypeOK, DrainTypes, WGDone
      <3> QED
        BY <3>1, <2>1, <2>2, ScanOfStable
    <2> QED
      BY <2>3, <2>4
  <1>16. ASSUME NEW c \in Closers, CloseRetire(c) PROVE ScanOf(x)'
    <2>1. PICK m \in Mappings : m = closeOld /\ dpc[m] = "none"
      BY <1>16 DEF CloserRefs, Undrained, CloseRetire
    <2>2. UNCHANGED <<rpc, rmap, rstripe, exit, di, exSum, en>> /\ dpc' = [dpc EXCEPT ![m] = "exits"]
      BY <1>16, <2>1 DEF CloseRetire, readerVars, counterVars
    <2>3. \A s \in Stripes : exit'[x][s] >= exit[x][s]
      BY <2>2, ExitsKept
    <2>4. CASE x = m
      <3>1. dpc'[x] = "exits" /\ di'[x] = 0 /\ exSum'[x] = NoSums /\ en'[x] = 0
        BY <2>1, <2>2, <2>4 DEF TypeOK, DrainTypes, ScanInv
      <3> QED
        BY <3>1 DEF ScanOf, ExitsRead, NoSums, Drained
    <2>5. CASE x # m
      <3>1. dpc'[x] = dpc[x]
        BY <2>2, <2>5 DEF TypeOK, DrainTypes
      <3> QED
        BY <3>1, <2>2, <2>3, ScanOfStable
    <2> QED
      BY <2>4, <2>5
  <1>17. ASSUME NEW c \in Closers, CloseMark(c) \/ CloseSwap(c) \/ CloseUnmapped(c) \/ WGWait(c) \/ WGReturn(c) \/ CloseAgain(c) PROVE ScanOf(x)'
    <2>1. UNCHANGED <<dpc, di, exSum, en, exit, rpc, rmap, rstripe>>
      BY <1>17 DEF CloseMark, CloseSwap, CloseUnmapped, WGWait, WGReturn, CloseAgain, readerVars, counterVars, drainVars
    <2>2. \A s \in Stripes : exit'[x][s] >= exit[x][s]
      BY <2>1, ExitsKept
    <2> QED
      BY <2>1, <2>2, ScanOfStable
  <1>18. CASE UNCHANGED vars
    <2>1. UNCHANGED <<dpc, di, exSum, en, exit, rpc, rmap, rstripe>>
      BY <1>18 DEF vars, readerVars, counterVars, drainVars
    <2>2. \A s \in Stripes : exit'[x][s] >= exit[x][s]
      BY <2>1, ExitsKept
    <2> QED
      BY <2>1, <2>2, ScanOfStable
  <1> QED
    BY <1>1, <1>2, <1>3, <1>4, <1>5, <1>6, <1>7, <1>8, <1>9, <1>10, <1>11, <1>12, <1>13, <1>14, <1>15, <1>16, <1>17, <1>18
       DEF Next, Reader, Publisher, Drainer, Closer, Finished

LEMMA InitIInv == Init => IInv
  <1> SUFFICES ASSUME Init PROVE IInv
    OBVIOUS
  <1>1. TypeOK
    BY TypeInit
  <1>2. ReaderRefs /\ NewRefs /\ OldRefs /\ CloserRefs
    BY DEF Init, ReaderRefs, NewRefs, HasNew, OldRefs, HasOld, CloserRefs, Active
  <1>3. LifeInv
    BY DEF Init, LifeInv, Installed
  <1>4. CountInv
    <2>1. \A m, s : Inside(m, s) = {}
      BY DEF Init, Inside
    <2>2. Cardinality({}) = 0
      BY FS_EmptySet
    <2>3. ASSUME NEW m \in Mappings, NEW s \in Stripes
          PROVE  enter[m][s] = exit[m][s] + Cardinality(Inside(m, s))
      <3>1. enter[m][s] = 0 /\ exit[m][s] = 0
        BY DEF Init
      <3>2. Inside(m, s) = {}
        BY <2>1
      <3>3. Cardinality(Inside(m, s)) = 0
        BY <3>2, <2>2, Zenon
      <3>4. enter[m][s] = exit[m][s] + 0
        BY <3>1
      <3> QED
        BY <3>3, <3>4, Zenon
    <2> QED
      BY <2>3 DEF CountInv
  <1>5. ScanInv
    BY DEF Init, ScanInv, Drained
  <1> QED
    BY <1>1, <1>2, <1>3, <1>4, <1>5 DEF IInv

\* The inductive invariant holds in every reachable state.
THEOREM Invariance == Spec => []IInv
  <1>1. IInv /\ [Next]_vars => IInv'
    BY TypeStep, ReaderRefsStep, NewRefsStep, OldRefsStep, CloserRefsStep, LifeInvStep,
       CountInvStep, ScanInvStep DEF IInv
  <1> QED
    BY InitIInv, <1>1, PTL DEF Spec

\* Every variable keeps its type; no counter of a stripe goes below zero, however
\* readers back off (Map.enter).
THEOREM TypeCorrect == Spec => []TypeOK
  <1>1. IInv => TypeOK
    BY DEF IInv
  <1> QED
    BY Invariance, <1>1, PTL

\* For any number of readers, swaps and stripes, a pinned mapping is never unmapped
\* (enter, waitDrained, retire, Close).
THEOREM NeverUnmappedUnderReader == Spec => []NoUseAfterUnmap
  <1>1. IInv => NoUseAfterUnmap
    <2> SUFFICES ASSUME IInv, NEW r \in Readers, rpc[r] = "pinned" PROVE rmap[r] \in mapped
      BY DEF NoUseAfterUnmap
    <2>1. rmap[r] \in Mappings /\ Installed(rmap[r])
      BY DEF IInv, ReaderRefs
    <2>2. dpc[rmap[r]] \notin Drained
      BY <2>1 DEF IInv, ScanInv
    <2> QED
      BY <2>1, <2>2 DEF IInv, LifeInv, Drained
  <1> QED
    BY Invariance, <1>1, PTL

\* After Close has emptied the Map no publish installs a mapping, not even one that was
\* waiting for a slot (publish, Close).
THEOREM StaysClosed == Spec => ClosedForGood
  <1>1. [Next]_vars => [closed /\ cur = NoMap => cur' = NoMap]_vars
    <2> SUFFICES ASSUME Next, closed, cur = NoMap PROVE cur' = NoMap
      BY DEF vars
    <2>1. ASSUME NEW r \in Readers, Reader(r) PROVE cur' = NoMap
      BY <2>1 DEF Reader, Call, Load, NoMapErr, Enter, Check, BackOff, Exit
    <2>2. ASSUME NEW p \in Publishers, Publisher(p) PROVE cur' = NoMap
      BY <2>2 DEF Publisher, OpenMapping, PublishWait, PublishClosed, Discard, PublishSwap,
         MarkRetired, SpawnRetire, Refused
    <2>3. ASSUME NEW m \in Mappings, Drainer(m) PROVE cur' = NoMap
      BY <2>3 DEF Drainer, ScanExit, ScanEnter, GraceOver, Unmap, Release, WGDone
    <2>4. ASSUME NEW c \in Closers, Closer(c) PROVE cur' = NoMap
      BY <2>4 DEF Closer, CloseMark, CloseSwap, CloseRetire, CloseUnmapped, WGWait, WGReturn,
         CloseAgain, CurAfterClose
    <2>5. CASE Finished
      BY <2>5 DEF Finished, vars
    <2> QED
      BY <2>1, <2>2, <2>3, <2>4, <2>5 DEF Next
  <1> QED
    BY <1>1, PTL DEF Spec, ClosedForGood

----------------------------------------------------------------------------
\* The invariants behind the bound on mappings and behind Close; relative to IInv.

\* The replaced mappings whose slot has not been released: what pending counts.
Slots == {m \in Mappings : /\ Installed(m) /\ m # cur /\ m # closeOld
                           /\ dpc[m] \notin {"wgdone", "end"}}
\* The mappings that a retire goroutine has in hand: what retireWG counts.
Retiring == {m \in Mappings : m # closeOld /\ dpc[m] \notin {"none", "end"}}
SlotInv == /\ pending = Cardinality(Slots) /\ pending <= MaxRetired
           /\ wg = Cardinality(Retiring)

\* Close: it begins once, takes cur for itself, and nothing is installed any more.
ClosingInv ==
    /\ closed <=> once # "new"
    /\ \A c \in Closers : cpc[c] \in Active => once = "running"
    /\ \A c \in Closers : cpc[c] = "swap" => closeOld = NoMap
    /\ closed /\ closeOld = NoMap =>
          cur = NoMap \/ \E c \in Closers : cpc[c] = "swap"
    /\ closeOld # NoMap =>
          closed /\ cur = NoMap /\ Installed(closeOld) /\ dpc[closeOld] \notin {"release", "wgdone"}
    /\ \A p \in Publishers : HasOld(p) => pold[p] # closeOld
    /\ once = "done" \/ (\E c \in Closers : cpc[c] \in {"wait", "parked", "ready"}) =>
          closeOld = NoMap \/ dpc[closeOld] = "end"

\* A mapping that was swapped out is never forgotten on the way to its drain, and a
\* mapping that was unmapped stays so.
OwnedInv ==
    /\ \A m \in Mappings : Installed(m) /\ m # cur /\ dpc[m] = "none" =>
          \/ \E p \in Publishers : HasOld(p) /\ pold[p] = m
          \/ m = closeOld /\ \E c \in Closers : cpc[c] = "mark"
    /\ \A m \in Mappings : dpc[m] \in {"release", "wgdone", "end"} => m \notin mapped

\* Close found no publish running: none starts a drain behind its back.
QuietInv ==
    QuietClose =>
        /\ closed => \A p \in Publishers : ~HasOld(p)
        /\ once = "done" \/ (\E c \in Closers : cpc[c] = "ready") => wg = 0

CInv == SlotInv /\ ClosingInv /\ OwnedInv /\ QuietInv

\* Versions are the order of installation, and cur holds the latest one until Close; a
\* reader inside has a mapping that is new enough for its call.
VersionInv ==
    /\ \A m \in Mappings : version[m] <= Installs
    /\ \A m, n \in Mappings : Installed(m) /\ version[m] = version[n] => m = n
    /\ cur # NoMap => version[cur] = Installs
    /\ cur = NoMap /\ ~closed => Installs = 0
    /\ \A r \in Readers : rfloor[r] <= Floor
    /\ \A r \in Readers : rpc[r] \in {"enter", "check", "pinned"} =>
          rfloor[r] <= version[rmap[r]]
    /\ \A r \in Readers : rpc[r] = "nomap" /\ ~closed => rfloor[r] = 0

\* Finitely many mappings: the counts below are numbers.
LEMMA RetiringFinite == IsFiniteSet(Retiring) /\ Cardinality(Retiring) \in Nat
  <1>1. IsFiniteSet(Retiring)
    BY FS_Subset, FiniteAssumption DEF Retiring
  <1> QED
    BY <1>1, FS_CardinalityType

LEMMA SlotsFinite == IsFiniteSet(Slots) /\ Cardinality(Slots) \in Nat
  <1>1. IsFiniteSet(Slots)
    BY FS_Subset, FiniteAssumption DEF Slots
  <1> QED
    BY <1>1, FS_CardinalityType

\* A retire goroutine that is about to call Done is counted.
LEMMA WGDoneZero ==
    ASSUME IInv, CInv, NEW m \in Mappings, WGDone(m)
    PROVE  wg > 0 /\ wg \in Nat
  <1>1. m \in Retiring
    BY DEF WGDone, Retiring, CInv, ClosingInv
  <1>2. Cardinality(Retiring) # 0
    BY <1>1, RetiringFinite, FS_EmptySet
  <1> QED
    BY <1>2, RetiringFinite DEF CInv, SlotInv

\* Close runs once, and after it nothing is installed (Close, publish).
LEMMA ClosingStep == IInv /\ CInv /\ [Next]_vars => ClosingInv'
  <1> SUFFICES ASSUME IInv, CInv, [Next]_vars PROVE ClosingInv'
    OBVIOUS
  <1> TypeOK /\ NewRefs /\ OldRefs /\ CloserRefs /\ LifeInv /\ ClosingInv
    BY DEF IInv, CInv
  <1>1. ASSUME NEW r \in Readers, Reader(r) PROVE ClosingInv'
    <2>1. UNCHANGED <<closed, once, cpc, closeOld, cur, version, dpc, ppc, pold>>
      BY <1>1 DEF Reader, Call, Load, NoMapErr, Enter, Check, BackOff, Exit, closeVars, drainVars, pubVars
    <2> QED
      BY <2>1 DEF ClosingInv, HasOld, Installed, Active
  <1>2. ASSUME NEW p \in Publishers, OpenMapping(p) PROVE ClosingInv'
    BY <1>2 DEF TypeOK, MapTypes, PublisherTypes, DrainTypes, CloserTypes, ClosingInv, HasOld, Active, Installed, OpenMapping, drainVars, closeVars
  <1>3. ASSUME NEW p \in Publishers, PublishWait(p) PROVE ClosingInv'
    BY <1>3 DEF TypeOK, MapTypes, PublisherTypes, DrainTypes, CloserTypes, ClosingInv, HasOld, Active, Installed, PublishWait, drainVars, closeVars
  <1>4. ASSUME NEW p \in Publishers, PublishClosed(p) PROVE ClosingInv'
    BY <1>4 DEF TypeOK, MapTypes, PublisherTypes, DrainTypes, CloserTypes, ClosingInv, HasOld, Active, Installed, PublishClosed, drainVars, closeVars
  <1>5. ASSUME NEW p \in Publishers, Discard(p) PROVE ClosingInv'
    BY <1>5 DEF TypeOK, MapTypes, PublisherTypes, DrainTypes, CloserTypes, ClosingInv, HasOld, Active, Installed, Discard, drainVars, closeVars
  <1>6. ASSUME NEW p \in Publishers, PublishSwap(p) PROVE ClosingInv'
    <2>1. ~closed /\ closeOld = NoMap /\ once = "new"
      BY <1>6 DEF ClosingInv, PublishSwap, Refused
    <2>2. \A c \in Closers : cpc[c] \notin Active
      BY <2>1 DEF CloserRefs
    <2>3. UNCHANGED <<closed, once, cpc, closeOld, dpc>>
      BY <1>6 DEF PublishSwap, closeVars, drainVars
    <2>4. \A q \in Publishers : HasOld(q)' => pold'[q] # NoMap
      BY <1>6 DEF TypeOK, MapTypes, PublisherTypes, HasOld, OldRefs, Undrained, PublishSwap
    <2> QED
      BY <2>1, <2>2, <2>3, <2>4 DEF ClosingInv, Active
  <1>7. ASSUME NEW p \in Publishers, MarkRetired(p) PROVE ClosingInv'
    BY <1>7 DEF TypeOK, MapTypes, PublisherTypes, DrainTypes, CloserTypes, ClosingInv, HasOld, Active, Installed, MarkRetired, drainVars, closeVars
  <1>8. ASSUME NEW p \in Publishers, SpawnRetire(p) PROVE ClosingInv'
    BY <1>8 DEF TypeOK, MapTypes, PublisherTypes, DrainTypes, CloserTypes, ClosingInv, HasOld, Active, Installed, OldRefs, Undrained, SpawnRetire, closeVars
  <1>9. ASSUME NEW m \in Mappings, ScanExit(m) PROVE ClosingInv'
    BY <1>9 DEF TypeOK, MapTypes, PublisherTypes, DrainTypes, CloserTypes, ClosingInv, HasOld, Active, Installed, ScanExit, pubVars, closeVars
  <1>10. ASSUME NEW m \in Mappings, ScanEnter(m) PROVE ClosingInv'
    BY <1>10 DEF TypeOK, MapTypes, PublisherTypes, DrainTypes, CloserTypes, ClosingInv, HasOld, Active, Installed, AfterDrain, ScanEnter, pubVars, closeVars
  <1>11. ASSUME NEW m \in Mappings, GraceOver(m) PROVE ClosingInv'
    BY <1>11 DEF TypeOK, MapTypes, PublisherTypes, DrainTypes, CloserTypes, ClosingInv, HasOld, Active, Installed, GraceOver, pubVars, closeVars
  <1>12. ASSUME NEW m \in Mappings, Unmap(m) PROVE ClosingInv'
    BY <1>12 DEF TypeOK, MapTypes, PublisherTypes, DrainTypes, CloserTypes, ClosingInv, HasOld, Active, Installed, Unmap, pubVars, closeVars
  <1>13. ASSUME NEW m \in Mappings, Release(m) PROVE ClosingInv'
    BY <1>13 DEF TypeOK, MapTypes, PublisherTypes, DrainTypes, CloserTypes, ClosingInv, HasOld, Active, Installed, Woken, Release, closeVars
  <1>14. ASSUME NEW m \in Mappings, WGDone(m) PROVE ClosingInv'
    BY <1>14 DEF TypeOK, MapTypes, PublisherTypes, DrainTypes, CloserTypes, ClosingInv, HasOld, Active, Installed, WGDone, pubVars
  <1>15. ASSUME NEW c \in Closers, CloseMark(c) PROVE ClosingInv'
    BY <1>15 DEF TypeOK, MapTypes, PublisherTypes, DrainTypes, CloserTypes, ClosingInv, HasOld, Active, Installed, CloserRefs, CloseMark, pubVars, drainVars
  <1>16. ASSUME NEW c \in Closers, CloseSwap(c) PROVE ClosingInv'
    BY <1>16 DEF TypeOK, MapTypes, PublisherTypes, DrainTypes, CloserTypes, ClosingInv, HasOld, Active, Installed, LifeInv, OldRefs, Undrained, CloserRefs, Woken, CurAfterClose, CloseSwap, drainVars
  <1>17. ASSUME NEW c \in Closers, CloseRetire(c) PROVE ClosingInv'
    BY <1>17 DEF TypeOK, MapTypes, PublisherTypes, DrainTypes, CloserTypes, ClosingInv, HasOld, Active, Installed, CloserRefs, Undrained, CloseRetire, pubVars
  <1>18. ASSUME NEW c \in Closers, CloseUnmapped(c) PROVE ClosingInv'
    BY <1>18 DEF TypeOK, MapTypes, PublisherTypes, DrainTypes, CloserTypes, ClosingInv, HasOld, Active, Installed, CloserRefs, CloseUnmapped, pubVars, drainVars
  <1>19. ASSUME NEW c \in Closers, WGWait(c) PROVE ClosingInv'
    BY <1>19 DEF TypeOK, MapTypes, PublisherTypes, DrainTypes, CloserTypes, ClosingInv, HasOld, Active, Installed, CloserRefs, WGWait, pubVars, drainVars
  <1>20. ASSUME NEW c \in Closers, WGReturn(c) PROVE ClosingInv'
    BY <1>20 DEF TypeOK, MapTypes, PublisherTypes, DrainTypes, CloserTypes, ClosingInv, HasOld, Active, Installed, CloserRefs, WGReturn, pubVars, drainVars
  <1>21. ASSUME NEW c \in Closers, CloseAgain(c) PROVE ClosingInv'
    BY <1>21 DEF TypeOK, MapTypes, PublisherTypes, DrainTypes, CloserTypes, ClosingInv, HasOld, Active, Installed, CloserRefs, CloseAgain, pubVars, drainVars
  <1>22. CASE UNCHANGED vars
    BY <1>22 DEF vars, pubVars, drainVars, closeVars, ClosingInv, HasOld, Installed, Active
  <1> QED
    BY <1>1, <1>2, <1>3, <1>4, <1>5, <1>6, <1>7, <1>8, <1>9, <1>10, <1>11, <1>12, <1>13, <1>14, <1>15, <1>16, <1>17, <1>18, <1>19, <1>20, <1>21, <1>22
       DEF Next, Reader, Publisher, Drainer, Closer, Finished

\* A mapping that was swapped out always has someone to drain it, and a drained one is never
\* mapped again (publish, retire).
LEMMA OwnedStep == IInv /\ CInv /\ [Next]_vars => OwnedInv'
  <1> SUFFICES ASSUME IInv, CInv, [Next]_vars PROVE OwnedInv'
    OBVIOUS
  <1> TypeOK /\ NewRefs /\ OldRefs /\ CloserRefs /\ LifeInv /\ ClosingInv /\ OwnedInv
    BY DEF IInv, CInv
  <1>1. ASSUME NEW r \in Readers, Reader(r) PROVE OwnedInv'
    <2>1. UNCHANGED <<version, cur, dpc, ppc, pold, closeOld, cpc, mapped>>
      BY <1>1 DEF Reader, Call, Load, NoMapErr, Enter, Check, BackOff, Exit, closeVars, drainVars, pubVars
    <2> QED
      BY <2>1 DEF OwnedInv, HasOld, Installed
  <1>2. ASSUME NEW p \in Publishers, OpenMapping(p) PROVE OwnedInv'
    BY <1>2 DEF TypeOK, MapTypes, PublisherTypes, DrainTypes, CloserTypes, OwnedInv, HasOld, Installed, LifeInv, OpenMapping, drainVars, closeVars
  <1>3. ASSUME NEW p \in Publishers, PublishWait(p) PROVE OwnedInv'
    BY <1>3 DEF TypeOK, MapTypes, PublisherTypes, DrainTypes, CloserTypes, OwnedInv, HasOld, Installed, PublishWait, drainVars, closeVars
  <1>4. ASSUME NEW p \in Publishers, PublishClosed(p) PROVE OwnedInv'
    BY <1>4 DEF TypeOK, MapTypes, PublisherTypes, DrainTypes, CloserTypes, OwnedInv, HasOld, Installed, PublishClosed, drainVars, closeVars
  <1>5. ASSUME NEW p \in Publishers, Discard(p) PROVE OwnedInv'
    BY <1>5 DEF TypeOK, MapTypes, PublisherTypes, DrainTypes, CloserTypes, OwnedInv, HasOld, Installed, Discard, drainVars, closeVars
  <1>6. ASSUME NEW p \in Publishers, PublishSwap(p) PROVE OwnedInv'
    <2>1. UNCHANGED <<dpc, mapped>>
      BY <1>6 DEF PublishSwap, drainVars
    <2>2. ASSUME NEW m \in Mappings, Installed(m)', m # cur', dpc'[m] = "none"
          PROVE  \E q \in Publishers : HasOld(q)' /\ pold'[q] = m
      <3>1. Installed(m)
        BY <1>6, <2>2, SwapInstalls DEF PublishSwap
      <3>2. closeOld = NoMap
        BY <1>6 DEF PublishSwap, Refused, ClosingInv
      <3>3. CASE m = cur
        BY <1>6, <3>3 DEF PublishSwap, TypeOK, MapTypes, PublisherTypes, HasOld
      <3>4. CASE m # cur
        <4>1. PICK q \in Publishers : HasOld(q) /\ pold[q] = m
          BY <2>1, <2>2, <3>1, <3>2, <3>4 DEF OwnedInv
        <4>2. q # p
          BY <1>6, <4>1 DEF PublishSwap, HasOld
        <4> QED
          BY <1>6, <4>1, <4>2 DEF PublishSwap, TypeOK, PublisherTypes, HasOld
      <3> QED
        BY <3>3, <3>4
    <2> QED
      BY <2>1, <2>2 DEF OwnedInv
  <1>7. ASSUME NEW p \in Publishers, MarkRetired(p) PROVE OwnedInv'
    <2>1. UNCHANGED <<version, cur, dpc, pold, closeOld, cpc, mapped>>
      BY <1>7 DEF MarkRetired, drainVars, closeVars
    <2>2. \A q \in Publishers : HasOld(q) => HasOld(q)'
      BY <1>7 DEF MarkRetired, HasOld, TypeOK, PublisherTypes
    <2> QED
      BY <2>1, <2>2 DEF OwnedInv, Installed
  <1>8. ASSUME NEW p \in Publishers, SpawnRetire(p) PROVE OwnedInv'
    <2>1. UNCHANGED <<version, cur, closeOld, cpc, mapped>>
      BY <1>8 DEF SpawnRetire, closeVars
    <2>2. dpc' = [dpc EXCEPT ![pold[p]] = "exits"] /\ pold[p] \in Mappings
      BY <1>8 DEF SpawnRetire, OldRefs, HasOld, Undrained
    <2>3. \A q \in Publishers : q # p => ppc'[q] = ppc[q] /\ pold'[q] = pold[q]
      BY <1>8 DEF SpawnRetire, TypeOK, PublisherTypes
    <2>4. \A m \in Mappings : m # pold[p] => dpc'[m] = dpc[m]
      BY <2>2 DEF TypeOK, DrainTypes
    <2>5. dpc'[pold[p]] = "exits"
      BY <2>2 DEF TypeOK, DrainTypes
    <2> QED
      BY <2>1, <2>3, <2>4, <2>5 DEF OwnedInv, HasOld, Installed
  <1>9. ASSUME NEW m \in Mappings, ScanExit(m) PROVE OwnedInv'
    <2>1. \A x \in Mappings : \/ dpc'[x] = dpc[x]
                              \/ dpc[x] # "none" /\ dpc'[x] \in {"exits", "enters", "grace", "unmap"}
      BY <1>9 DEF TypeOK, DrainTypes, ScanExit
    <2>2. UNCHANGED <<version, cur, ppc, pold, closeOld, cpc, mapped>>
      BY <1>9 DEF ScanExit, pubVars, closeVars
    <2> QED
      BY <2>1, <2>2 DEF OwnedInv, HasOld, Installed
  <1>10. ASSUME NEW m \in Mappings, ScanEnter(m) PROVE OwnedInv'
    <2>1. \A x \in Mappings : \/ dpc'[x] = dpc[x]
                              \/ dpc[x] # "none" /\ dpc'[x] \in {"exits", "enters", "grace", "unmap"}
      BY <1>10 DEF TypeOK, DrainTypes, ScanEnter, AfterDrain
    <2>2. UNCHANGED <<version, cur, ppc, pold, closeOld, cpc, mapped>>
      BY <1>10 DEF ScanEnter, pubVars, closeVars
    <2> QED
      BY <2>1, <2>2 DEF OwnedInv, HasOld, Installed
  <1>11. ASSUME NEW m \in Mappings, GraceOver(m) PROVE OwnedInv'
    <2>1. \A x \in Mappings : \/ dpc'[x] = dpc[x]
                              \/ dpc[x] = "grace" /\ dpc'[x] = "unmap"
      BY <1>11 DEF TypeOK, DrainTypes, GraceOver
    <2>2. UNCHANGED <<version, cur, ppc, pold, closeOld, cpc, mapped>>
      BY <1>11 DEF GraceOver, pubVars, closeVars
    <2> QED
      BY <2>1, <2>2 DEF OwnedInv, HasOld, Installed
  <1>12. ASSUME NEW m \in Mappings, Unmap(m) PROVE OwnedInv'
    <2>1. \A x \in Mappings : \/ x # m /\ dpc'[x] = dpc[x]
                              \/ x = m /\ dpc'[x] \in {"release", "end"}
      BY <1>12 DEF TypeOK, DrainTypes, Unmap
    <2>2. UNCHANGED <<version, cur, ppc, pold, closeOld, cpc>> /\ mapped' = mapped \ {m}
      BY <1>12 DEF Unmap, pubVars, closeVars
    <2> QED
      BY <2>1, <2>2 DEF OwnedInv, HasOld, Installed
  <1>13. ASSUME NEW m \in Mappings, Release(m) PROVE OwnedInv'
    <2>1. \A x \in Mappings : \/ dpc'[x] = dpc[x]
                              \/ dpc[x] = "release" /\ dpc'[x] = "wgdone"
      BY <1>13 DEF TypeOK, DrainTypes, Release
    <2>2. UNCHANGED <<version, cur, pold, closeOld, cpc, mapped>>
      BY <1>13 DEF Release, closeVars
    <2>3. \A q \in Publishers : HasOld(q) => ppc'[q] \in {"mark", "spawn"}
      BY <1>13 DEF TypeOK, PublisherTypes, Release, Woken, HasOld
    <2> QED
      BY <2>1, <2>2, <2>3 DEF OwnedInv, HasOld, Installed
  <1>14. ASSUME NEW m \in Mappings, WGDone(m) PROVE OwnedInv'
    <2>1. \A x \in Mappings : \/ dpc'[x] = dpc[x]
                              \/ dpc[x] = "wgdone" /\ dpc'[x] = "end"
      BY <1>14 DEF TypeOK, DrainTypes, WGDone
    <2>2. UNCHANGED <<version, cur, ppc, pold, closeOld, mapped>>
      BY <1>14 DEF WGDone, pubVars
    <2>3. \A c \in Closers : cpc[c] = "mark" => cpc'[c] = "mark"
      BY <1>14 DEF TypeOK, CloserTypes, WGDone
    <2> QED
      BY <2>1, <2>2, <2>3 DEF OwnedInv, HasOld, Installed
  <1>15. ASSUME NEW c \in Closers, CloseMark(c) PROVE OwnedInv'
    BY <1>15 DEF TypeOK, MapTypes, PublisherTypes, DrainTypes, CloserTypes, OwnedInv, HasOld, Installed, CloseMark, pubVars, drainVars
  <1>16. ASSUME NEW c \in Closers, CloseSwap(c) PROVE OwnedInv'
    <2>1. UNCHANGED <<version, dpc, pold, mapped>> /\ cur' = NoMap /\ closeOld' = cur
      BY <1>16 DEF CloseSwap, CurAfterClose, drainVars
    <2>2. closeOld = NoMap
      BY <1>16 DEF ClosingInv, CloseSwap
    <2>3. \A q \in Publishers : HasOld(q)' <=> HasOld(q)
      BY <1>16 DEF CloseSwap, Woken, HasOld, TypeOK, PublisherTypes
    <2>4. cur # NoMap => cpc'[c] = "mark"
      BY <1>16 DEF CloseSwap, TypeOK, CloserTypes
    <2>5. \A m \in Mappings : m # NoMap
      OBVIOUS
    <2> QED
      BY <2>1, <2>2, <2>3, <2>4, <2>5 DEF OwnedInv, Installed
  <1>17. ASSUME NEW c \in Closers, CloseRetire(c) PROVE OwnedInv'
    <2>1. /\ UNCHANGED <<version, cur, ppc, pold, closeOld, mapped>> /\ cpc[c] = "mark"
          /\ dpc' = [dpc EXCEPT ![closeOld] = "exits"]
      BY <1>17 DEF CloseRetire, pubVars
    <2>2. \A x \in Mappings : \/ x # closeOld /\ dpc'[x] = dpc[x]
                              \/ x = closeOld /\ dpc'[x] = "exits"
      BY <2>1 DEF TypeOK, DrainTypes
    <2> QED
      BY <2>1, <2>2 DEF OwnedInv, HasOld, Installed
  <1>18. ASSUME NEW c \in Closers, CloseUnmapped(c) PROVE OwnedInv'
    BY <1>18 DEF TypeOK, MapTypes, PublisherTypes, DrainTypes, CloserTypes, OwnedInv, HasOld, Installed, CloseUnmapped, pubVars, drainVars
  <1>19. ASSUME NEW c \in Closers, WGWait(c) PROVE OwnedInv'
    BY <1>19 DEF TypeOK, MapTypes, PublisherTypes, DrainTypes, CloserTypes, OwnedInv, HasOld, Installed, WGWait, pubVars, drainVars
  <1>20. ASSUME NEW c \in Closers, WGReturn(c) PROVE OwnedInv'
    BY <1>20 DEF TypeOK, MapTypes, PublisherTypes, DrainTypes, CloserTypes, OwnedInv, HasOld, Installed, WGReturn, pubVars, drainVars
  <1>21. ASSUME NEW c \in Closers, CloseAgain(c) PROVE OwnedInv'
    BY <1>21 DEF TypeOK, MapTypes, PublisherTypes, DrainTypes, CloserTypes, OwnedInv, HasOld, Installed, CloseAgain, pubVars, drainVars
  <1>22. CASE UNCHANGED vars
    BY <1>22 DEF vars, pubVars, drainVars, closeVars, OwnedInv, HasOld, Installed
  <1> QED
    BY <1>1, <1>2, <1>3, <1>4, <1>5, <1>6, <1>7, <1>8, <1>9, <1>10, <1>11, <1>12, <1>13, <1>14, <1>15, <1>16, <1>17, <1>18, <1>19, <1>20, <1>21, <1>22
       DEF Next, Reader, Publisher, Drainer, Closer, Finished

\* With no publish running when Close was called, retireWG only goes down after it.
LEMMA QuietStep == IInv /\ CInv /\ [Next]_vars => QuietInv'
  <1> SUFFICES ASSUME IInv, CInv, [Next]_vars PROVE QuietInv'
    OBVIOUS
  <1> TypeOK /\ CloserRefs /\ ClosingInv /\ QuietInv /\ wg = Cardinality(Retiring)
    BY DEF IInv, CInv, SlotInv
  <1>1. ASSUME NEW r \in Readers, Reader(r) PROVE QuietInv'
    <2>1. UNCHANGED <<closed, ppc, once, cpc, wg>>
      BY <1>1 DEF Reader, Call, Load, NoMapErr, Enter, Check, BackOff, Exit, closeVars, pubVars
    <2> QED
      BY <2>1 DEF QuietInv, HasOld
  <1>2. ASSUME NEW p \in Publishers, OpenMapping(p) PROVE QuietInv'
    BY <1>2 DEF TypeOK, MapTypes, PublisherTypes, CloserTypes, QuietInv, HasOld, OpenMapping, closeVars
  <1>3. ASSUME NEW p \in Publishers, PublishWait(p) PROVE QuietInv'
    BY <1>3 DEF TypeOK, MapTypes, PublisherTypes, CloserTypes, QuietInv, HasOld, PublishWait, closeVars
  <1>4. ASSUME NEW p \in Publishers, PublishClosed(p) PROVE QuietInv'
    BY <1>4 DEF TypeOK, MapTypes, PublisherTypes, CloserTypes, QuietInv, HasOld, PublishClosed, closeVars
  <1>5. ASSUME NEW p \in Publishers, Discard(p) PROVE QuietInv'
    BY <1>5 DEF TypeOK, MapTypes, PublisherTypes, CloserTypes, QuietInv, HasOld, Discard, closeVars
  <1>6. ASSUME NEW p \in Publishers, PublishSwap(p) PROVE QuietInv'
    BY <1>6 DEF TypeOK, MapTypes, PublisherTypes, CloserTypes, QuietInv, HasOld, Refused, ClosingInv, PublishSwap, closeVars
  <1>7. ASSUME NEW p \in Publishers, MarkRetired(p) PROVE QuietInv'
    BY <1>7 DEF TypeOK, MapTypes, PublisherTypes, CloserTypes, QuietInv, HasOld, MarkRetired, closeVars
  <1>8. ASSUME NEW p \in Publishers, SpawnRetire(p) PROVE QuietInv'
    BY <1>8 DEF TypeOK, MapTypes, PublisherTypes, CloserTypes, QuietInv, HasOld, ClosingInv, Active, SpawnRetire, closeVars
  <1>9. ASSUME NEW m \in Mappings, Release(m) PROVE QuietInv'
    BY <1>9 DEF TypeOK, MapTypes, PublisherTypes, CloserTypes, QuietInv, HasOld, Woken, Release, closeVars
  <1>10. ASSUME NEW m \in Mappings, WGDone(m) PROVE QuietInv'
    <2>1. wg > 0 /\ wg \in Nat /\ wg' = wg - 1 /\ UNCHANGED <<closed, once, ppc>>
      BY <1>10, WGDoneZero DEF WGDone, closeVars, pubVars
    <2>2. QuietClose => once # "done" /\ \A c \in Closers : cpc[c] # "ready"
      BY <2>1 DEF QuietInv
    <2>3. \A c \in Closers : cpc'[c] = "ready" => cpc[c] = "ready" \/ wg = 1
      BY <1>10 DEF WGDone, TypeOK, CloserTypes
    <2> QED
      BY <2>1, <2>2, <2>3 DEF QuietInv, HasOld
  <1>11. ASSUME NEW m \in Mappings, ScanExit(m) \/ ScanEnter(m) \/ GraceOver(m) \/ Unmap(m) PROVE QuietInv'
    <2>1. UNCHANGED <<closed, ppc, once, cpc, wg>>
      BY <1>11 DEF ScanExit, ScanEnter, GraceOver, Unmap, closeVars, pubVars
    <2> QED
      BY <2>1 DEF QuietInv, HasOld
  <1>12. ASSUME NEW c \in Closers, CloseMark(c) PROVE QuietInv'
    BY <1>12 DEF TypeOK, MapTypes, PublisherTypes, CloserTypes, QuietInv, HasOld, ClosingInv, CloserRefs, Active, CloseMark, pubVars
  <1>13. ASSUME NEW c \in Closers, CloseSwap(c) PROVE QuietInv'
    BY <1>13 DEF TypeOK, MapTypes, PublisherTypes, CloserTypes, QuietInv, HasOld, Woken, CloseSwap
  <1>14. ASSUME NEW c \in Closers, CloseRetire(c) PROVE QuietInv'
    BY <1>14 DEF TypeOK, MapTypes, PublisherTypes, CloserTypes, QuietInv, HasOld, CloseRetire, pubVars
  <1>15. ASSUME NEW c \in Closers, CloseUnmapped(c) PROVE QuietInv'
    BY <1>15 DEF TypeOK, MapTypes, PublisherTypes, CloserTypes, QuietInv, HasOld, CloseUnmapped, pubVars
  <1>16. ASSUME NEW c \in Closers, WGWait(c) PROVE QuietInv'
    BY <1>16 DEF TypeOK, MapTypes, PublisherTypes, CloserTypes, QuietInv, HasOld, WGZero, CloserRefs, Active, WGWait, pubVars
  <1>17. ASSUME NEW c \in Closers, WGReturn(c) PROVE QuietInv'
    BY <1>17 DEF TypeOK, MapTypes, PublisherTypes, CloserTypes, QuietInv, HasOld, WGZero, CloserRefs, Active, WGReturn, pubVars
  <1>18. ASSUME NEW c \in Closers, CloseAgain(c) PROVE QuietInv'
    BY <1>18 DEF TypeOK, MapTypes, PublisherTypes, CloserTypes, QuietInv, HasOld, CloseAgain, pubVars
  <1>19. CASE UNCHANGED vars
    BY <1>19 DEF vars, pubVars, closeVars, QuietInv, HasOld
  <1> QED
    BY <1>1, <1>2, <1>3, <1>4, <1>5, <1>6, <1>7, <1>8, <1>9, <1>10, <1>11, <1>12, <1>13, <1>14, <1>15, <1>16, <1>17, <1>18, <1>19
       DEF Next, Reader, Publisher, Drainer, Closer, Finished

\* Map.pending counts the mappings that hold a slot, retireWG the retire goroutines.
LEMMA SlotStep == IInv /\ CInv /\ [Next]_vars => SlotInv'
  <1> SUFFICES ASSUME IInv, CInv, [Next]_vars PROVE SlotInv'
    OBVIOUS
  <1> TypeOK /\ NewRefs /\ OldRefs /\ CloserRefs /\ LifeInv /\ ClosingInv /\ SlotInv
    BY DEF IInv, CInv
  <1> DEFINE Same(S, T) == \A m \in Mappings : m \in S <=> m \in T
  <1>a. ASSUME UNCHANGED <<pending, wg>>, Same(Slots', Slots), Same(Retiring', Retiring)
        PROVE  SlotInv'
    <2>1. Slots' = Slots /\ Retiring' = Retiring
      BY <1>a DEF Slots, Retiring
    <2> QED
      BY <1>a, <2>1 DEF SlotInv
  <1>1. ASSUME NEW r \in Readers, Reader(r) PROVE SlotInv'
    <2>1. UNCHANGED <<pending, wg, cur, closeOld, version, dpc>>
      BY <1>1 DEF Reader, Call, Load, NoMapErr, Enter, Check, BackOff, Exit, closeVars, drainVars
    <2> QED
      BY <2>1 DEF SlotInv, Slots, Retiring, Installed
  <1>2. ASSUME NEW p \in Publishers, PublishSwap(p) PROVE SlotInv'
    <2>1. ~closed /\ closeOld = NoMap /\ pending < MaxRetired
      BY <1>2 DEF ClosingInv, PublishSwap, Refused, Blocked, TypeOK, MapTypes
    <2>2. UNCHANGED <<dpc, closeOld, wg>> /\ cur' = pnew[p]
      BY <1>2 DEF PublishSwap, drainVars, closeVars
    <2>3. Retiring' = Retiring
      BY <2>2 DEF Retiring
    <2>4. CASE cur = NoMap
      <3>1. pending' = pending
        BY <1>2, <2>4 DEF PublishSwap
      <3>2. Same(Slots', Slots)
        BY <1>2, <2>1, <2>2, <2>4, SwapInstalls DEF Slots
      <3> QED
        BY <2>2, <2>3, <3>1, <3>2, <1>a
    <2>5. CASE cur # NoMap
      <3>1. pending' = pending + 1
        BY <1>2, <2>5 DEF PublishSwap
      <3>2. cur \in Mappings /\ cur \notin Slots /\ cur # pnew[p]
        BY <1>2, <2>5, SwapInstalls DEF Slots, LifeInv, TypeOK, MapTypes
      <3>3. \A m \in Mappings : m \in Slots' <=> m \in Slots \/ m = cur
        BY <2>1, <2>2, <2>5, <3>2, <1>2, SwapInstalls DEF Slots, LifeInv
      <3>4. Slots' = Slots \cup {cur}
        BY <3>2, <3>3 DEF Slots
      <3>5. Cardinality(Slots') = Cardinality(Slots) + 1
        BY <3>2, <3>4, SlotsFinite, FS_AddElement
      <3> QED
        BY <2>1, <2>2, <2>3, <3>1, <3>5, SlotsFinite DEF SlotInv
    <2> QED
      BY <2>4, <2>5
  <1>3. ASSUME NEW p \in Publishers, SpawnRetire(p) PROVE SlotInv'
    <2> DEFINE m == pold[p]
    <2>1. m \in Mappings /\ dpc[m] = "none" /\ m # closeOld
      BY <1>3 DEF SpawnRetire, OldRefs, HasOld, Undrained, ClosingInv
    <2>2. UNCHANGED <<pending, cur, closeOld, version>> /\ wg' = wg + 1
      BY <1>3 DEF SpawnRetire, closeVars
    <2>3. \A x \in Mappings : IF x = m THEN dpc'[x] = "exits" ELSE dpc'[x] = dpc[x]
      BY <1>3 DEF SpawnRetire, TypeOK, DrainTypes
    <2> HIDE DEF m
    <2>4. Slots' = Slots
      BY <2>1, <2>2, <2>3 DEF Slots, Installed
    <2>5. Retiring' = Retiring \cup {m} /\ m \notin Retiring
      BY <2>1, <2>2, <2>3 DEF Retiring
    <2>6. Cardinality(Retiring') = Cardinality(Retiring) + 1
      BY <2>5, RetiringFinite, FS_AddElement
    <2> QED
      BY <2>2, <2>4, <2>6 DEF SlotInv
  <1>4. ASSUME NEW p \in Publishers, OpenMapping(p) \/ PublishWait(p) \/ PublishClosed(p) \/ Discard(p) \/ MarkRetired(p) PROVE SlotInv'
    <2>1. UNCHANGED <<pending, wg, cur, closeOld, version, dpc>>
      BY <1>4 DEF OpenMapping, PublishWait, PublishClosed, Discard, MarkRetired, closeVars, drainVars
    <2> QED
      BY <2>1 DEF SlotInv, Slots, Retiring, Installed
  <1>5. ASSUME NEW m \in Mappings, ScanExit(m) PROVE SlotInv'
    <2>1. \A x \in Mappings : \/ dpc'[x] = dpc[x]
                              \/ /\ dpc[x] \in {"exits", "enters", "grace"}
                                 /\ dpc'[x] \in {"exits", "enters", "grace", "unmap"}
      BY <1>5 DEF TypeOK, DrainTypes, ScanExit
    <2>2. UNCHANGED <<pending, wg, cur, closeOld, version>>
      BY <1>5 DEF ScanExit, closeVars
    <2> QED
      BY <2>1, <2>2, <1>a DEF Slots, Retiring, Installed
  <1>6. ASSUME NEW m \in Mappings, ScanEnter(m) PROVE SlotInv'
    <2>1. \A x \in Mappings : \/ dpc'[x] = dpc[x]
                              \/ /\ dpc[x] \in {"exits", "enters", "grace"}
                                 /\ dpc'[x] \in {"exits", "enters", "grace", "unmap"}
      BY <1>6 DEF TypeOK, DrainTypes, ScanEnter, AfterDrain
    <2>2. UNCHANGED <<pending, wg, cur, closeOld, version>>
      BY <1>6 DEF ScanEnter, closeVars
    <2> QED
      BY <2>1, <2>2, <1>a DEF Slots, Retiring, Installed
  <1>7. ASSUME NEW m \in Mappings, GraceOver(m) PROVE SlotInv'
    <2>1. \A x \in Mappings : \/ dpc'[x] = dpc[x]
                              \/ /\ dpc[x] \in {"exits", "enters", "grace"}
                                 /\ dpc'[x] \in {"exits", "enters", "grace", "unmap"}
      BY <1>7 DEF TypeOK, DrainTypes, GraceOver
    <2>2. UNCHANGED <<pending, wg, cur, closeOld, version>>
      BY <1>7 DEF GraceOver, closeVars
    <2> QED
      BY <2>1, <2>2, <1>a DEF Slots, Retiring, Installed
  <1>8. ASSUME NEW m \in Mappings, Unmap(m) PROVE SlotInv'
    <2>1. \A x \in Mappings : \/ dpc'[x] = dpc[x]
                              \/ x = closeOld
                              \/ dpc[x] = "unmap" /\ dpc'[x] = "release"
      BY <1>8 DEF TypeOK, DrainTypes, Unmap
    <2>2. UNCHANGED <<pending, wg, cur, closeOld, version>>
      BY <1>8 DEF Unmap, closeVars
    <2> QED
      BY <2>1, <2>2, <1>a DEF Slots, Retiring, Installed
  <1>9. ASSUME NEW m \in Mappings, Release(m) PROVE SlotInv'
    <2>1. Installed(m) /\ m # cur /\ m # closeOld /\ dpc[m] = "release"
      BY <1>9 DEF Release, LifeInv, ClosingInv
    <2>2. UNCHANGED <<wg, cur, closeOld, version>> /\ pending' = pending - 1
      BY <1>9 DEF Release, closeVars
    <2>3. \A x \in Mappings : IF x = m THEN dpc'[x] = "wgdone" ELSE dpc'[x] = dpc[x]
      BY <1>9 DEF Release, TypeOK, DrainTypes
    <2>4. Retiring' = Retiring
      BY <2>1, <2>2, <2>3 DEF Retiring
    <2>5. Slots' = Slots \ {m} /\ m \in Slots
      BY <2>1, <2>2, <2>3 DEF Slots, Installed
    <2>6. Cardinality(Slots') = Cardinality(Slots) - 1
      BY <2>5, SlotsFinite, FS_RemoveElement
    <2> QED
      BY <2>2, <2>4, <2>6, SlotsFinite DEF SlotInv
  <1>10. ASSUME NEW m \in Mappings, WGDone(m) PROVE SlotInv'
    <2>1. m # cur /\ m # closeOld /\ dpc[m] = "wgdone"
      BY <1>10 DEF WGDone, LifeInv, ClosingInv
    <2>2. UNCHANGED <<pending, cur, closeOld, version>> /\ wg' = wg - 1
      BY <1>10 DEF WGDone
    <2>3. \A x \in Mappings : IF x = m THEN dpc'[x] = "end" ELSE dpc'[x] = dpc[x]
      BY <1>10 DEF WGDone, TypeOK, DrainTypes
    <2>4. Slots' = Slots
      BY <2>1, <2>2, <2>3 DEF Slots, Installed
    <2>5. Retiring' = Retiring \ {m} /\ m \in Retiring
      BY <2>1, <2>2, <2>3 DEF Retiring
    <2>6. Cardinality(Retiring') = Cardinality(Retiring) - 1
      BY <2>5, RetiringFinite, FS_RemoveElement
    <2> QED
      BY <2>2, <2>4, <2>6 DEF SlotInv
  <1>11. ASSUME NEW c \in Closers, CloseSwap(c) PROVE SlotInv'
    <2>1. closeOld = NoMap /\ closeOld' = cur /\ cur' = NoMap
      BY <1>11 DEF ClosingInv, CloseSwap, CurAfterClose
    <2>2. UNCHANGED <<pending, wg, version, dpc>>
      BY <1>11 DEF CloseSwap, drainVars
    <2>3. \A m \in Mappings : m # NoMap /\ (m = cur => dpc[m] = "none")
      BY DEF LifeInv
    <2> QED
      BY <2>1, <2>2, <2>3, <1>a DEF Slots, Retiring, Installed
  <1>12. ASSUME NEW c \in Closers, CloseRetire(c) PROVE SlotInv'
    <2>1. \A x \in Mappings : dpc'[x] = dpc[x] \/ x = closeOld
      BY <1>12 DEF TypeOK, DrainTypes, CloseRetire
    <2>2. UNCHANGED <<pending, wg, cur, closeOld, version>>
      BY <1>12 DEF CloseRetire
    <2> QED
      BY <2>1, <2>2, <1>a DEF Slots, Retiring, Installed
  <1>13. ASSUME NEW c \in Closers, CloseMark(c) \/ CloseUnmapped(c) \/ WGWait(c) \/ WGReturn(c) \/ CloseAgain(c) PROVE SlotInv'
    <2>1. UNCHANGED <<pending, wg, cur, closeOld, version, dpc>>
      BY <1>13 DEF CloseMark, CloseUnmapped, WGWait, WGReturn, CloseAgain, drainVars
    <2> QED
      BY <2>1 DEF SlotInv, Slots, Retiring, Installed
  <1>14. CASE UNCHANGED vars
    BY <1>14 DEF vars, drainVars, closeVars, SlotInv, Slots, Retiring, Installed
  <1> QED
    BY <1>1, <1>2, <1>3, <1>4, <1>5, <1>6, <1>7, <1>8, <1>9, <1>10, <1>11, <1>12, <1>13, <1>14
       DEF Next, Reader, Publisher, Drainer, Closer, Finished

\* A new Map has nothing to retire.
LEMMA InitCInv == Init => CInv
  <1> SUFFICES ASSUME Init PROVE CInv
    OBVIOUS
  <1>1. Slots = {} /\ Retiring = {}
    BY DEF Init, Slots, Retiring, Installed
  <1>2. Cardinality(Slots) = 0 /\ Cardinality(Retiring) = 0
    BY <1>1, FS_EmptySet, Zenon
  <1>3. SlotInv
    <2>1. pending = 0 /\ wg = 0
      BY DEF Init
    <2> QED
      BY <1>2, <2>1 DEF SlotInv
  <1>4. ClosingInv /\ QuietInv
    BY DEF Init, ClosingInv, QuietInv, HasOld, Active
  <1>5. OwnedInv
    BY DEF Init, OwnedInv, Installed
  <1> QED
    BY <1>3, <1>4, <1>5 DEF CInv

\* What counts the retired mappings, and what Close may rely on, in every reachable state.
THEOREM ClosingInvariance == Spec => []CInv
  <1>1. IInv /\ CInv /\ [Next]_vars => CInv'
    BY SlotStep, ClosingStep, OwnedStep, QuietStep DEF CInv
  <1> QED
    BY InitCInv, Invariance, <1>1, PTL DEF Spec

\* Beside the current mapping at most maxRetired replaced ones are mapped, for any number
\* of publishers, and also while Close drains the last mapping itself (publish, retire).
THEOREM FewMapped == Spec => []MappedBound
  <1>1. IInv /\ CInv => MappedBound
    <2> SUFFICES ASSUME IInv, CInv PROVE MappedBound
      OBVIOUS
    <2> DEFINE M == {m \in mapped : Installed(m)}
               last == IF cur # NoMap THEN cur ELSE closeOld
    <2>1. M \subseteq Slots \cup {last}
      BY DEF IInv, CInv, TypeOK, MapTypes, OwnedInv, ClosingInv, Slots
    <2> HIDE DEF M, last
    <2>2. /\ IsFiniteSet(Slots \cup {last})
          /\ Cardinality(Slots \cup {last}) <= Cardinality(Slots) + 1
      <3> HIDE DEF Slots
      <3>1. IsFiniteSet(Slots)
        BY SlotsFinite
      <3>2. Cardinality(Slots) \in Nat
        BY <3>1, FS_CardinalityType
      <3>3. CASE last \in Slots
        <4>1. Slots \cup {last} = Slots
          BY <3>3
        <4> QED
          BY <3>1, <3>2, <4>1
      <3>4. CASE last \notin Slots
        <4>1. /\ IsFiniteSet(Slots \cup {last})
              /\ Cardinality(Slots \cup {last}) = Cardinality(Slots) + 1
          BY <3>1, <3>4, FS_AddElement
        <4> QED
          BY <3>2, <4>1
      <3> QED
        BY <3>3, <3>4
    <2>3. IsFiniteSet(M) /\ Cardinality(M) <= Cardinality(Slots \cup {last})
      BY <2>1, <2>2, FS_Subset
    <2>4. Cardinality(M) \in Nat /\ Cardinality(Slots \cup {last}) \in Nat
      BY <2>2, <2>3, FS_CardinalityType
    <2>5. Cardinality(M) <= MaxRetired + 1
      BY <2>2, <2>3, <2>4, SlotsFinite DEF CInv, SlotInv
    <2> QED
      BY <2>5 DEF MappedBound, M
  <1> QED
    BY Invariance, ClosingInvariance, <1>1, PTL

\* A Close that was called while no publish was running leaves no mapping that was ever
\* installed, however many retirements, grace periods and readers it found (Close, retire).
THEOREM CloseLeavesNone == ASSUME QuietClose PROVE Spec => []CloseUnmapsAll
  <1>1. IInv /\ CInv => CloseUnmapsAll
    <2> SUFFICES ASSUME IInv, CInv, once = "done", NEW m \in mapped, Installed(m) PROVE FALSE
      BY DEF CloseUnmapsAll
    <2>1. m \in Mappings /\ closed /\ wg = 0
      BY DEF IInv, TypeOK, MapTypes, CInv, ClosingInv, QuietInv
    <2>2. \A c \in Closers : cpc[c] \notin Active
      BY DEF CInv, ClosingInv
    <2>3. m # cur
      BY <2>1, <2>2 DEF CInv, ClosingInv, Active
    <2>4. dpc[m] # "none"
      BY <2>1, <2>2, <2>3 DEF CInv, OwnedInv, QuietInv, Active
    <2>5. dpc[m] # "end"
      BY <2>1 DEF CInv, OwnedInv
    <2>6. m # closeOld
      BY <2>1, <2>5 DEF CInv, ClosingInv
    <2>7. m \in Retiring
      BY <2>1, <2>4, <2>5, <2>6 DEF Retiring
    <2> QED
      BY <2>1, <2>7, RetiringFinite, FS_EmptySet DEF CInv, SlotInv
  <1> QED
    BY Invariance, ClosingInvariance, <1>1, PTL

----------------------------------------------------------------------------
\* An installation adds one to the count of installed mappings.
LEMMA SwapCounts ==
    ASSUME IInv, NEW p \in Publishers, PublishSwap(p)
    PROVE  Installs' = Installs + 1
  <1> DEFINE S == {m \in Mappings : Installed(m)}
  <1>1. S' = S \cup {pnew[p]} /\ pnew[p] \notin S
    BY SwapInstalls
  <1>2. IsFiniteSet(S)
    BY FS_Subset, FiniteAssumption
  <1>3. Cardinality(S') = Cardinality(S) + 1
    <2> HIDE DEF S
    <2> QED
      BY <1>1, <1>2, FS_AddElement
  <1> QED
    BY <1>3 DEF Installs

\* Versions are given in order, and a reader inside has one new enough for its call.
LEMMA VersionStep == IInv /\ CInv /\ VersionInv /\ [Next]_vars => VersionInv'
  <1> SUFFICES ASSUME IInv, CInv, VersionInv, [Next]_vars PROVE VersionInv'
    OBVIOUS
  <1> TypeOK /\ ReaderRefs /\ NewRefs /\ LifeInv /\ ClosingInv /\ VersionInv
    BY DEF IInv, CInv
  <1> Installs \in Nat
    BY InstallsNat
  <1>a. ASSUME UNCHANGED <<version, cur, closed>> PROVE Installs' = Installs /\ Floor' = Floor
    BY <1>a DEF Installs, Installed, Floor
  <1>1. ASSUME NEW r \in Readers, Call(r) PROVE VersionInv'
    <2>1. UNCHANGED <<version, cur, closed>>
      BY <1>1 DEF Call, closeVars
    <2>2. rpc' = [rpc EXCEPT ![r] = "load"] /\ rfloor' = [rfloor EXCEPT ![r] = Floor] /\ rmap' = rmap
      BY <1>1 DEF Call
    <2>3. rpc'[r] = "load" /\ rfloor'[r] = Floor
      BY <2>2 DEF TypeOK, ReaderTypes
    <2>4. \A q \in Readers : q # r => rpc'[q] = rpc[q] /\ rfloor'[q] = rfloor[q]
      BY <2>2 DEF TypeOK, ReaderTypes
    <2>5. Floor \in Nat
      BY DEF Floor
    <2> QED
      BY <2>1, <2>2, <2>3, <2>4, <2>5, <1>a DEF VersionInv, Installed
  <1>2. ASSUME NEW r \in Readers, Load(r) PROVE VersionInv'
    <2>1. UNCHANGED <<version, cur, closed, rfloor>>
      BY <1>2 DEF Load, closeVars
    <2>2. cur # NoMap => rfloor[r] <= version[cur]
      BY DEF VersionInv, Floor
    <2>3. cur = NoMap /\ ~closed => rfloor[r] = 0
      BY DEF VersionInv, Floor, TypeOK, ReaderTypes
    <2>4. rpc'[r] \in {"nomap", "enter"} /\ rmap'[r] = cur /\ (rpc'[r] = "nomap" <=> cur = NoMap)
      BY <1>2 DEF Load, TypeOK, ReaderTypes
    <2>5. \A q \in Readers : q # r => rpc'[q] = rpc[q] /\ rmap'[q] = rmap[q]
      BY <1>2 DEF Load, TypeOK, ReaderTypes
    <2> QED
      BY <2>1, <2>2, <2>3, <2>4, <2>5, <1>a DEF VersionInv, Installed
  <1>3. ASSUME NEW r \in Readers, NoMapErr(r) PROVE VersionInv'
    <2>1. UNCHANGED <<version, cur, closed>>
      BY <1>3 DEF NoMapErr, closeVars
    <2>2. rpc'[r] = "idle" /\ rfloor'[r] = 0
      BY <1>3 DEF NoMapErr, Returned, TypeOK, ReaderTypes
    <2>3. \A q \in Readers :
             q # r => rpc'[q] = rpc[q] /\ rmap'[q] = rmap[q] /\ rfloor'[q] = rfloor[q]
      BY <1>3 DEF NoMapErr, Returned, TypeOK, ReaderTypes
    <2>4. Floor \in Nat
      BY DEF Floor
    <2> QED
      BY <2>1, <2>2, <2>3, <2>4, <1>a DEF VersionInv, Installed
  <1>4. ASSUME NEW r \in Readers, Enter(r) PROVE VersionInv'
    <2>1. UNCHANGED <<version, cur, closed>>
      BY <1>4 DEF Enter, closeVars
    <2> QED
      BY <1>4, <2>1, <1>a DEF VersionInv, TypeOK, MapTypes, ReaderTypes, ReaderRefs, Installed, Enter
  <1>5. ASSUME NEW r \in Readers, Check(r) PROVE VersionInv'
    <2>1. UNCHANGED <<version, cur, closed>>
      BY <1>5 DEF Check, closeVars
    <2> QED
      BY <1>5, <2>1, <1>a DEF VersionInv, TypeOK, MapTypes, ReaderTypes, ReaderRefs, Installed, Check
  <1>6. ASSUME NEW r \in Readers, BackOff(r) PROVE VersionInv'
    <2>1. UNCHANGED <<version, cur, closed>>
      BY <1>6 DEF BackOff, closeVars
    <2> QED
      BY <1>6, <2>1, <1>a DEF VersionInv, TypeOK, MapTypes, ReaderTypes, ReaderRefs, Installed, BackOff
  <1>7. ASSUME NEW r \in Readers, Exit(r) PROVE VersionInv'
    <2>1. UNCHANGED <<version, cur, closed>>
      BY <1>7 DEF Exit, closeVars
    <2>2. rpc'[r] = "idle" /\ rfloor'[r] = 0
      BY <1>7 DEF Exit, Returned, TypeOK, ReaderTypes
    <2>3. \A q \in Readers :
             q # r => rpc'[q] = rpc[q] /\ rmap'[q] = rmap[q] /\ rfloor'[q] = rfloor[q]
      BY <1>7 DEF Exit, Returned, TypeOK, ReaderTypes
    <2>4. Floor \in Nat
      BY DEF Floor
    <2> QED
      BY <2>1, <2>2, <2>3, <2>4, <1>a DEF VersionInv, Installed
  <1>8. ASSUME NEW p \in Publishers, PublishSwap(p) PROVE VersionInv'
    <2>1. ~closed /\ ~closed' /\ cur' = pnew[p] /\ UNCHANGED <<rpc, rmap, rfloor>>
      BY <1>8 DEF PublishSwap, Refused, readerVars, closeVars
    <2>2. pnew[p] \in Mappings /\ pnew[p] # NoMap
      BY <1>8, SwapInstalls
    <2>3. Installs' = Installs + 1
      BY <1>8, SwapCounts
    <2>4. \A m \in Mappings : version'[m] = IF m = pnew[p] THEN Installs + 1 ELSE version[m]
      BY <1>8 DEF PublishSwap, TypeOK, MapTypes
    <2>5. Floor' = Installs + 1 /\ Floor = Installs
      BY <2>1, <2>3 DEF Floor
    <2>6. \A r \in Readers : rpc[r] \in {"enter", "check", "pinned"} => rmap[r] # pnew[p] /\ rmap[r] \in Mappings
      BY <1>8, SwapInstalls DEF ReaderRefs
    <2>7. \A m \in Mappings : version'[m] <= Installs'
      BY <2>3, <2>4 DEF VersionInv, TypeOK, MapTypes
    <2>8. \A m, n \in Mappings : Installed(m)' /\ version'[m] = version'[n] => m = n
      BY <2>2, <2>3, <2>4 DEF VersionInv, TypeOK, MapTypes, Installed
    <2>9. \A r \in Readers : rfloor'[r] <= Floor'
      BY <2>1, <2>5 DEF VersionInv, TypeOK, ReaderTypes
    <2>10. \A r \in Readers : rpc'[r] \in {"enter", "check", "pinned"} => rfloor'[r] <= version'[rmap'[r]]
      BY <2>1, <2>4, <2>6 DEF VersionInv
    <2>11. version'[cur'] = Installs'
      BY <2>1, <2>2, <2>3, <2>4
    <2>12. \A r \in Readers : rpc'[r] = "nomap" /\ ~closed' => rfloor'[r] = 0
      BY <2>1 DEF VersionInv
    <2> QED
      BY <2>1, <2>2, <2>7, <2>8, <2>9, <2>10, <2>11, <2>12 DEF VersionInv
  <1>9. ASSUME NEW p \in Publishers, OpenMapping(p) \/ PublishWait(p) \/ PublishClosed(p) \/ Discard(p) \/ MarkRetired(p) \/ SpawnRetire(p) PROVE VersionInv'
    <2>1. UNCHANGED <<version, cur, closed, rfloor, rpc, rmap>>
      BY <1>9 DEF OpenMapping, PublishWait, PublishClosed, Discard, MarkRetired, SpawnRetire, closeVars, readerVars
    <2> QED
      BY <2>1 DEF VersionInv, Installs, Installed, Floor
  <1>10. ASSUME NEW m \in Mappings, Drainer(m) PROVE VersionInv'
    <2>1. UNCHANGED <<version, cur, closed, rfloor, rpc, rmap>>
      BY <1>10 DEF Drainer, ScanExit, ScanEnter, GraceOver, Unmap, Release, WGDone, closeVars, readerVars
    <2> QED
      BY <2>1 DEF VersionInv, Installs, Installed, Floor
  <1>11. ASSUME NEW c \in Closers, CloseMark(c) PROVE VersionInv'
    <2>1. UNCHANGED <<version, rpc, rmap, rfloor>>
      BY <1>11 DEF CloseMark, readerVars
    <2>2. Installs' = Installs
      BY <2>1 DEF Installs, Installed
    <2>3. Floor' >= Floor /\ Floor \in Nat /\ Floor' \in Nat
      BY <1>11, <2>2 DEF Floor, CloseMark, CurAfterClose, ClosingInv, Active
    <2> QED
      BY <1>11, <2>1, <2>2, <2>3 DEF VersionInv, Installed, TypeOK, MapTypes, ReaderTypes, CloseMark
  <1>12. ASSUME NEW c \in Closers, CloseSwap(c) PROVE VersionInv'
    <2>0. closed /\ closed'
      BY <1>12 DEF ClosingInv, Active, CloseSwap
    <2>1. UNCHANGED <<version, rpc, rmap, rfloor>>
      BY <1>12 DEF CloseSwap, readerVars
    <2>2. Installs' = Installs
      BY <2>1 DEF Installs, Installed
    <2>3. Floor' >= Floor /\ Floor \in Nat /\ Floor' \in Nat
      BY <1>12, <2>0, <2>2 DEF Floor, CloseSwap, CurAfterClose, ClosingInv, Active
    <2> QED
      BY <1>12, <2>0, <2>1, <2>2, <2>3 DEF VersionInv, Installed, TypeOK, MapTypes, ReaderTypes, CloseSwap, CurAfterClose
  <1>13. ASSUME NEW c \in Closers, CloseRetire(c) \/ CloseUnmapped(c) \/ WGWait(c) \/ WGReturn(c) \/ CloseAgain(c) PROVE VersionInv'
    <2>1. UNCHANGED <<version, cur, closed, rfloor, rpc, rmap>>
      BY <1>13 DEF CloseRetire, CloseUnmapped, WGWait, WGReturn, CloseAgain, readerVars
    <2> QED
      BY <2>1 DEF VersionInv, Installs, Installed, Floor
  <1>14. CASE UNCHANGED vars
    BY <1>14 DEF vars, readerVars, closeVars, VersionInv, Installs, Installed, Floor
  <1> QED
    BY <1>1, <1>2, <1>3, <1>4, <1>5, <1>6, <1>7, <1>8, <1>9, <1>10, <1>11, <1>12, <1>13, <1>14
       DEF Next, Reader, Publisher, Drainer, Closer, Finished

\* The Map starts with one version or none.
LEMMA InitInstalls == Init => Installs = IF cur = NoMap THEN 0 ELSE 1
  <1> SUFFICES ASSUME Init PROVE Installs = IF cur = NoMap THEN 0 ELSE 1
    OBVIOUS
  <1> DEFINE S == {m \in Mappings : Installed(m)}
  <1>0. S = {cur} \cap Mappings
    BY DEF Init, Installed
  <1>1. S = IF cur = NoMap THEN {} ELSE {cur}
    BY <1>0 DEF Init
  <1>2. Cardinality(S) = IF cur = NoMap THEN 0 ELSE 1
    <2> HIDE DEF S
    <2>1. CASE cur = NoMap
      <3>1. Cardinality(S) = 0
        BY <1>1, <2>1, FS_EmptySet, Zenon
      <3> QED
        BY <2>1, <3>1
    <2>2. CASE cur # NoMap
      <3>1. Cardinality(S) = 1
        BY <1>1, <2>2, FS_Singleton, Zenon
      <3> QED
        BY <2>2, <3>1
    <2> QED
      BY <2>1, <2>2
  <1> QED
    BY <1>2 DEF Installs

LEMMA InitVersionInv == Init => VersionInv
  <1> SUFFICES ASSUME Init PROVE VersionInv
    OBVIOUS
  <1> QED
    BY InitInstalls DEF Init, VersionInv, Installed, Floor

\* Versions order the installations, and what a read holds is new enough for it.
THEOREM VersionInvariance == Spec => []VersionInv
  <1>1. IInv /\ CInv /\ VersionInv /\ [Next]_vars => VersionInv'
    BY VersionStep
  <1> QED
    BY InitVersionInv, Invariance, ClosingInvariance, <1>1, PTL DEF Spec

----------------------------------------------------------------------------
\* The refinement of MapSpec.  The parts of the mapping that Abstract computes:
Live == {version[m] : m \in {x \in mapped : Installed(x)}}
Emptied == closed /\ cur = NoMap
Held == [r \in Readers |-> IF rpc[r] = "pinned" THEN version[rmap[r]] ELSE 0]

\* What each part of the mapping depends on.
LEMMA SameInstalls == UNCHANGED version => UNCHANGED <<Installs>>
  BY DEF Installs, Installed

LEMMA SameLive == UNCHANGED <<version, mapped>> => UNCHANGED Live
  BY DEF Live, Installed

LEMMA SameReaders ==
    UNCHANGED <<rpc, rmap, version>> => UNCHANGED <<ReaderOp, Held>>
  BY DEF ReaderOp, Held

\* A step that leaves every part of the mapping alone is a stutter of MapSpec.
LEMMA Stutter ==
    UNCHANGED <<Installs, Live, closed, Emptied, ReaderOp, rfloor, Held, rres>>
        => UNCHANGED Abstract!vars
  BY DEF Abstract!vars, Live, Emptied, Held

LEMMA AbstractInit == Init => Abstract!Init
  <1> SUFFICES ASSUME Init PROVE Abstract!Init
    OBVIOUS
  <1>1. Installs = IF cur = NoMap THEN 0 ELSE 1
    BY InitInstalls
  <1>2. Installs \in {0, 1}
    BY <1>1
  <1>3. Live = 1 .. Installs
    <2>1. {x \in mapped : Installed(x)} = {cur} \cap Mappings
      BY DEF Init, Installed
    <2>2. CASE cur = NoMap
      <3>1. Live = {}
        BY <2>1, <2>2, NoMapAssumption DEF Live
      <3> QED
        BY <1>1, <2>2, <3>1
    <2>3. CASE cur # NoMap
      <3>1. cur \in Mappings /\ version[cur] = 1
        BY <2>3 DEF Init
      <3>2. Live = {1}
        BY <2>1, <3>1 DEF Live
      <3> QED
        BY <1>1, <2>3, <3>2
    <2> QED
      BY <2>2, <2>3
  <1>4. closed = FALSE /\ Emptied = FALSE
    BY DEF Init, Emptied
  <1>5. ReaderOp = [r \in Readers |-> "idle"]
    BY DEF Init, ReaderOp
  <1>6. Held = [r \in Readers |-> 0]
    BY DEF Init, Held
  <1>7. rfloor = [r \in Readers |-> 0] /\ rres = [r \in Readers |-> "none"]
    BY DEF Init
  <1> QED
    BY <1>2, <1>3, <1>4, <1>5, <1>6, <1>7 DEF Abstract!Init, Live, Emptied, Held

\* Reads: a call, its success, its failure and its return are those of MapSpec; the steps
\* of enter's loop in between are invisible.
LEMMA ReaderRefines ==
    ASSUME IInv, CInv, VersionInv, IInv', NEW r \in Readers, Reader(r)
    PROVE  [Abstract!Next]_(Abstract!vars)
  <1> TypeOK /\ ReaderRefs /\ LifeInv /\ ScanInv /\ VersionInv
    BY DEF IInv, CInv
  <1>1. UNCHANGED <<version, mapped, closed, cur>>
    BY DEF Reader, Call, Load, NoMapErr, Enter, Check, BackOff, Exit, closeVars
  <1>2. UNCHANGED <<Installs, Live, closed, Emptied>>
    BY <1>1, SameInstalls, SameLive DEF Emptied
  <1>3. CASE Call(r)
    <2>1. ReaderOp[r] = "idle"
      BY <1>3 DEF Call, ReaderOp
    <2>2. ReaderOp' = [ReaderOp EXCEPT ![r] = "calling"]
      BY <1>3 DEF Call, ReaderOp, TypeOK, ReaderTypes
    <2>3. rfloor' = [rfloor EXCEPT ![r] = IF Emptied THEN Installs + 1 ELSE Installs]
      BY <1>3 DEF Call, Floor, Emptied
    <2>4. UNCHANGED <<Held, rres>>
      BY <1>1, <1>3 DEF Call, Held, TypeOK, ReaderTypes
    <2>5. Abstract!Call(r)
      BY <1>2, <2>1, <2>2, <2>3, <2>4 DEF Abstract!Call, Live, Emptied, Held
    <2> QED
      BY <2>5 DEF Abstract!Next
  <1>4. CASE Load(r) \/ Enter(r) \/ BackOff(r)
    <2>1. UNCHANGED <<rfloor, rres>>
      BY <1>4 DEF Load, Enter, BackOff
    <2>2. /\ rpc[r] \notin {"idle", "pinned"} /\ rpc'[r] \notin {"idle", "pinned"}
          /\ \A q \in Readers : q # r => rpc'[q] = rpc[q] /\ rmap'[q] = rmap[q]
      BY <1>4 DEF Load, Enter, BackOff, TypeOK, ReaderTypes
    <2>3. UNCHANGED <<ReaderOp, Held>>
      BY <1>1, <2>2 DEF ReaderOp, Held
    <2> QED
      BY <1>2, <2>1, <2>3, Stutter
  <1>5. CASE NoMapErr(r)
    <2>1. ReaderOp[r] = "calling"
      BY <1>5 DEF NoMapErr, ReaderOp
    <2>2. ReaderOp' = [ReaderOp EXCEPT ![r] = "idle"]
      BY <1>5 DEF NoMapErr, Returned, ReaderOp, TypeOK, ReaderTypes
    <2>3. rfloor' = [rfloor EXCEPT ![r] = 0]
      BY <1>5 DEF NoMapErr, Returned
    <2>4. UNCHANGED Held
      BY <1>1, <1>5 DEF NoMapErr, Returned, Held, TypeOK, ReaderTypes
    <2>5. \/ rfloor[r] = 0 /\ rres' = [rres EXCEPT ![r] = "ErrNoMap"]
          \/ closed /\ rres' = [rres EXCEPT ![r] = "ErrMapClosed"]
      BY <1>5 DEF NoMapErr, VersionInv
    <2>6. Abstract!Fail(r)
      BY <1>2, <2>1, <2>2, <2>3, <2>4, <2>5 DEF Abstract!Fail, Live, Emptied, Held
    <2> QED
      BY <2>6 DEF Abstract!Next
  <1>6. CASE Check(r)
    <2>1. UNCHANGED <<rfloor, rres, rmap>>
      BY <1>6 DEF Check
    <2>2. \A q \in Readers : q # r => rpc'[q] = rpc[q]
      BY <1>6 DEF Check, TypeOK, ReaderTypes
    <2>3. CASE rpc'[r] # "pinned"
      <3>1. rpc[r] \notin {"idle", "pinned"} /\ rpc'[r] \notin {"idle", "pinned"}
        BY <1>6, <2>3 DEF Check, TypeOK, ReaderTypes
      <3>2. UNCHANGED <<ReaderOp, Held>>
        BY <1>1, <2>1, <2>2, <3>1 DEF ReaderOp, Held
      <3> QED
        BY <1>2, <2>1, <3>2, Stutter
    <2>4. CASE rpc'[r] = "pinned"
      <3>1. rpc[r] = "check" /\ rpc' = [rpc EXCEPT ![r] = "pinned"]
        BY <1>6, <2>4 DEF Check, TypeOK, ReaderTypes
      <3>2. rmap[r] \in Mappings /\ Installed(rmap[r])
        BY <3>1 DEF ReaderRefs
      <3>3. dpc'[rmap[r]] \notin Drained
        BY <2>1, <2>4, <3>2 DEF IInv, ScanInv
      <3>4. rmap[r] \in mapped
        BY <1>1, <2>1, <3>2, <3>3 DEF IInv, LifeInv, Installed, Drained
      <3>5. version[rmap[r]] \in Live /\ rfloor[r] <= version[rmap[r]]
        BY <3>1, <3>2, <3>4 DEF Live, VersionInv
      <3>6. Held' = [Held EXCEPT ![r] = version[rmap[r]]]
        BY <1>1, <2>1, <3>1 DEF Held, TypeOK, ReaderTypes
      <3>7. ReaderOp[r] = "calling" /\ ReaderOp' = [ReaderOp EXCEPT ![r] = "holding"]
        BY <3>1 DEF ReaderOp, TypeOK, ReaderTypes
      <3>8. Abstract!Hold(r)
        BY <1>2, <2>1, <3>5, <3>6, <3>7 DEF Abstract!Hold, Live, Emptied, Held
      <3> QED
        BY <3>8 DEF Abstract!Next
    <2> QED
      BY <2>3, <2>4
  <1>7. CASE Exit(r)
    <2>1. ReaderOp[r] = "holding"
      BY <1>7 DEF Exit, ReaderOp
    <2>2. ReaderOp' = [ReaderOp EXCEPT ![r] = "idle"]
      BY <1>7 DEF Exit, Returned, ReaderOp, TypeOK, ReaderTypes
    <2>3. rfloor' = [rfloor EXCEPT ![r] = 0] /\ rres' = [rres EXCEPT ![r] = "ok"]
      BY <1>7 DEF Exit, Returned
    <2>4. Held' = [Held EXCEPT ![r] = 0]
      BY <1>1, <1>7 DEF Exit, Returned, Held, TypeOK, ReaderTypes
    <2>5. Abstract!Return(r)
      BY <1>2, <2>1, <2>2, <2>3, <2>4 DEF Abstract!Return, Live, Emptied, Held
    <2> QED
      BY <2>5 DEF Abstract!Next
  <1> QED
    BY <1>3, <1>4, <1>5, <1>6, <1>7 DEF Reader

\* A publish shows as one Install, at its swap.
LEMMA PublisherRefines ==
    ASSUME IInv, CInv, VersionInv, NEW p \in Publishers, Publisher(p)
    PROVE  [Abstract!Next]_(Abstract!vars)
  <1> TypeOK /\ ReaderRefs /\ NewRefs /\ LifeInv /\ VersionInv
    BY DEF IInv, CInv
  <1>1. UNCHANGED <<closed, rpc, rmap, rfloor, rres>>
    BY DEF Publisher, OpenMapping, PublishWait, PublishClosed, Discard, PublishSwap,
       MarkRetired, SpawnRetire, closeVars, readerVars
  <1>2. CASE PublishSwap(p)
    <2>1. ~closed /\ ~Emptied /\ ~Emptied'
      BY <1>1, <1>2 DEF PublishSwap, Refused, Emptied
    <2>2. Installs' = Installs + 1
      BY <1>2, SwapCounts
    <2>3. /\ pnew[p] \in Mappings /\ pnew[p] \in mapped /\ ~Installed(pnew[p])
          /\ \A m \in Mappings : Installed(m)' <=> Installed(m) \/ m = pnew[p]
      BY <1>2, SwapInstalls
    <2>4. /\ version' = [version EXCEPT ![pnew[p]] = Installs + 1]
          /\ mapped' = mapped /\ mapped \subseteq Mappings /\ version \in [Mappings -> Nat]
      BY <1>2 DEF PublishSwap, TypeOK, MapTypes
    <2>5. Live' = Live \cup {Installs + 1}
      <3>1. \A m \in Mappings : version'[m] = IF m = pnew[p] THEN Installs + 1 ELSE version[m]
        BY <2>3, <2>4
      <3>2. {x \in mapped : Installed(x)}' = {x \in mapped : Installed(x)} \cup {pnew[p]}
        BY <2>3, <2>4
      <3> QED
        BY <2>3, <2>4, <3>1, <3>2 DEF Live
    <2>6. UNCHANGED <<ReaderOp, Held>>
      <3>1. \A r \in Readers : rpc[r] = "pinned" => rmap[r] \in Mappings /\ rmap[r] # pnew[p]
        BY <2>3 DEF ReaderRefs
      <3> QED
        BY <1>1, <2>4, <3>1 DEF ReaderOp, Held
    <2>7. Emptied' = Emptied
      BY <2>1 DEF Emptied
    <2>8. Abstract!Install
      BY <1>1, <2>1, <2>2, <2>5, <2>6, <2>7 DEF Abstract!Install, Live, Emptied, Held
    <2> QED
      BY <2>8 DEF Abstract!Next
  <1>3. CASE OpenMapping(p) \/ Discard(p)
    <2>1. UNCHANGED <<version, cur>>
      BY <1>3 DEF OpenMapping, Discard
    <2>2. {x \in mapped : Installed(x)}' = {x \in mapped : Installed(x)}
      BY <1>3, <2>1 DEF OpenMapping, Discard, LifeInv, NewRefs, HasNew, Installed
    <2>3. UNCHANGED Live
      BY <2>1, <2>2 DEF Live
    <2> QED
      BY <1>1, <2>1, <2>3, SameInstalls, SameReaders, Stutter DEF Emptied
  <1>4. CASE PublishWait(p) \/ PublishClosed(p) \/ MarkRetired(p) \/ SpawnRetire(p)
    <2>1. UNCHANGED <<version, cur, mapped>>
      BY <1>4 DEF PublishWait, PublishClosed, MarkRetired, SpawnRetire
    <2> QED
      BY <1>1, <2>1, SameInstalls, SameLive, SameReaders, Stutter DEF Emptied
  <1> QED
    BY <1>2, <1>3, <1>4 DEF Publisher

\* A drain shows as the Reclaim of one version, at its unmap.
LEMMA DrainerRefines ==
    ASSUME IInv, CInv, VersionInv, NEW m \in Mappings, Drainer(m)
    PROVE  [Abstract!Next]_(Abstract!vars)
  <1> TypeOK /\ ReaderRefs /\ LifeInv /\ ScanInv /\ VersionInv
    BY DEF IInv, CInv
  <1>1. UNCHANGED <<version, cur, closed, rpc, rmap, rfloor, rres>>
    BY DEF Drainer, ScanExit, ScanEnter, GraceOver, Unmap, Release, WGDone, closeVars,
       readerVars
  <1>2. UNCHANGED <<Installs, closed, Emptied, ReaderOp, rfloor, Held, rres>>
    BY <1>1, SameInstalls, SameReaders DEF Emptied
  <1>3. CASE Unmap(m)
    <2>1. dpc[m] = "unmap" /\ mapped' = mapped \ {m}
      BY <1>3 DEF Unmap
    <2>2. Installed(m) /\ m \in mapped /\ m # cur
      BY <2>1 DEF LifeInv
    <2>3. Live' = Live \ {version[m]}
      <3>1. mapped \subseteq Mappings
        BY DEF TypeOK, MapTypes
      <3>2. \A n \in Mappings : Installed(n) /\ n # m => version[n] # version[m]
        BY DEF VersionInv
      <3>3. {x \in mapped : Installed(x)}' = {x \in mapped : Installed(x)} \ {m}
        BY <1>1, <2>1 DEF Installed
      <3> QED
        BY <1>1, <3>1, <3>2, <3>3 DEF Live
    <2>4. version[m] \in Live
      BY <2>2 DEF Live
    <2>5. version[m] < Installs \/ Emptied
      <3>1. version[m] \in Nat /\ version[m] > 0 /\ version[m] <= Installs /\ Installs \in Nat
        BY <2>2, InstallsNat DEF TypeOK, MapTypes, VersionInv, Installed
      <3>2. CASE cur = NoMap
        BY <3>1, <3>2 DEF VersionInv, Emptied
      <3>3. CASE cur # NoMap
        <4>1. cur \in Mappings /\ version[cur] = Installs
          BY <3>3 DEF TypeOK, MapTypes, VersionInv
        <4>2. version[m] # version[cur]
          BY <2>2, <4>1 DEF VersionInv
        <4> QED
          BY <3>1, <4>1, <4>2
      <3> QED
        BY <3>2, <3>3
    <2>6. \A r \in Readers : Held[r] # version[m]
      <3> SUFFICES ASSUME NEW r \in Readers PROVE Held[r] # version[m]
        OBVIOUS
      <3>1. CASE rpc[r] = "pinned"
        <4>1. rmap[r] \in Mappings /\ Installed(rmap[r])
          BY <3>1 DEF ReaderRefs
        <4>2. rmap[r] # m
          BY <2>1, <3>1 DEF ScanInv, Drained
        <4> QED
          BY <2>2, <3>1, <4>1, <4>2 DEF Held, VersionInv
      <3>2. CASE rpc[r] # "pinned"
        BY <2>2, <3>2 DEF Held, Installed, TypeOK, MapTypes
      <3> QED
        BY <3>1, <3>2
    <2>7. PICK v \in Live : v = version[m]
      BY <2>4
    <2>8. Abstract!Reclaim(v)
      BY <1>2, <2>3, <2>5, <2>6, <2>7 DEF Abstract!Reclaim, Live, Emptied, Held
    <2> QED
      BY <2>8 DEF Abstract!Next, Live
  <1>4. CASE ScanExit(m) \/ ScanEnter(m) \/ GraceOver(m) \/ Release(m) \/ WGDone(m)
    <2>1. UNCHANGED mapped
      BY <1>4 DEF ScanExit, ScanEnter, GraceOver, Release, WGDone
    <2> QED
      BY <1>1, <1>2, <2>1, SameLive, Stutter
  <1> QED
    BY <1>3, <1>4 DEF Drainer

\* Close shows as Shut when it marks the Map and as Empty when it takes the mapping out.
LEMMA CloserRefines ==
    ASSUME IInv, CInv, VersionInv, NEW c \in Closers, Closer(c)
    PROVE  [Abstract!Next]_(Abstract!vars)
  <1> TypeOK /\ ClosingInv /\ VersionInv
    BY DEF IInv, CInv
  <1>1. UNCHANGED <<version, mapped, rpc, rmap, rfloor, rres>>
    BY DEF Closer, CloseMark, CloseSwap, CloseRetire, CloseUnmapped, WGWait, WGReturn,
       CloseAgain, readerVars
  <1>2. UNCHANGED <<Installs, Live, ReaderOp, rfloor, Held, rres>>
    BY <1>1, SameInstalls, SameLive, SameReaders
  <1>3. CASE CloseMark(c)
    <2>1. ~closed /\ closed' = TRUE /\ cur' = cur
      BY <1>3 DEF CloseMark, ClosingInv
    <2>2. Installs = 0 <=> cur = NoMap
      <3>1. cur # NoMap => cur \in Mappings /\ version[cur] = Installs /\ version[cur] > 0
        BY DEF TypeOK, MapTypes, VersionInv, IInv, LifeInv, Installed
      <3> QED
        BY <2>1, <3>1, InstallsNat DEF VersionInv
    <2>3. Emptied' = (Installs = 0)
      BY <2>1, <2>2 DEF Emptied
    <2>4. Abstract!Shut
      BY <1>2, <2>1, <2>3 DEF Abstract!Shut, Live, Emptied, Held
    <2> QED
      BY <2>4 DEF Abstract!Next
  <1>4. CASE CloseSwap(c)
    <2>1. closed /\ closed' = closed /\ cur' = NoMap
      BY <1>4 DEF CloseSwap, CurAfterClose, ClosingInv, Active
    <2>2. Emptied' = TRUE
      BY <2>1 DEF Emptied
    <2>3. Abstract!Empty
      BY <1>2, <2>1, <2>2 DEF Abstract!Empty, Live, Emptied, Held
    <2> QED
      BY <2>3 DEF Abstract!Next
  <1>5. CASE CloseRetire(c) \/ CloseUnmapped(c) \/ WGWait(c) \/ WGReturn(c) \/ CloseAgain(c)
    <2>1. UNCHANGED <<closed, cur>>
      BY <1>5 DEF CloseRetire, CloseUnmapped, WGWait, WGReturn, CloseAgain
    <2> QED
      BY <1>2, <2>1, Stutter DEF Emptied
  <1> QED
    BY <1>3, <1>4, <1>5 DEF Closer

\* For any number of goroutines, swaps and stripes, the protocol does only what MapSpec
\* allows: a read returns a version at least as new as its call, keeps it while it uses
\* it, and fails only for lack of one (Map.enter, publish, retire, Close).
THEOREM Refinement == Spec => ImplementsMapSpec
  <1>1. IInv /\ CInv /\ VersionInv /\ IInv' /\ [Next]_vars => [Abstract!Next]_(Abstract!vars)
    <2> SUFFICES ASSUME IInv, CInv, VersionInv, IInv', [Next]_vars
                 PROVE  [Abstract!Next]_(Abstract!vars)
      OBVIOUS
    <2>1. CASE UNCHANGED vars
      <3>1. UNCHANGED <<version, mapped, closed, cur, rpc, rmap, rfloor, rres>>
        BY <2>1 DEF vars, readerVars, closeVars
      <3> QED
        BY <3>1, SameInstalls, SameLive, SameReaders, Stutter DEF Emptied
    <2> QED
      BY <2>1, ReaderRefines, PublisherRefines, DrainerRefines, CloserRefines
         DEF Next, Finished
  <1> QED
    BY AbstractInit, <1>1, Invariance, ClosingInvariance, VersionInvariance, PTL
       DEF Spec, ImplementsMapSpec, Abstract!Spec
=============================================================================
