--------------------------- MODULE TelemetryProofs ---------------------------
(****************************************************************************)
(* Proofs about what telemetry reports: the books of the emitter            *)
(* (Telemetry), and the statistics of the Map they carry (MapStatistics).   *)
(* Both count: the emitter in the reports of a queue and of every builder,  *)
(* the histogram in what every drain holds; TotalsProofs is about such      *)
(* sums.                                                                    *)
(****************************************************************************)
EXTENDS Telemetry, MapStatistics, TotalsProofs

----------------------------------------------------------------------------
\* The emitter.

\* The send goroutine has a report in hand.
InHand == spc \in {"pause", "post", "wait", "delay"}

\* Who has no report in hand announces nothing.
CarryInv == /\ \A b \in Builders : bpc[b] = "idle" => bcarry[b] = 0
            /\ ~InHand => scarry = 0

\* The requests the reports taken so far may cost, and what is left of them for the report
\* in hand.
Quota(n) == n * (Retries + 1)
PostsInv ==
    /\ ~InHand => attempts <= Quota(taken)
    /\ spc \in {"pause", "post"} => attempts + (Retries + 1 - attempt) <= Quota(taken)
    /\ spc \in {"wait", "delay"} => attempts + (Retries - attempt) <= Quota(taken)
    /\ spc = "delay" => attempt < Retries

\* A report that may be posted has waited out the pause; only the answer to it starts
\* another one.
PauseInv == spc \in {"post", "wait", "delay"} => now >= pauseUntil

IInv == TypeOK /\ CarryInv /\ DropsAccounted /\ PostsInv /\ PauseInv

----------------------------------------------------------------------------
USE SizesAssumption, BoundsAssumption

\* TypeOK in two parts: the queue, and what holds no sequence.
QueueOK == queue \in Seq(Nat) /\ Len(queue) <= QueueSize
ScalarsOK ==
    /\ enabled \in BOOLEAN /\ cancelled \in BOOLEAN
    /\ dropped \in Nat /\ sent \in Nat /\ attempts \in Nat /\ pauseUntil \in Nat
    /\ bpc \in [Builders -> {"idle", "enqueue"}] /\ bcarry \in [Builders -> Nat]
    /\ spc \in {"idle", "pause", "post", "wait", "delay", "off"}
    /\ scarry \in Nat /\ attempt \in 0 .. Retries
    /\ now \in 1 .. MaxTime
    /\ built \in 0 .. MaxReports /\ told \in Nat /\ taken \in Nat

LEMMA TypeParts == (TypeOK <=> QueueOK /\ ScalarsOK) /\ (TypeOK' <=> QueueOK' /\ ScalarsOK')
  BY DEF TypeOK, QueueOK, ScalarsOK

\* The parts of the books: reports between build and enqueue, and what is announced.
Building == {b \in Builders : bpc[b] = "enqueue"}
Books == /\ Cardinality(Building) \in Nat /\ IsFiniteSet(Building)
         /\ SumOf(queue) \in Nat /\ SumOf(bcarry) \in Nat

LEMMA BooksNat == TypeOK => Books
  <1> SUFFICES ASSUME TypeOK PROVE Books
    OBVIOUS
  <1>1. IsFiniteSet(Building)
    BY FS_Subset, BuildersAssumption DEF Building
  <1>2. SumOf(bcarry) \in Nat
    BY BuildersAssumption, SumNat DEF TypeOK
  <1>3. SumOf(queue) \in Nat
    <2>1. queue \in [1 .. Len(queue) -> Nat] /\ Len(queue) \in Int
      BY DEF TypeOK
    <2>2. IsFiniteSet(1 .. Len(queue))
      BY <2>1, FS_Interval
    <2> QED
      BY <2>1, <2>2, SumNat
  <1> QED
    BY <1>1, <1>2, <1>3, FS_CardinalityType DEF Books

\* One more report may be posted as often as the others.
LEMMA QuotaNext ==
    ASSUME NEW n \in Nat
    PROVE  /\ Quota(n) \in Nat /\ Quota(n + 1) = Quota(n) + Retries + 1
  BY DEF Quota

LEMMA BooksNatNext == TypeOK' => Books'
  BY BooksNat, PTL

LEMMA TypeInit == Init => TypeOK
  <1> SUFFICES ASSUME Init PROVE TypeOK
    OBVIOUS
  <1>1. QueueOK
    BY DEF Init, QueueOK
  <1>2. ScalarsOK
    <2>1. spc \in {"idle", "pause", "post", "wait", "delay", "off"} /\ now \in 1 .. MaxTime
      BY DEF Init
    <2>2. /\ bpc \in [Builders -> {"idle", "enqueue"}] /\ bcarry \in [Builders -> Nat]
      BY DEF Init
    <2>3. /\ dropped \in Nat /\ sent \in Nat /\ attempts \in Nat /\ pauseUntil \in Nat
          /\ scarry \in Nat /\ attempt \in 0 .. Retries
          /\ built \in 0 .. MaxReports /\ told \in Nat /\ taken \in Nat
      BY DEF Init
    <2>4. enabled \in BOOLEAN /\ cancelled \in BOOLEAN
      BY DEF Init
    <2> QED
      BY <2>1, <2>2, <2>3, <2>4 DEF ScalarsOK
  <1> QED
    BY <1>1, <1>2, TypeParts

\* The queue holds numbers and never more than QueueSize of them.
LEMMA QueueStep == TypeOK /\ [Next]_vars => QueueOK'
  <1> SUFFICES ASSUME TypeOK, [Next]_vars PROVE QueueOK'
    OBVIOUS
  <1> QueueOK /\ ScalarsOK
    BY TypeParts
  <1>1. ASSUME UNCHANGED queue PROVE QueueOK'
    BY <1>1 DEF QueueOK
  <1>2. ASSUME NEW b \in Builders, Enqueue(b) PROVE QueueOK'
    <2>1. bcarry[b] \in Nat
      BY DEF ScalarsOK
    <2>2. CASE HasRoom
      <3>1. queue' = Append(queue, bcarry[b]) /\ Len(queue) < QueueSize
        BY <1>2, <2>2 DEF Enqueue, HasRoom
      <3> QED
        BY <2>1, <3>1 DEF QueueOK
    <2>3. CASE ~HasRoom
      BY <1>1, <1>2, <2>3 DEF Enqueue
    <2> QED
      BY <2>2, <2>3
  <1>3. CASE Take
    <2>1. queue # <<>> /\ queue' = Tail(queue)
      BY <1>3 DEF Take
    <2>2. queue' \in Seq(Nat) /\ Len(queue') = Len(queue) - 1 /\ Len(queue) \in Nat
      BY <2>1 DEF QueueOK
    <2> QED
      BY <2>2 DEF QueueOK
  <1>4. CASE Configure \/ Cancel \/ Tick \/ UNCHANGED vars \/ \E b \in Builders : Build(b)
    BY <1>1, <1>4 DEF Configure, Cancel, Tick, Build, vars
  <1>5. CASE Stop \/ PauseOver \/ PauseCancelled \/ Post \/ Accepted \/ TooMany \/ Rejected
             \/ GiveUp \/ Retry \/ DelayOver \/ DelayCancelled
    BY <1>1, <1>5 DEF Stop, PauseOver, PauseCancelled, Post, Accepted, TooMany, Rejected,
       GiveUp, Retry, DelayOver, DelayCancelled
  <1> QED
    BY <1>2, <1>3, <1>4, <1>5 DEF Next, Sender

LEMMA ScalarsStep == TypeOK /\ PostsInv /\ [Next]_vars => ScalarsOK'
  <1> SUFFICES ASSUME TypeOK, PostsInv, [Next]_vars PROVE ScalarsOK'
    OBVIOUS
  <1> QueueOK /\ ScalarsOK
    BY TypeParts
  <1>1. CASE Configure \/ Cancel \/ Tick
    <2>1. /\ UNCHANGED <<dropped, sent, attempts, pauseUntil, bpc, bcarry, spc, scarry, attempt>>
          /\ UNCHANGED <<built, told, taken>>
      BY <1>1 DEF Configure, Cancel, Tick, sendVars, histVars
    <2>2. now' \in 1 .. MaxTime
      BY <1>1 DEF ScalarsOK, Configure, Cancel, Tick
    <2>3. enabled' \in BOOLEAN /\ cancelled' \in BOOLEAN
      BY <1>1 DEF ScalarsOK, Configure, Cancel, Tick
    <2> QED
      BY <2>1, <2>2, <2>3 DEF ScalarsOK
  <1>2. ASSUME NEW b \in Builders, Build(b) PROVE ScalarsOK'
    BY <1>2 DEF ScalarsOK, Build, sendVars
  <1>3. ASSUME NEW b \in Builders, Enqueue(b) PROVE ScalarsOK'
    <2>1. dropped' \in Nat
      BY <1>3 DEF ScalarsOK, Enqueue, WithCarried
    <2>2. bpc' \in [Builders -> {"idle", "enqueue"}] /\ bcarry' \in [Builders -> Nat]
      BY <1>3 DEF ScalarsOK, Enqueue
    <2> QED
      BY <1>3, <2>1, <2>2 DEF ScalarsOK, Enqueue, sendVars, histVars
  <1>4. CASE Take
    <2>1. Head(queue) \in Nat
      BY <1>4 DEF QueueOK, Take
    <2> QED
      BY <1>4, <2>1 DEF ScalarsOK, Take
  <1>5. CASE Stop \/ PauseOver \/ PauseCancelled \/ Post \/ Accepted \/ Retry
    BY <1>5 DEF ScalarsOK, Stop, PauseOver, PauseCancelled, Post, Accepted, Retry, histVars
  <1>6. CASE TooMany \/ Rejected \/ GiveUp \/ DelayCancelled
    <2>1. pauseUntil' \in Nat
      BY <1>6, PausesAssumption DEF ScalarsOK, TooMany, Rejected, GiveUp, DelayCancelled
    <2> QED
      BY <1>6, <2>1 DEF ScalarsOK, TooMany, Rejected, GiveUp, DelayCancelled, Dropped,
         WithCarried, histVars
  <1>7. CASE DelayOver
    BY <1>7 DEF ScalarsOK, PostsInv, DelayOver, histVars
  <1>8. CASE UNCHANGED vars
    BY <1>8 DEF ScalarsOK, vars, sendVars, histVars
  <1> QED
    BY <1>1, <1>2, <1>3, <1>4, <1>5, <1>6, <1>7, <1>8 DEF Next, Sender

LEMMA TypeStep == TypeOK /\ PostsInv /\ [Next]_vars => TypeOK'
  BY QueueStep, ScalarsStep, TypeParts

LEMMA CarryStep == TypeOK /\ CarryInv /\ [Next]_vars => CarryInv'
  <1> SUFFICES ASSUME TypeOK, CarryInv, [Next]_vars PROVE CarryInv'
    OBVIOUS
  <1>1. CASE Configure \/ Cancel \/ Tick
    BY <1>1 DEF CarryInv, InHand, Configure, Cancel, Tick, sendVars
  <1>2. ASSUME NEW b \in Builders, Build(b) \/ Enqueue(b) PROVE CarryInv'
    BY <1>2 DEF CarryInv, InHand, TypeOK, Build, Enqueue, sendVars
  <1>3. CASE Sender
    BY <1>3 DEF CarryInv, InHand, Sender, Take, Stop, PauseOver, PauseCancelled, Post,
       Accepted, TooMany, Rejected, GiveUp, Retry, DelayOver, DelayCancelled, Dropped
  <1>4. CASE UNCHANGED vars
    BY <1>4 DEF CarryInv, InHand, vars, sendVars
  <1> QED
    BY <1>1, <1>2, <1>3, <1>4 DEF Next

LEMMA PostsStep == TypeOK /\ PostsInv /\ [Next]_vars => PostsInv'
  <1> SUFFICES ASSUME TypeOK, PostsInv, [Next]_vars PROVE PostsInv'
    OBVIOUS
  <1>1. /\ Quota(taken) \in Nat /\ Quota(taken + 1) = Quota(taken) + Retries + 1
        /\ attempts \in Nat /\ attempt \in 0 .. Retries /\ taken \in Nat
    BY QuotaNext DEF TypeOK
  <1>2. CASE Take
    <2>1. /\ spc = "idle" /\ spc' \in {"pause", "post"} /\ attempt' = 0
          /\ taken' = taken + 1 /\ attempts' = attempts
      BY <1>2 DEF Take
    <2>2. Quota(taken') = Quota(taken) + Retries + 1
      BY <1>1, <2>1
    <2> QED
      BY <1>1, <2>1, <2>2 DEF PostsInv, InHand
  <1>3. ASSUME taken' = taken PROVE Quota(taken') = Quota(taken)
    BY <1>3
  <1>4. CASE Post \/ Accepted \/ TooMany \/ Rejected \/ GiveUp \/ DelayCancelled
    <2>1. taken' = taken
      BY <1>4 DEF Post, Accepted, TooMany, Rejected, GiveUp, DelayCancelled, histVars
    <2>2. \/ /\ spc = "post" /\ spc' = "wait" /\ attempts' = attempts + 1 /\ attempt' = attempt
          \/ spc \in {"wait", "delay"} /\ spc' = "idle" /\ attempts' = attempts
      BY <1>4 DEF Post, Accepted, TooMany, Rejected, GiveUp, DelayCancelled, Dropped
    <2> QED
      BY <1>1, <1>3, <2>1, <2>2 DEF PostsInv, InHand
  <1>5. CASE Stop \/ PauseOver \/ PauseCancelled \/ Retry \/ DelayOver
    <2>1. taken' = taken /\ attempts' = attempts
      BY <1>5 DEF Stop, PauseOver, PauseCancelled, Retry, DelayOver, histVars
    <2>2. \/ spc = "idle" /\ spc' = "off"
          \/ spc = "pause" /\ spc' \in {"post", "off"} /\ attempt' = attempt
          \/ spc = "wait" /\ spc' = "delay" /\ attempt' = attempt /\ attempt < Retries
          \/ spc = "delay" /\ spc' = "post" /\ attempt' = attempt + 1
      BY <1>1, <1>5 DEF Stop, PauseOver, PauseCancelled, Retry, DelayOver, OutOfRetries
    <2> QED
      BY <1>1, <1>3, <2>1, <2>2 DEF PostsInv, InHand
  <1>6. ASSUME \/ Configure \/ Cancel \/ Tick
               \/ \E b \in Builders : Build(b) \/ Enqueue(b)
               \/ UNCHANGED vars
        PROVE  PostsInv'
    <2>1. UNCHANGED <<spc, attempt, attempts, taken>>
      BY <1>6 DEF Configure, Cancel, Tick, Build, Enqueue, vars, sendVars, histVars
    <2> QED
      BY <1>3, <2>1 DEF PostsInv, InHand
  <1> QED
    BY <1>2, <1>4, <1>5, <1>6 DEF Next, Sender

LEMMA PauseStep == TypeOK /\ PauseInv /\ [Next]_vars => PauseInv'
  <1> SUFFICES ASSUME TypeOK, PauseInv, [Next]_vars PROVE PauseInv'
    OBVIOUS
  <1>1. CASE Configure \/ Cancel \/ Tick
    BY <1>1 DEF PauseInv, TypeOK, Configure, Cancel, Tick, sendVars
  <1>2. ASSUME NEW b \in Builders, Build(b) \/ Enqueue(b) PROVE PauseInv'
    BY <1>2 DEF PauseInv, Build, Enqueue, sendVars
  <1>3. CASE Sender
    BY <1>3 DEF PauseInv, TypeOK, Sender, Take, Stop, PauseOver, PauseIsOver, PauseCancelled,
       Post, Accepted, TooMany, Rejected, GiveUp, Retry, DelayOver, DelayCancelled, Dropped
  <1>4. CASE UNCHANGED vars
    BY <1>4 DEF PauseInv, vars, sendVars
  <1> QED
    BY <1>1, <1>2, <1>3, <1>4 DEF Next

\* A step that leaves the balance alone, and does not undo a cancellation, keeps the books;
\* so does one that loses reports after it.
Known == sent + Reports + dropped + Announced + told

KnownNat == Known \in Nat

LEMMA KnownCounts == TypeOK => KnownNat
  <1> SUFFICES ASSUME TypeOK PROVE Known \in Nat
    BY DEF KnownNat
  <1>1. Books /\ ScalarsOK /\ Len(queue) \in Nat
    BY BooksNat, TypeParts DEF QueueOK
  <1>2. Reports \in Nat
    BY <1>1 DEF Reports, Books, Building
  <1>3. Announced \in Nat
    <2>1. SumOf(queue) \in Nat /\ SumOf(bcarry) \in Nat /\ scarry \in Nat
      BY <1>1 DEF Books, ScalarsOK
    <2> QED
      BY <2>1 DEF Announced
  <1> QED
    BY <1>1, <1>2, <1>3 DEF Known, ScalarsOK

LEMMA KnownCountsNext == TypeOK' => KnownNat'
  BY KnownCounts, PTL

LEMMA BalanceKept ==
    ASSUME TypeOK, TypeOK', DropsAccounted, Known' + built = Known + built',
           cancelled => cancelled'
    PROVE  DropsAccounted'
  <1>1. Known \in Nat /\ Known' \in Nat /\ built \in Nat /\ built' \in Nat
    BY KnownCounts, KnownCountsNext, TypeParts DEF KnownNat, ScalarsOK
  <1>2. IF cancelled THEN Known <= built ELSE Known = built
    BY DEF DropsAccounted, Known
  <1>3. IF cancelled' THEN Known' <= built' ELSE Known' = built'
    <2> HIDE DEF Known
    <2>1. CASE cancelled
      BY <1>1, <1>2, <2>1
    <2>2. CASE ~cancelled
      BY <1>1, <1>2, <2>2
    <2> QED
      BY <2>1, <2>2
  <1> QED
    BY <1>3 DEF DropsAccounted, Known

\* A builder that finishes a report leaves the set of builders at work, one that starts
\* joins it.
LEMMA BuildingStep ==
    ASSUME TypeOK, NEW b \in Builders, NEW pc \in {"idle", "enqueue"},
           bpc' = [bpc EXCEPT ![b] = pc], bpc[b] # pc
    PROVE  Cardinality(Building') = IF pc = "enqueue" THEN Cardinality(Building) + 1
                                    ELSE Cardinality(Building) - 1
  <1>1. IsFiniteSet(Building)
    BY BooksNat DEF Books
  <1>2. CASE pc = "enqueue"
    <2>1. Building' = Building \cup {b} /\ b \notin Building
      BY <1>2 DEF Building, TypeOK
    <2> HIDE DEF Building
    <2> QED
      BY <1>1, <1>2, <2>1, FS_AddElement
  <1>3. CASE pc = "idle"
    <2>1. Building' = Building \ {b} /\ b \in Building
      BY <1>3 DEF Building, TypeOK
    <2> HIDE DEF Building
    <2> QED
      BY <1>1, <1>3, <2>1, FS_RemoveElement
  <1> QED
    BY <1>2, <1>3

LEMMA BooksStep ==
    TypeOK /\ CarryInv /\ DropsAccounted /\ TypeOK' /\ [Next]_vars => DropsAccounted'
  <1> SUFFICES ASSUME TypeOK, CarryInv, DropsAccounted, TypeOK', [Next]_vars
               PROVE  DropsAccounted'
    OBVIOUS
  <1> DEFINE C == Cardinality(Building)
             Q == SumOf(queue)
             B == SumOf(bcarry)
             L == Len(queue)
             H == IF InHand THEN 1 ELSE 0
  <1>a. Known = sent + (L + C + H) + dropped + (Q + B + scarry) + told
    BY DEF Known, Reports, Announced, Building, InHand
  <1>b. Known' = sent' + (L' + C' + H') + dropped' + (Q' + B' + scarry') + told'
    BY DEF Known, Reports, Announced, Building, InHand
  <1>c. /\ C \in Nat /\ Q \in Nat /\ B \in Nat /\ L \in Nat /\ sent \in Nat /\ dropped \in Nat
        /\ scarry \in Nat /\ told \in Nat /\ built \in Nat /\ H \in Nat
        /\ \A b \in Builders : bcarry[b] \in Nat
    <2>1. Books /\ ScalarsOK /\ QueueOK
      BY BooksNat, TypeParts
    <2>2. L \in Nat
      BY <2>1 DEF QueueOK
    <2>3. H \in Nat
      OBVIOUS
    <2> HIDE DEF C, Q, B, L, H
    <2>4. C \in Nat /\ Q \in Nat /\ B \in Nat
      BY <2>1 DEF Books, C, Q, B
    <2> QED
      BY <2>1, <2>2, <2>3, <2>4 DEF ScalarsOK
  <1>1. CASE Configure \/ Cancel \/ Tick
    <2>1. UNCHANGED <<C, Q, B, L, H, sent, dropped, scarry, told, built>>
      BY <1>1 DEF Configure, Cancel, Tick, Building, InHand, sendVars, histVars
    <2>2. cancelled => cancelled'
      BY <1>1 DEF Configure, Cancel, Tick
    <2>3. Known' + built = Known + built'
      BY <1>a, <1>b, <2>1
    <2> QED
      BY <2>2, <2>3, BalanceKept
  <1>2. ASSUME NEW b \in Builders, Build(b) PROVE DropsAccounted'
    <2>1. UNCHANGED <<Q, L, H, sent, scarry, told, cancelled>>
      BY <1>2 DEF Build, InHand, sendVars
    <2>2. Known' + built = Known + built'
      <3>1. CASE ~enabled
        <4>1. UNCHANGED <<C, B, dropped, built>>
          BY <1>2, <3>1 DEF Build, Building
        <4> QED
          BY <1>a, <1>b, <2>1, <4>1
      <3>2. CASE enabled
        <4>1. /\ bpc[b] = "idle" /\ bpc' = [bpc EXCEPT ![b] = "enqueue"]
              /\ bcarry' = [bcarry EXCEPT ![b] = dropped] /\ bcarry[b] = 0
              /\ dropped' = 0 /\ built' = built + 1
          BY <1>2, <3>2 DEF Build, CarryInv
        <4>2. C' = C + 1
          BY <4>1, BuildingStep
        <4>3. B' + bcarry[b] = B + dropped
          <5>1. bcarry \in [Builders -> Nat] /\ bcarry' \in [Builders -> Nat]
            BY DEF TypeOK
          <5>2. bcarry'[b] = dropped /\ \A d \in Builders : d # b => bcarry'[d] = bcarry[d]
            BY <4>1, <5>1
          <5>3. B' + bcarry[b] = B + bcarry'[b]
            BY <5>1, <5>2, SumChange, BuildersAssumption
          <5> QED
            BY <5>2, <5>3
        <4>4. C' \in Nat /\ B' \in Nat
          BY BooksNatNext DEF Books
        <4> HIDE DEF C, Q, B, L, H
        <4>5. B' = B + dropped
          <5>1. bcarry[b] = 0
            BY <4>1
          <5>2. B' + 0 = B + dropped
            BY <4>3, <5>1
          <5> QED
            BY <4>4, <5>2
        <4>6. Known' = sent + (L + (C + 1) + H) + 0 + (Q + (B + dropped) + scarry) + told
          BY <1>b, <2>1, <4>1, <4>2, <4>5
        <4>7. Known' = Known + 1
          BY <1>a, <1>c, <4>6
        <4>8. Known \in Nat
          BY KnownCounts DEF KnownNat
        <4> QED
          BY <1>c, <4>1, <4>7, <4>8
      <3> QED
        BY <3>1, <3>2
    <2> QED
      BY <2>1, <2>2, BalanceKept
  <1>3. ASSUME NEW b \in Builders, Enqueue(b) PROVE DropsAccounted'
    <2>1. UNCHANGED <<H, sent, scarry, told, built, cancelled>>
      BY <1>3 DEF Enqueue, InHand, sendVars, histVars
    <2>2. /\ bpc[b] = "enqueue" /\ bpc' = [bpc EXCEPT ![b] = "idle"]
          /\ bcarry' = [bcarry EXCEPT ![b] = 0]
      BY <1>3 DEF Enqueue
    <2>3. C' = C - 1
      BY <2>2, BuildingStep
    <2>4. B' + bcarry[b] = B
      <3>1. bcarry \in [Builders -> Nat] /\ bcarry' \in [Builders -> Nat]
        BY DEF TypeOK
      <3>2. bcarry'[b] = 0 /\ \A d \in Builders : d # b => bcarry'[d] = bcarry[d]
        BY <2>2, <3>1
      <3>3. B' + bcarry[b] = B + bcarry'[b]
        BY <3>1, <3>2, SumChange, BuildersAssumption
      <3> QED
        BY <1>c, <3>2, <3>3
    <2>5. C' \in Nat /\ B' \in Nat /\ Q' \in Nat
      BY BooksNatNext DEF Books
    <2>6. Known' + built = Known + built'
      <3>1. CASE HasRoom
        <4>1. queue' = Append(queue, bcarry[b]) /\ dropped' = dropped
          BY <1>3, <3>1 DEF Enqueue
        <4>2. L' = L + 1 /\ Q' = Q + bcarry[b]
          <5>1. queue \in Seq(Nat) /\ bcarry[b] \in Nat
            BY DEF TypeOK
          <5>2. L' = L + 1
            BY <4>1, <5>1
          <5>3. Q' = Q + bcarry[b]
            BY <4>1, <5>1, SumAppend
          <5> QED
            BY <5>2, <5>3
        <4> HIDE DEF C, Q, B, L, H
        <4>3. bcarry[b] \in Nat
          BY <1>c
        <4>4. Known' = sent + ((L + 1) + (C - 1) + H) + dropped
                       + ((Q + bcarry[b]) + B' + scarry) + told
          BY <1>b, <2>1, <2>3, <4>1, <4>2
        <4>5. Known = sent + (L + C + H) + dropped + (Q + (B' + bcarry[b]) + scarry) + told
          BY <1>a, <2>4
        <4>6. Known' = Known
          BY <1>c, <2>5, <4>3, <4>4, <4>5
        <4> QED
          BY <2>1, <4>6
      <3>2. CASE ~HasRoom
        <4>1. UNCHANGED <<L, Q>> /\ dropped' = dropped + 1 + bcarry[b]
          BY <1>3, <3>2, <1>c DEF Enqueue, WithCarried
        <4> HIDE DEF C, Q, B, L, H
        <4> QED
          BY <1>a, <1>b, <1>c, <2>1, <2>3, <2>4, <2>5, <4>1
      <3> QED
        BY <3>1, <3>2
    <2> QED
      BY <2>1, <2>6, BalanceKept
  <1>4. CASE Take
    <2>1. UNCHANGED <<C, B, sent, dropped, told, built, cancelled>>
      BY <1>4 DEF Take, Building
    <2>2. H = 0 /\ scarry = 0 /\ H' = 1 /\ scarry' = Head(queue)
      BY <1>4 DEF Take, InHand, CarryInv
    <2>3. L' = L - 1 /\ Q = scarry' + Q' /\ scarry' \in Nat
      <3>1. queue \in Seq(Nat) /\ queue # <<>> /\ queue' = Tail(queue)
        BY <1>4 DEF Take, TypeOK
      <3>2. L' = L - 1 /\ Head(queue) \in Nat
        BY <3>1
      <3>3. Q = Head(queue) + Q'
        BY <3>1, SumTail
      <3> QED
        BY <2>2, <3>2, <3>3
    <2>4. Q' \in Nat
      BY BooksNatNext DEF Books
    <2>5. Known' + built = Known + built'
      <3> HIDE DEF C, Q, B, L, H
      <3> QED
        BY <1>a, <1>b, <1>c, <2>1, <2>2, <2>3, <2>4
    <2> QED
      BY <2>1, <2>5, BalanceKept
  <1>5. CASE Stop \/ PauseOver \/ Post \/ Retry \/ DelayOver
    <2>1. UNCHANGED <<C, Q, B, L, H, sent, dropped, scarry, told, built, cancelled>>
      BY <1>5 DEF Stop, PauseOver, Post, Retry, DelayOver, Building, InHand, histVars
    <2>2. Known' + built = Known + built'
      BY <1>a, <1>b, <2>1
    <2> QED
      BY <2>1, <2>2, BalanceKept
  <1>6. CASE Accepted
    <2>1. UNCHANGED <<C, Q, B, L, dropped, built, cancelled>>
      BY <1>6 DEF Accepted, Building
    <2>2. H = 1 /\ H' = 0 /\ sent' = sent + 1 /\ told' = told + scarry /\ scarry' = 0
      BY <1>6 DEF Accepted, InHand
    <2>3. Known' + built = Known + built'
      <3> HIDE DEF C, Q, B, L, H
      <3> QED
        BY <1>a, <1>b, <1>c, <2>1, <2>2
    <2> QED
      BY <2>1, <2>3, BalanceKept
  <1>7. CASE TooMany \/ Rejected \/ GiveUp \/ DelayCancelled
    <2>1. UNCHANGED <<C, Q, B, L, sent, told, built, cancelled>>
      BY <1>7 DEF TooMany, Rejected, GiveUp, DelayCancelled, Building, histVars
    <2>2. H = 1 /\ H' = 0 /\ dropped' = dropped + (1 + scarry) /\ scarry' = 0
      BY <1>7 DEF TooMany, Rejected, GiveUp, DelayCancelled, Dropped, WithCarried, InHand
    <2>3. Known' + built = Known + built'
      <3> HIDE DEF C, Q, B, L, H
      <3> QED
        BY <1>a, <1>b, <1>c, <2>1, <2>2
    <2> QED
      BY <2>1, <2>3, BalanceKept
  <1>8. CASE PauseCancelled
    <2>1. UNCHANGED <<C, Q, B, L, sent, dropped, told, built, cancelled>> /\ cancelled
      BY <1>8 DEF PauseCancelled, Building, histVars
    <2>2. H = 1 /\ H' = 0 /\ scarry' = 0
      BY <1>8 DEF PauseCancelled, InHand
    <2>3. Known \in Nat /\ Known' \in Nat /\ Known' <= Known
      <3> HIDE DEF C, Q, B, L, H
      <3> QED
        BY <1>a, <1>b, <1>c, <2>1, <2>2
    <2> QED
      BY <1>c, <2>1, <2>3 DEF DropsAccounted, Known
  <1>9. CASE UNCHANGED vars
    <2>1. UNCHANGED <<C, Q, B, L, H, sent, dropped, scarry, told, built, cancelled>>
      BY <1>9 DEF vars, Building, InHand, sendVars, histVars
    <2>2. Known' + built = Known + built'
      BY <1>a, <1>b, <2>1
    <2> QED
      BY <2>1, <2>2, BalanceKept
  <1> QED
    BY <1>1, <1>2, <1>3, <1>4, <1>5, <1>6, <1>7, <1>8, <1>9 DEF Next, Sender

LEMMA InitIInv == Init => IInv
  <1> SUFFICES ASSUME Init PROVE IInv
    OBVIOUS
  <1>1. TypeOK
    BY TypeInit
  <1>2. CarryInv /\ PauseInv
    BY DEF Init, CarryInv, PauseInv, InHand
  <1>3. PostsInv
    <2>1. Quota(0) \in Nat
      BY QuotaNext
    <2> QED
      BY <2>1 DEF Init, PostsInv, InHand
  <1>4. DropsAccounted
    <2>1. SumOf(queue) = 0
      <3>1. queue \in [{} -> Nat]
        BY DEF Init
      <3> QED
        BY <3>1, SumZero
    <2>2. SumOf(bcarry) = 0
      BY SumZero DEF Init
    <2>3. Cardinality({b \in Builders : bpc[b] = "enqueue"}) = 0
      <3>1. {b \in Builders : bpc[b] = "enqueue"} = {}
        BY DEF Init
      <3> QED
        BY <3>1, FS_EmptySet
    <2> QED
      BY <2>1, <2>2, <2>3 DEF Init, DropsAccounted, Reports, Announced
  <1> QED
    BY <1>1, <1>2, <1>3, <1>4 DEF IInv

\* The inductive invariant of the emitter.
THEOREM EmitterInvariance == Spec => []IInv
  <1>1. IInv /\ [Next]_vars => IInv'
    BY TypeStep, CarryStep, PostsStep, PauseStep, BooksStep DEF IInv
  <1> QED
    BY InitIInv, <1>1, PTL DEF Spec

\* For any number of builders, any queue and any number of retries: no lost report goes
\* unannounced but for one that Close interrupts, and none is posted more often than the
\* retries allow (build, enqueue, send, deliver).
THEOREM BooksBalance == Spec => []Accounted
  <1>1. IInv => Accounted
    <2> SUFFICES ASSUME IInv PROVE AttemptsBounded
      BY DEF IInv, Accounted
    <2>1. /\ Quota(taken) \in Nat /\ attempts \in Nat /\ attempt \in 0 .. Retries
          /\ spc \in {"idle", "pause", "post", "wait", "delay", "off"}
      BY QuotaNext DEF IInv, TypeOK
    <2>2. attempts <= Quota(taken)
      BY <2>1 DEF IInv, PostsInv, InHand
    <2> QED
      BY <2>2 DEF AttemptsBounded, Quota
  <1> QED
    BY EmitterInvariance, <1>1, PTL

\* A request leaves only after the pause the server asked for, the retries of a report
\* included (send, deliver).
THEOREM PausesKept == Spec => PauseHonoured
  <1>1. IInv /\ [Next]_vars => [attempts' > attempts => now >= pauseUntil]_vars
    <2> SUFFICES ASSUME IInv, Next, attempts' > attempts PROVE now >= pauseUntil
      OBVIOUS
    <2>1. ~(attempts > attempts)
      BY DEF IInv, TypeOK
    <2>2. spc = "post"
      BY <2>1 DEF Next, Sender, Configure, Cancel, Tick, Build, Enqueue, Take, Stop, PauseOver,
         PauseCancelled, Post, Accepted, TooMany, Rejected, GiveUp, Retry, DelayOver,
         DelayCancelled
    <2> QED
      BY <2>2 DEF IInv, PauseInv
  <1> QED
    BY EmitterInvariance, <1>1, PTL DEF Spec, PauseHonoured

----------------------------------------------------------------------------
\* The statistics of the Map.
HIDE SizesAssumption
HIDE BoundsAssumption
HIDE CounterSizesAssumption
HIDE OpsAssumption

\* What the proofs need of the histogram's constants.
HistogramSizes == /\ IsFiniteSet(Drainers)
                  /\ NumBuckets \in Nat \ {0} /\ MaxDrains \in Nat /\ MaxScrapes \in Nat

Buckets == 0 .. NumBuckets - 1

\* A drain has nothing of the buckets it has not swapped, and holds one back only while it
\* is at one.
DrainInv ==
    \A w \in Drainers :
        /\ adding[w] => dpos[w] \in Buckets
        /\ \A i \in Buckets : dpos[w] < i \/ (dpos[w] = i /\ ~adding[w]) => c[w][i] = 0

\* What an exporter has read is in the histogram; while no drain runs it is all there was.
ScrapeInv ==
    /\ quiet => Latency!NoDrain
    /\ \A i \in Buckets : base[i] <= recorded[i]
    /\ loaded # -1 => spos \in Buckets /\ loaded <= total[spos]
    /\ quiet /\ loaded # -1 => loaded = total[spos]

HistogramInv == /\ Latency!TypeOK /\ DrainInv /\ Latency!ReportedOnce
                /\ Latency!CumulativeExact /\ ScrapeInv /\ Latency!ScrapeSound

\* What a drain has taken of bucket i, and whether total lacks it.
Taken(i) == [w \in Drainers |-> c[w][i]]
Lacking(i) == [w \in Drainers |-> IF adding[w] /\ dpos[w] = i THEN c[w][i] ELSE 0]

\* The sums of the instance are those of Totals.
LEMMA SameSums == \A f : Latency!SumOf(f) = SumOf(f)
  <1> SUFFICES ASSUME NEW f PROVE Latency!SumOf(f) = SumOf(f)
    OBVIOUS
  <1>1. \A x, n : Latency!Column(x, n) = Column(x, n)
    BY DEF Latency!Column, Column
  <1>2. {Latency!Column(x, f[x]) : x \in DOMAIN f} = {Column(x, f[x]) : x \in DOMAIN f}
    BY <1>1
  <1>3. Latency!Units(f) = Units(f)
    BY <1>2 DEF Latency!Units, Units
  <1>4. \A S : Latency!Cardinality(S) = Cardinality(S)
    BY DEF Latency!Cardinality, Cardinality
  <1> QED
    BY <1>3, <1>4 DEF Latency!SumOf, SumOf

LEMMA HandSums ==
    ASSUME HistogramSizes, Latency!TypeOK, NEW i \in Buckets
    PROVE  /\ Taken(i) \in [Drainers -> Nat] /\ Lacking(i) \in [Drainers -> Nat]
           /\ Latency!InHand(i) = SumOf(Taken(i)) /\ Latency!NotAdded(i) = SumOf(Lacking(i))
           /\ Latency!InHand(i) \in Nat /\ Latency!NotAdded(i) \in Nat
  <1>1. \A w \in Drainers : c[w][i] \in Nat
    BY DEF Latency!TypeOK, Latency!Counters, Latency!Index, Buckets
  <1>2. Taken(i) \in [Drainers -> Nat] /\ Lacking(i) \in [Drainers -> Nat]
    BY <1>1 DEF Taken, Lacking
  <1>3. Latency!InHand(i) = SumOf(Taken(i)) /\ Latency!NotAdded(i) = SumOf(Lacking(i))
    BY SameSums DEF Latency!InHand, Latency!NotAdded, Taken, Lacking
  <1> QED
    BY <1>2, <1>3, SumNat DEF HistogramSizes

\* The type invariant in parts: the counters, the drains, the exporter, the true latencies.
CountersOK ==
    /\ counts \in [Buckets -> Nat] /\ total \in [Buckets -> Nat]
    /\ recorded \in [Buckets -> Nat] /\ drained \in [Buckets -> Nat]
DrainsOK ==
    /\ dpos \in [Drainers -> -1 .. NumBuckets] /\ adding \in [Drainers -> BOOLEAN]
    /\ c \in [Drainers -> [Buckets -> Nat]]
    /\ drains \in 0 .. MaxDrains
ScrapeOK ==
    /\ seen \in [Buckets -> Nat] /\ base \in [Buckets -> Nat]
    /\ spos \in {-1} \cup Buckets /\ loaded \in Nat \cup {-1}
    /\ scrapes \in 0 .. MaxScrapes /\ quiet \in BOOLEAN
LatenciesOK ==
    /\ held \in [Latency!Latencies -> Nat]
    /\ moved \in [Drainers -> [Latency!Latencies -> Nat]]

LEMMA HistogramType ==
    /\ Latency!TypeOK <=> CountersOK /\ DrainsOK /\ ScrapeOK /\ LatenciesOK
    /\ Latency!TypeOK' <=> CountersOK' /\ DrainsOK' /\ ScrapeOK' /\ LatenciesOK'
  BY DEF Latency!TypeOK, Latency!Counters, Latency!Index, Buckets, CountersOK, DrainsOK,
     ScrapeOK, LatenciesOK

LEMMA OneMore ==
    ASSUME NEW S, NEW f \in [S -> Nat], NEW x
    PROVE  [f EXCEPT ![x] = @ + 1] \in [S -> Nat]
  <1>1. \A y \in S : f[y] + 1 \in Nat
    OBVIOUS
  <1> QED
    BY <1>1

LEMMA CountersStep ==
    HistogramSizes /\ Latency!TypeOK /\ [Latency!Next]_(Latency!vars) => CountersOK'
  <1> SUFFICES ASSUME HistogramSizes, Latency!TypeOK, [Latency!Next]_(Latency!vars)
               PROVE  CountersOK'
    OBVIOUS
  <1> CountersOK /\ DrainsOK
    BY HistogramType
  <1> USE DEF CountersOK
  <1>1. ASSUME NEW d \in Durations, Latency!Record(d) PROVE CountersOK'
    <2>1. /\ counts' = [counts EXCEPT ![Latency!BucketOf(Latency!Ns(d))] = @ + 1]
          /\ recorded' = [recorded EXCEPT ![Latency!BucketOf(Latency!Ns(d))] = @ + 1]
          /\ UNCHANGED <<total, drained>>
      BY <1>1 DEF Latency!Record, Latency!drainVars
    <2> QED
      BY <2>1, OneMore
  <1>2. ASSUME NEW w \in Drainers, Latency!SwapBucket(w) PROVE CountersOK'
    BY <1>2 DEF Latency!SwapBucket, Latency!LeftSwapped
  <1>3. ASSUME NEW w \in Drainers, Latency!KeepBucket(w) PROVE CountersOK'
    <2>1. \A i \in Buckets : total[i] + c[w][i] \in Nat
      BY DEF DrainsOK
    <2>2. PICK k : total' = [total EXCEPT ![k] = total[k] + c[w][k]]
      BY <1>3 DEF Latency!KeepBucket, Latency!AddTotal
    <2>3. total' \in [Buckets -> Nat]
      BY <2>1, <2>2
    <2> QED
      BY <1>3, <2>3 DEF Latency!KeepBucket
  <1>4. ASSUME NEW w \in Drainers, Latency!DrainEnd(w) PROVE CountersOK'
    <2>1. \A i \in Buckets : drained[i] + c[w][i] \in Nat
      BY DEF DrainsOK
    <2>2. drained' = [i \in Buckets |-> drained[i] + c[w][i]]
      BY <1>4 DEF Latency!DrainEnd, Latency!Index, Buckets
    <2> QED
      BY <1>4, <2>1, <2>2 DEF Latency!DrainEnd
  <1>5. ASSUME \/ \E w \in Drainers : Latency!DrainBegin(w)
               \/ Latency!ScrapeBegin \/ Latency!LoadFirst \/ Latency!LoadSecond
               \/ UNCHANGED Latency!vars
        PROVE  CountersOK'
    BY <1>5 DEF Latency!DrainBegin, Latency!ScrapeBegin, Latency!LoadFirst,
       Latency!LoadSecond,
       Latency!drainVars, Latency!vars
  <1> QED
    BY <1>1, <1>2, <1>3, <1>4, <1>5 DEF Latency!Next

LEMMA DrainsStep ==
    HistogramSizes /\ Latency!TypeOK /\ DrainInv /\ [Latency!Next]_(Latency!vars) => DrainsOK'
  <1> SUFFICES ASSUME HistogramSizes, Latency!TypeOK, DrainInv, [Latency!Next]_(Latency!vars)
               PROVE  DrainsOK'
    OBVIOUS
  <1> CountersOK /\ DrainsOK
    BY HistogramType
  <1> USE DEF DrainsOK
  <1>1. ASSUME NEW w \in Drainers, Latency!DrainBegin(w) PROVE DrainsOK'
    BY <1>1 DEF Latency!DrainBegin, HistogramSizes
  <1>2. ASSUME NEW w \in Drainers, Latency!SwapBucket(w) PROVE DrainsOK'
    <2>1. dpos[w] \in Buckets /\ counts[dpos[w]] \in Nat
      BY <1>2 DEF Latency!SwapBucket, Latency!Index, Buckets, CountersOK
    <2>2. c' \in [Drainers -> [Buckets -> Nat]]
      BY <1>2, <2>1 DEF Latency!SwapBucket
    <2>3. dpos' \in [Drainers -> -1 .. NumBuckets]
      <3>1. dpos[w] + 1 \in -1 .. NumBuckets
        BY <2>1 DEF Buckets, HistogramSizes
      <3>2. dpos' = dpos \/ dpos' = [dpos EXCEPT ![w] = dpos[w] + 1]
        BY <1>2 DEF Latency!SwapBucket
      <3> QED
        BY <3>1, <3>2
    <2>4. adding' \in [Drainers -> BOOLEAN] /\ drains' = drains
      BY <1>2 DEF Latency!SwapBucket
    <2> QED
      BY <2>2, <2>3, <2>4
  <1>3. ASSUME NEW w \in Drainers, Latency!KeepBucket(w) PROVE DrainsOK'
    <2>1. dpos[w] \in Buckets
      BY <1>3 DEF Latency!KeepBucket, DrainInv
    <2>2. dpos' \in [Drainers -> -1 .. NumBuckets]
      BY <1>3, <2>1 DEF Latency!KeepBucket, Buckets, HistogramSizes
    <2> QED
      BY <1>3, <2>2 DEF Latency!KeepBucket
  <1>4. ASSUME NEW w \in Drainers, Latency!DrainEnd(w) PROVE DrainsOK'
    <2>1. Latency!Zero \in [Buckets -> Nat]
      BY DEF Latency!Zero, Latency!Index, Buckets
    <2>2. dpos' \in [Drainers -> -1 .. NumBuckets]
      BY <1>4 DEF Latency!DrainEnd, HistogramSizes
    <2> QED
      BY <1>4, <2>1, <2>2 DEF Latency!DrainEnd
  <1>5. ASSUME \/ \E d \in Durations : Latency!Record(d)
               \/ Latency!ScrapeBegin \/ Latency!LoadFirst \/ Latency!LoadSecond
               \/ UNCHANGED Latency!vars
        PROVE  DrainsOK'
    BY <1>5 DEF Latency!Record, Latency!ScrapeBegin, Latency!LoadFirst, Latency!LoadSecond,
       Latency!drainVars, Latency!vars
  <1> QED
    BY <1>1, <1>2, <1>3, <1>4, <1>5 DEF Latency!Next

LEMMA ScrapeTypeStep ==
    HistogramSizes /\ Latency!TypeOK /\ [Latency!Next]_(Latency!vars) => ScrapeOK'
  <1> SUFFICES ASSUME HistogramSizes, Latency!TypeOK, [Latency!Next]_(Latency!vars)
               PROVE  ScrapeOK'
    OBVIOUS
  <1> CountersOK /\ ScrapeOK
    BY HistogramType
  <1> USE DEF ScrapeOK
  <1>1. CASE Latency!ScrapeBegin
    <2>1. quiet' \in BOOLEAN
      BY <1>1 DEF Latency!ScrapeBegin, Latency!NoDrain
    <2>2. spos' \in {-1} \cup Buckets /\ scrapes' \in 0 .. MaxScrapes
      BY <1>1 DEF Latency!ScrapeBegin, Buckets, HistogramSizes
    <2> QED
      BY <1>1, <2>1, <2>2 DEF Latency!ScrapeBegin, CountersOK
  <1>2. CASE Latency!LoadFirst
    <2>1. loaded' \in Nat
      BY <1>2 DEF Latency!LoadFirst, Latency!TotalThenCounts, Latency!Index, Buckets,
         CountersOK
    <2> QED
      BY <1>2, <2>1 DEF Latency!LoadFirst
  <1>3. CASE Latency!LoadSecond
    <2>1. spos \in Buckets /\ loaded \in Nat /\ counts[spos] \in Nat
      BY <1>3 DEF Latency!LoadSecond, Latency!Index, Buckets, CountersOK
    <2>2. seen' = [seen EXCEPT ![spos] = loaded + counts[spos]]
      BY <1>3 DEF Latency!LoadSecond, Latency!TotalThenCounts
    <2>3. seen' \in [Buckets -> Nat]
      BY <2>1, <2>2
    <2>4. spos' \in {-1} \cup Buckets
      BY <1>3, <2>1 DEF Latency!LoadSecond, Buckets, HistogramSizes
    <2> QED
      BY <1>3, <2>3, <2>4 DEF Latency!LoadSecond
  <1>4. ASSUME \/ \E d \in Durations : Latency!Record(d)
               \/ \E w \in Drainers : \/ Latency!DrainBegin(w) \/ Latency!SwapBucket(w)
                                      \/ Latency!KeepBucket(w) \/ Latency!DrainEnd(w)
               \/ UNCHANGED Latency!vars
        PROVE  ScrapeOK'
    BY <1>4 DEF Latency!Record, Latency!DrainBegin, Latency!SwapBucket, Latency!KeepBucket,
       Latency!DrainEnd, Latency!scrapeVars, Latency!vars
  <1> QED
    BY <1>1, <1>2, <1>3, <1>4 DEF Latency!Next

LEMMA LatenciesStep ==
    Latency!TypeOK /\ [Latency!Next]_(Latency!vars) => LatenciesOK'
  <1> SUFFICES ASSUME Latency!TypeOK, [Latency!Next]_(Latency!vars) PROVE LatenciesOK'
    OBVIOUS
  <1> LatenciesOK
    BY HistogramType
  <1> USE DEF LatenciesOK
  <1>1. ASSUME NEW d \in Durations, Latency!Record(d) PROVE LatenciesOK'
    <2>1. held' = [held EXCEPT ![Latency!Ns(d)] = @ + 1] /\ moved' = moved
      BY <1>1 DEF Latency!Record, Latency!drainVars
    <2> QED
      BY <2>1, OneMore
  <1>2. ASSUME NEW w \in Drainers, Latency!SwapBucket(w) PROVE LatenciesOK'
    BY <1>2 DEF Latency!SwapBucket
  <1>3. ASSUME NEW w \in Drainers, Latency!DrainEnd(w) PROVE LatenciesOK'
    BY <1>3 DEF Latency!DrainEnd, Latency!NoLatency
  <1>4. ASSUME \/ \E w \in Drainers : Latency!DrainBegin(w) \/ Latency!KeepBucket(w)
               \/ Latency!ScrapeBegin \/ Latency!LoadFirst \/ Latency!LoadSecond
               \/ UNCHANGED Latency!vars
        PROVE  LatenciesOK'
    BY <1>4 DEF Latency!DrainBegin, Latency!KeepBucket, Latency!ScrapeBegin,
       Latency!LoadFirst,
       Latency!LoadSecond, Latency!drainVars, Latency!vars
  <1> QED
    BY <1>1, <1>2, <1>3, <1>4 DEF Latency!Next

LEMMA DrainInvStep ==
    Latency!TypeOK /\ HistogramSizes /\ DrainInv /\ [Latency!Next]_(Latency!vars) => DrainInv'
  <1> SUFFICES ASSUME Latency!TypeOK, HistogramSizes, DrainInv, [Latency!Next]_(Latency!vars),
                      NEW w \in Drainers
               PROVE  (/\ adding[w] => dpos[w] \in Buckets
                       /\ \A i \in Buckets : dpos[w] < i \/ (dpos[w] = i /\ ~adding[w])
                                                => c[w][i] = 0)'
    BY DEF DrainInv
  <1> CountersOK /\ DrainsOK
    BY HistogramType
  <1>1. /\ adding[w] => dpos[w] \in Buckets
        /\ \A i \in Buckets : dpos[w] < i \/ (dpos[w] = i /\ ~adding[w]) => c[w][i] = 0
        /\ dpos[w] \in -1 .. NumBuckets
    BY DEF DrainInv, DrainsOK
  <1>2. ASSUME dpos'[w] = dpos[w], adding'[w] = adding[w], c'[w] = c[w]
        PROVE  (/\ adding[w] => dpos[w] \in Buckets
                /\ \A i \in Buckets : dpos[w] < i \/ (dpos[w] = i /\ ~adding[w])
                                         => c[w][i] = 0)'
    BY <1>1, <1>2
  <1>3. CASE Latency!DrainBegin(w)
    <2>1. /\ dpos[w] = -1 /\ dpos'[w] = 0 /\ adding'[w] = adding[w] /\ c'[w] = c[w]
          /\ ~adding[w]
      BY <1>1, <1>3 DEF Latency!DrainBegin, DrainsOK, Buckets
    <2> QED
      BY <1>1, <2>1 DEF Buckets
  <1>4. CASE Latency!SwapBucket(w)
    <2> DEFINE k == dpos[w]
    <2>1. /\ k \in Buckets /\ ~adding[w]
          /\ c'[w] = [c[w] EXCEPT ![k] = counts[k]]
          /\ \/ dpos'[w] = k /\ adding'[w]
             \/ dpos'[w] = k + 1 /\ ~adding'[w] /\ counts[k] = 0
      BY <1>4 DEF Latency!SwapBucket, Latency!Index, Buckets, DrainsOK
    <2>2. \A i \in Buckets : k < i => c'[w][i] = 0
      <3>1. \A i \in Buckets : i # k => c'[w][i] = c[w][i]
        BY <2>1 DEF DrainsOK
      <3> QED
        BY <1>1, <3>1 DEF Buckets
    <2> QED
      BY <2>1, <2>2 DEF Buckets
  <1>5. CASE Latency!KeepBucket(w)
    <2>1. dpos'[w] = dpos[w] + 1 /\ ~adding'[w] /\ c'[w] = c[w] /\ dpos[w] \in Buckets
      BY <1>1, <1>5 DEF Latency!KeepBucket, DrainsOK
    <2> QED
      BY <1>1, <2>1 DEF Buckets
  <1>6. CASE Latency!DrainEnd(w)
    <2>1. ~adding'[w]
      BY <1>1, <1>6 DEF Latency!DrainEnd, Buckets, HistogramSizes
    <2>2. c'[w] = Latency!Zero
      BY <1>6 DEF Latency!DrainEnd, DrainsOK
    <2> QED
      BY <2>1, <2>2 DEF Latency!Zero, Latency!Index, Buckets
  <1>7. ASSUME NEW v \in Drainers, v # w,
               \/ Latency!DrainBegin(v) \/ Latency!SwapBucket(v)
               \/ Latency!KeepBucket(v) \/ Latency!DrainEnd(v)
        PROVE  dpos'[w] = dpos[w] /\ adding'[w] = adding[w] /\ c'[w] = c[w]
    BY <1>7 DEF Latency!DrainBegin, Latency!SwapBucket, Latency!KeepBucket,
       Latency!DrainEnd,
       DrainsOK
  <1>8. ASSUME \/ \E d \in Durations : Latency!Record(d)
               \/ Latency!ScrapeBegin \/ Latency!LoadFirst \/ Latency!LoadSecond
               \/ UNCHANGED Latency!vars
        PROVE  dpos'[w] = dpos[w] /\ adding'[w] = adding[w] /\ c'[w] = c[w]
    BY <1>8 DEF Latency!Record, Latency!ScrapeBegin, Latency!LoadFirst, Latency!LoadSecond,
       Latency!drainVars, Latency!vars
  <1> QED
    BY <1>2, <1>3, <1>4, <1>5, <1>6, <1>7, <1>8 DEF Latency!Next

\* A sum of which one value changes: to the same, to 0, or from 0.
LEMMA SumMoves ==
    ASSUME NEW S, IsFiniteSet(S), NEW f \in [S -> Nat], NEW g \in [S -> Nat], NEW x \in S,
           \A y \in S : y # x => g[y] = f[y]
    PROVE  /\ g[x] = f[x] => SumOf(g) = SumOf(f)
           /\ g[x] = 0 => SumOf(f) = SumOf(g) + f[x]
           /\ f[x] = 0 => SumOf(g) = SumOf(f) + g[x]
  <1>1. SumOf(f) \in Nat /\ SumOf(g) \in Nat /\ f[x] \in Nat /\ g[x] \in Nat
    BY SumNat
  <1>2. SumOf(g) + f[x] = SumOf(f) + g[x]
    BY SumChange
  <1> QED
    BY <1>1, <1>2

\* A step of one drain changes the two sums by what it changes of that drain's values.
SumMoved(sum, sumNext, value, valueNext) ==
    /\ valueNext = value => sumNext = sum
    /\ valueNext = 0 => sum = sumNext + value
    /\ value = 0 => sumNext = sum + valueNext

LEMMA HandSumsNext ==
    ASSUME HistogramSizes, Latency!TypeOK, Latency!TypeOK', NEW i \in Buckets,
           NEW w \in Drainers, \A v \in Drainers : v # w => UNCHANGED <<c[v], dpos[v], adding[v]>>
    PROVE  /\ Latency!InHand(i)' \in Nat /\ Latency!NotAdded(i)' \in Nat
           /\ SumMoved(Latency!InHand(i), Latency!InHand(i)', Taken(i)[w], Taken(i)'[w])
           /\ SumMoved(Latency!NotAdded(i), Latency!NotAdded(i)', Lacking(i)[w], Lacking(i)'[w])
  <1>1. /\ Taken(i) \in [Drainers -> Nat] /\ Lacking(i) \in [Drainers -> Nat]
        /\ Latency!InHand(i) = SumOf(Taken(i)) /\ Latency!NotAdded(i) = SumOf(Lacking(i))
    BY HandSums
  <1>2. \A v \in Drainers : c'[v][i] \in Nat
    BY HistogramType DEF DrainsOK
  <1>3. Taken(i)' \in [Drainers -> Nat] /\ Lacking(i)' \in [Drainers -> Nat]
    BY <1>2 DEF Taken, Lacking
  <1>4. Latency!InHand(i)' = SumOf(Taken(i)') /\ Latency!NotAdded(i)' = SumOf(Lacking(i)')
    BY SameSums DEF Latency!InHand, Latency!NotAdded, Taken, Lacking
  <1>5. \A v \in Drainers : v # w => Taken(i)'[v] = Taken(i)[v] /\ Lacking(i)'[v] = Lacking(i)[v]
    BY DEF Taken, Lacking
  <1>6. SumOf(Taken(i)') \in Nat /\ SumOf(Lacking(i)') \in Nat
    BY <1>3, SumNat DEF HistogramSizes
  <1>7. SumMoved(SumOf(Taken(i)), SumOf(Taken(i)'), Taken(i)[w], Taken(i)'[w])
    BY <1>1, <1>3, <1>5, SumMoves DEF HistogramSizes, SumMoved
  <1>8. SumMoved(SumOf(Lacking(i)), SumOf(Lacking(i)'), Lacking(i)[w], Lacking(i)'[w])
    BY <1>1, <1>3, <1>5, SumMoves DEF HistogramSizes, SumMoved
  <1> QED
    BY <1>1, <1>4, <1>6, <1>7, <1>8

LEMMA HandSumsKept ==
    ASSUME NEW i, UNCHANGED <<c, dpos, adding>>
    PROVE  /\ Latency!InHand(i)' = Latency!InHand(i)
           /\ Latency!NotAdded(i)' = Latency!NotAdded(i)
  BY DEF Latency!InHand, Latency!NotAdded

\* Every sample is in one place before and after each step.
Everywhere(i) == /\ drained[i] + Latency!InHand(i) + counts[i] = recorded[i]
                 /\ total[i] + counts[i] + Latency!NotAdded(i) = recorded[i]

LEMMA SamplesKept ==
    ASSUME HistogramSizes, Latency!TypeOK, Latency!TypeOK', DrainInv,
           [Latency!Next]_(Latency!vars), NEW i \in Buckets, Everywhere(i)
    PROVE  Everywhere(i)'
  <1> CountersOK /\ DrainsOK /\ CountersOK' /\ DrainsOK'
    BY HistogramType
  <1>1. /\ counts[i] \in Nat /\ total[i] \in Nat /\ recorded[i] \in Nat /\ drained[i] \in Nat
        /\ Latency!InHand(i) \in Nat /\ Latency!NotAdded(i) \in Nat
    BY HandSums DEF CountersOK
  <1>2. ASSUME NEW d \in Durations, Latency!Record(d) PROVE Everywhere(i)'
    <2>1. /\ UNCHANGED <<c, dpos, adding, drained, total>>
          /\ counts' = [counts EXCEPT ![Latency!BucketOf(Latency!Ns(d))] = @ + 1]
          /\ recorded' = [recorded EXCEPT ![Latency!BucketOf(Latency!Ns(d))] = @ + 1]
      BY <1>2 DEF Latency!Record, Latency!drainVars
    <2>2. \/ counts'[i] = counts[i] + 1 /\ recorded'[i] = recorded[i] + 1
          \/ counts'[i] = counts[i] /\ recorded'[i] = recorded[i]
      BY <2>1 DEF CountersOK
    <2> QED
      BY <1>1, <2>1, <2>2, HandSumsKept DEF Everywhere
  <1>3. ASSUME NEW w \in Drainers,
               \/ Latency!DrainBegin(w) \/ Latency!SwapBucket(w)
               \/ Latency!KeepBucket(w) \/ Latency!DrainEnd(w)
        PROVE  Everywhere(i)'
    <2> DEFINE D == Latency!InHand(i)
               N == Latency!NotAdded(i)
               t == Taken(i)[w]
               l == Lacking(i)[w]
    <2>1. \A v \in Drainers : v # w => UNCHANGED <<c[v], dpos[v], adding[v]>>
      BY <1>3 DEF Latency!DrainBegin, Latency!SwapBucket, Latency!KeepBucket,
         Latency!DrainEnd,
         DrainsOK
    <2>2. /\ t = c[w][i] /\ t' = c'[w][i] /\ t \in Nat /\ t' \in Nat
          /\ l = (IF adding[w] /\ dpos[w] = i THEN t ELSE 0)
          /\ l' = IF adding'[w] /\ dpos'[w] = i THEN t' ELSE 0
      BY DEF Taken, Lacking, DrainsOK
    <2>3. /\ D \in Nat /\ N \in Nat /\ D' \in Nat /\ N' \in Nat
          /\ t \in Nat /\ t' \in Nat /\ l \in Nat /\ l' \in Nat
          /\ SumMoved(D, D', t, t') /\ SumMoved(N, N', l, l')
      BY <1>1, <2>1, <2>2, HandSumsNext
    <2>4. /\ adding[w] => dpos[w] \in Buckets
          /\ dpos[w] < i \/ (dpos[w] = i /\ ~adding[w]) => t = 0
          /\ dpos[w] \in -1 .. NumBuckets
      BY <2>2 DEF DrainInv, DrainsOK
    <2>5. UNCHANGED recorded
      BY <1>3 DEF Latency!DrainBegin, Latency!SwapBucket, Latency!KeepBucket,
         Latency!DrainEnd
    <2>6. ASSUME drained'[i] + D' + counts'[i] = recorded[i],
                 total'[i] + counts'[i] + N' = recorded[i]
          PROVE  Everywhere(i)'
      BY <2>5, <2>6 DEF Everywhere
    <2>7. drained[i] + D + counts[i] = recorded[i] /\ total[i] + counts[i] + N = recorded[i]
      BY DEF Everywhere
    <2>8. CASE Latency!DrainBegin(w)
      <3>1. /\ counts'[i] = counts[i] /\ total'[i] = total[i] /\ drained'[i] = drained[i]
            /\ t' = t /\ l' = l
        BY <1>1, <2>2, <2>4, <2>8 DEF Latency!DrainBegin, Buckets
      <3>2. D' = D /\ N' = N
        BY <2>3, <3>1 DEF SumMoved
      <3> QED
        BY <2>6, <2>7, <3>1, <3>2
    <2>9. CASE Latency!SwapBucket(w)
      <3>1. /\ dpos[w] \in Buckets /\ ~adding[w] /\ UNCHANGED <<total, drained>>
            /\ c'[w] = [c[w] EXCEPT ![dpos[w]] = counts[dpos[w]]]
            /\ counts' = [counts EXCEPT ![dpos[w]] = 0]
        BY <2>9 DEF Latency!SwapBucket, Latency!LeftSwapped, Latency!Index, Buckets, DrainsOK
      <3>2. l = 0
        BY <2>2, <3>1
      <3>3. CASE i = dpos[w]
        <4>1. t = 0 /\ t' = counts[i] /\ counts'[i] = 0
          BY <2>2, <2>4, <3>1, <3>3 DEF CountersOK, DrainsOK
        <4>2. l' = counts[i]
          <5>1. \/ adding'[w] /\ dpos'[w] = i
                \/ counts[i] = 0
            BY <2>9, <3>3 DEF Latency!SwapBucket, DrainsOK
          <5> QED
            BY <2>2, <4>1, <5>1
        <4>3. D' = D + counts[i] /\ N' = N + counts[i]
          BY <2>3, <3>2, <4>1, <4>2 DEF SumMoved
        <4> HIDE DEF D, N
        <4> QED
          BY <1>1, <2>3, <2>6, <2>7, <3>1, <4>1, <4>3
      <3>4. CASE i # dpos[w]
        <4>1. t' = t /\ counts'[i] = counts[i]
          BY <2>2, <3>1, <3>4 DEF CountersOK, DrainsOK
        <4>2. l' = l
          <5>1. adding'[w] => dpos'[w] = dpos[w]
            BY <2>9, <3>1 DEF Latency!SwapBucket, DrainsOK
          <5> QED
            BY <2>2, <3>2, <3>4, <5>1
        <4>3. D' = D /\ N' = N
          BY <2>3, <4>1, <4>2 DEF SumMoved
        <4> QED
          BY <2>6, <2>7, <3>1, <4>1, <4>3
      <3> QED
        BY <3>3, <3>4
    <2>10. CASE Latency!KeepBucket(w)
      <3>1. /\ adding[w] /\ ~adding'[w] /\ dpos[w] \in Buckets
            /\ UNCHANGED <<counts, drained, c>>
            /\ total' = [total EXCEPT ![dpos[w]] = @ + c[w][dpos[w]]]
        BY <2>4, <2>10 DEF Latency!KeepBucket, Latency!AddTotal, DrainsOK
      <3>2. t' = t /\ l' = 0 /\ total'[i] = total[i] + l
        BY <1>1, <2>2, <3>1 DEF CountersOK
      <3>3. D' = D /\ N = N' + l
        BY <2>3, <3>2 DEF SumMoved
      <3> HIDE DEF D, N, t, l
      <3> QED
        BY <1>1, <2>3, <2>6, <2>7, <3>1, <3>2, <3>3
    <2>11. CASE Latency!DrainEnd(w)
      <3>1. /\ dpos[w] = NumBuckets /\ ~adding[w] /\ ~adding'[w]
            /\ counts'[i] = counts[i] /\ total'[i] = total[i]
            /\ c'[w] = Latency!Zero /\ drained'[i] = drained[i] + t
        BY <2>2, <2>4, <2>11
           DEF Latency!DrainEnd, Latency!Index, Buckets, DrainsOK, HistogramSizes
      <3>2. t' = 0 /\ l' = l
        BY <2>2, <3>1 DEF Latency!Zero, Latency!Index, Buckets
      <3>3. D = D' + t /\ N' = N
        BY <2>3, <3>2 DEF SumMoved
      <3> HIDE DEF D, N, t, l
      <3> QED
        BY <1>1, <2>3, <2>6, <2>7, <3>1, <3>3
    <2> QED
      BY <1>3, <2>8, <2>9, <2>10, <2>11
  <1>4. ASSUME \/ Latency!ScrapeBegin \/ Latency!LoadFirst \/ Latency!LoadSecond
               \/ UNCHANGED Latency!vars
        PROVE  Everywhere(i)'
    <2>1. UNCHANGED <<c, dpos, adding, counts, total, recorded, drained>>
      BY <1>4 DEF Latency!ScrapeBegin, Latency!LoadFirst, Latency!LoadSecond,
         Latency!drainVars, Latency!vars
    <2> QED
      BY <2>1, HandSumsKept DEF Everywhere
  <1> QED
    BY <1>2, <1>3, <1>4 DEF Latency!Next

\* What the two arrays hold together: never too much, and all of it while no drain runs.
LEMMA Together ==
    ASSUME HistogramSizes, Latency!TypeOK, DrainInv, Latency!CumulativeExact, NEW i \in Buckets
    PROVE  /\ total[i] + counts[i] <= recorded[i]
           /\ Latency!NoDrain => total[i] + counts[i] = recorded[i]
  <1>1. /\ Latency!NotAdded(i) \in Nat /\ Latency!NotAdded(i) = SumOf(Lacking(i))
        /\ Lacking(i) \in [Drainers -> Nat]
    BY HandSums
  <1>2. total[i] \in Nat /\ counts[i] \in Nat /\ recorded[i] \in Nat
    BY HistogramType DEF CountersOK
  <1>3. total[i] + counts[i] + Latency!NotAdded(i) = recorded[i]
    BY DEF Latency!CumulativeExact, Latency!Index, Buckets
  <1>4. ASSUME Latency!NoDrain PROVE Latency!NotAdded(i) = 0
    <2>1. \A w \in Drainers : ~adding[w]
      BY <1>4 DEF Latency!NoDrain, DrainInv, Buckets, HistogramSizes
    <2>2. \A w \in Drainers : Lacking(i)[w] = 0
      BY <2>1 DEF Lacking
    <2> QED
      BY <1>1, <2>2, SumZero
  <1> QED
    BY <1>1, <1>2, <1>3, <1>4

\* A step that is none of the exporter's: the histogram only grows, and total stands still
\* while the exporter's reading may count as quiet.
LEMMA BesideScrape ==
    ASSUME HistogramSizes, Latency!TypeOK, DrainInv, ScrapeInv,
           \/ \E d \in Durations : Latency!Record(d)
           \/ \E w \in Drainers : \/ Latency!DrainBegin(w) \/ Latency!SwapBucket(w)
                                  \/ Latency!KeepBucket(w) \/ Latency!DrainEnd(w)
           \/ UNCHANGED Latency!vars
    PROVE  /\ UNCHANGED <<spos, loaded, seen, base>>
           /\ \A i \in Buckets : recorded[i] <= recorded'[i] /\ total[i] <= total'[i]
           /\ quiet' => quiet /\ total' = total /\ Latency!NoDrain'
  <1> CountersOK /\ DrainsOK /\ ScrapeOK
    BY HistogramType
  <1> DEFINE Goal == /\ UNCHANGED <<spos, loaded, seen, base>>
                     /\ \A i \in Buckets : recorded[i] <= recorded'[i] /\ total[i] <= total'[i]
                     /\ quiet' => quiet /\ total' = total /\ Latency!NoDrain'
  <1>1. \A i \in Buckets : recorded[i] \in Nat /\ total[i] \in Nat
    BY DEF CountersOK
  <1>2. quiet => \A w \in Drainers : dpos[w] \in {-1, NumBuckets} /\ ~adding[w]
    BY DEF ScrapeInv, Latency!NoDrain, DrainInv, Buckets, HistogramSizes
  <1>3. ASSUME NEW d \in Durations, Latency!Record(d) PROVE Goal
    <2>1. /\ UNCHANGED <<spos, loaded, seen, base, total, quiet, dpos>>
          /\ recorded' = [recorded EXCEPT ![Latency!BucketOf(Latency!Ns(d))] = @ + 1]
      BY <1>3 DEF Latency!Record, Latency!drainVars, Latency!scrapeVars
    <2>2. \A i \in Buckets : recorded'[i] = recorded[i] \/ recorded'[i] = recorded[i] + 1
      BY <2>1 DEF CountersOK
    <2>3. \A i \in Buckets : recorded[i] <= recorded'[i] /\ total[i] <= total'[i]
      BY <1>1, <2>1, <2>2
    <2> QED
      BY <2>1, <2>3 DEF ScrapeInv, Latency!NoDrain
  <1>4. ASSUME NEW w \in Drainers, Latency!KeepBucket(w) PROVE Goal
    <2>1. /\ UNCHANGED <<spos, loaded, seen, base, recorded, quiet>> /\ adding[w]
          /\ total' = [total EXCEPT ![dpos[w]] = @ + c[w][dpos[w]]]
      BY <1>4 DEF Latency!KeepBucket, Latency!AddTotal, Latency!scrapeVars
    <2>2. \A i \in Buckets : c[w][i] \in Nat
      BY DEF DrainsOK
    <2>3. \A i \in Buckets : total'[i] = total[i] \/ total'[i] = total[i] + c[w][i]
      BY <2>1 DEF CountersOK
    <2>4. \A i \in Buckets : recorded[i] <= recorded'[i] /\ total[i] <= total'[i]
      BY <1>1, <2>1, <2>2, <2>3
    <2> QED
      BY <1>2, <2>1, <2>4
  <1>5. ASSUME NEW w \in Drainers,
               Latency!DrainBegin(w) \/ Latency!SwapBucket(w) \/ Latency!DrainEnd(w)
        PROVE  Goal
    <2>1. UNCHANGED <<spos, loaded, seen, base, recorded, total>>
      BY <1>5 DEF Latency!DrainBegin, Latency!SwapBucket, Latency!DrainEnd,
         Latency!scrapeVars
    <2>2. \A i \in Buckets : recorded[i] <= recorded'[i] /\ total[i] <= total'[i]
      BY <1>1, <2>1
    <2>3. quiet' => quiet /\ Latency!NoDrain'
      <3>1. CASE Latency!DrainBegin(w)
        BY <3>1 DEF Latency!DrainBegin
      <3>2. CASE Latency!SwapBucket(w)
        BY <1>2, <3>2 DEF Latency!SwapBucket, Latency!Index, HistogramSizes
      <3>3. CASE Latency!DrainEnd(w)
        BY <1>2, <3>3 DEF Latency!DrainEnd, Latency!NoDrain, DrainsOK
      <3> QED
        BY <1>5, <3>1, <3>2, <3>3
    <2> QED
      BY <2>1, <2>2, <2>3
  <1>6. ASSUME UNCHANGED Latency!vars PROVE Goal
    <2>1. UNCHANGED <<spos, loaded, seen, base, recorded, total, quiet, dpos>>
      BY <1>6 DEF Latency!vars, Latency!drainVars, Latency!scrapeVars
    <2>2. \A i \in Buckets : recorded[i] <= recorded'[i] /\ total[i] <= total'[i]
      BY <1>1, <2>1
    <2> QED
      BY <2>1, <2>2 DEF ScrapeInv, Latency!NoDrain
  <1> QED
    BY <1>3, <1>4, <1>5, <1>6

LEMMA ScrapeStep ==
    ASSUME HistogramSizes, Latency!TypeOK, DrainInv, Latency!CumulativeExact, ScrapeInv,
           Latency!ScrapeSound, [Latency!Next]_(Latency!vars)
    PROVE  ScrapeInv' /\ Latency!ScrapeSound'
  <1> CountersOK /\ DrainsOK /\ ScrapeOK
    BY HistogramType
  <1>1. \A i \in Buckets :
            /\ seen[i] <= recorded[i] /\ base[i] <= recorded[i]
            /\ quiet /\ i < spos => seen[i] >= base[i]
            /\ seen[i] \in Nat /\ base[i] \in Nat /\ recorded[i] \in Nat
            /\ total[i] \in Nat /\ counts[i] \in Nat
    BY DEF Latency!ScrapeSound, ScrapeInv, Latency!Index, Buckets, CountersOK, ScrapeOK
  <1>2. ASSUME \/ \E d \in Durations : Latency!Record(d)
               \/ \E w \in Drainers : \/ Latency!DrainBegin(w) \/ Latency!SwapBucket(w)
                                      \/ Latency!KeepBucket(w) \/ Latency!DrainEnd(w)
               \/ UNCHANGED Latency!vars
        PROVE  ScrapeInv' /\ Latency!ScrapeSound'
    <2>1. /\ UNCHANGED <<spos, loaded, seen, base>>
          /\ \A i \in Buckets : recorded[i] <= recorded'[i] /\ total[i] <= total'[i]
          /\ quiet' => quiet /\ total' = total /\ Latency!NoDrain'
      BY <1>2, BesideScrape
    <2>2. \A i \in Buckets : recorded'[i] \in Nat /\ total'[i] \in Nat
      BY CountersStep, <1>2 DEF CountersOK, Latency!Next
    <2>3. Latency!ScrapeSound'
      BY <1>1, <2>1, <2>2 DEF Latency!ScrapeSound, Latency!Index, Buckets
    <2>4. ScrapeInv'
      BY <1>1, <2>1, <2>2 DEF ScrapeInv, ScrapeOK
    <2> QED
      BY <2>3, <2>4
  <1>3. CASE Latency!ScrapeBegin
    <2>1. /\ base' = recorded /\ spos' = 0 /\ loaded' = -1 /\ quiet' = Latency!NoDrain
          /\ UNCHANGED <<recorded, seen, dpos>>
      BY <1>3 DEF Latency!ScrapeBegin, Latency!drainVars
    <2>2. ScrapeInv'
      BY <1>1, <2>1 DEF ScrapeInv, Latency!NoDrain
    <2> QED
      BY <1>1, <2>1, <2>2 DEF Latency!ScrapeSound, Latency!Index, Buckets
  <1>4. CASE Latency!LoadFirst
    <2>1. /\ spos \in Buckets /\ loaded' = total[spos]
          /\ UNCHANGED <<spos, seen, base, recorded, total, quiet, dpos>>
      BY <1>4 DEF Latency!LoadFirst, Latency!TotalThenCounts, Latency!drainVars,
         Latency!Index,
         Buckets
    <2>2. ScrapeInv'
      BY <1>1, <2>1 DEF ScrapeInv, Latency!NoDrain
    <2> QED
      BY <1>1, <2>1, <2>2 DEF Latency!ScrapeSound, Latency!Index, Buckets
  <1>5. CASE Latency!LoadSecond
    <2>1. /\ spos \in Buckets /\ loaded # -1 /\ loaded' = -1
          /\ seen' = [seen EXCEPT ![spos] = loaded + counts[spos]]
          /\ spos' = spos + 1 \/ spos' = -1
          /\ UNCHANGED <<base, recorded, total, quiet, dpos>>
      BY <1>5 DEF Latency!LoadSecond, Latency!TotalThenCounts, Latency!drainVars,
         Latency!Index,
         Buckets
    <2>2. /\ loaded \in Nat /\ loaded <= total[spos]
          /\ quiet => loaded = total[spos] /\ Latency!NoDrain
      BY <2>1 DEF ScrapeInv, ScrapeOK
    <2>3. /\ loaded + counts[spos] <= recorded[spos]
          /\ quiet => loaded + counts[spos] = recorded[spos]
      BY <1>1, <2>1, <2>2, Together
    <2>4. /\ seen'[spos] = loaded + counts[spos]
          /\ \A i \in Buckets : i # spos => seen'[i] = seen[i]
      BY <2>1 DEF ScrapeOK
    <2>5. ScrapeInv'
      BY <1>1, <2>1 DEF ScrapeInv, Latency!NoDrain
    <2>6. \A i \in Buckets : seen'[i] <= recorded[i]
      BY <1>1, <2>3, <2>4
    <2>7. ASSUME NEW i \in Buckets, quiet, i < spos' PROVE seen'[i] >= base[i]
      <3>1. CASE i = spos
        BY <1>1, <2>1, <2>3, <2>4, <2>7, <3>1
      <3>2. CASE i # spos
        BY <1>1, <2>1, <2>4, <2>7, <3>2 DEF Buckets
      <3> QED
        BY <3>1, <3>2
    <2> QED
      BY <2>1, <2>5, <2>6, <2>7 DEF Latency!ScrapeSound, Latency!Index, Buckets
  <1> QED
    BY <1>2, <1>3, <1>4, <1>5 DEF Latency!Next

LEMMA InitHistogram == HistogramSizes /\ Latency!Init => HistogramInv
  <1> SUFFICES ASSUME HistogramSizes, Latency!Init PROVE HistogramInv
    OBVIOUS
  <1>1. /\ Latency!Zero \in [Buckets -> Nat] /\ \A i \in Buckets : Latency!Zero[i] = 0
    BY DEF Latency!Zero, Latency!Index, Buckets
  <1>2. Latency!TypeOK
    <2>1. CountersOK
      BY <1>1 DEF Latency!Init, CountersOK
    <2>2. DrainsOK
      BY <1>1 DEF Latency!Init, DrainsOK, HistogramSizes
    <2>3. ScrapeOK
      BY <1>1 DEF Latency!Init, ScrapeOK, HistogramSizes
    <2>4. LatenciesOK
      BY DEF Latency!Init, LatenciesOK, Latency!NoLatency
    <2> QED
      BY <2>1, <2>2, <2>3, <2>4, HistogramType
  <1>3. DrainInv
    BY <1>1 DEF Latency!Init, DrainInv
  <1>4. ASSUME NEW i \in Buckets PROVE Everywhere(i)
    <2>1. Taken(i) \in [Drainers -> Nat] /\ Lacking(i) \in [Drainers -> Nat]
      BY <1>2, HandSums
    <2>2. \A w \in Drainers : Taken(i)[w] = 0 /\ Lacking(i)[w] = 0
      BY <1>1 DEF Latency!Init, Taken, Lacking
    <2>3. Latency!InHand(i) = 0 /\ Latency!NotAdded(i) = 0
      BY <1>2, <2>1, <2>2, SumZero, HandSums
    <2> QED
      BY <1>1, <2>3 DEF Latency!Init, Everywhere
  <1>5. Latency!ReportedOnce /\ Latency!CumulativeExact
    BY <1>4 DEF Everywhere, Latency!ReportedOnce, Latency!CumulativeExact, Latency!Index,
       Buckets
  <1>6. ScrapeInv /\ Latency!ScrapeSound
    BY <1>1 DEF Latency!Init, ScrapeInv, Latency!NoDrain, Latency!ScrapeSound,
       Latency!Index,
       Buckets
  <1> QED
    BY <1>2, <1>3, <1>5, <1>6 DEF HistogramInv

LEMMA HistogramStep ==
    HistogramSizes /\ HistogramInv /\ [Latency!Next]_(Latency!vars) => HistogramInv'
  <1> SUFFICES ASSUME HistogramSizes, HistogramInv, [Latency!Next]_(Latency!vars)
               PROVE  HistogramInv'
    OBVIOUS
  <1> USE DEF HistogramInv
  <1>1. Latency!TypeOK'
    BY CountersStep, DrainsStep, ScrapeTypeStep, LatenciesStep, HistogramType
  <1>2. DrainInv'
    BY DrainInvStep
  <1>3. \A i \in Buckets : Everywhere(i)
    BY DEF Everywhere, Latency!ReportedOnce, Latency!CumulativeExact, Latency!Index, Buckets
  <1>4. \A i \in Buckets : Everywhere(i)'
    BY <1>1, <1>3, SamplesKept
  <1>5. Latency!ReportedOnce' /\ Latency!CumulativeExact'
    BY <1>4 DEF Everywhere, Latency!ReportedOnce, Latency!CumulativeExact, Latency!Index,
       Buckets
  <1>6. ScrapeInv' /\ Latency!ScrapeSound'
    BY ScrapeStep
  <1> QED
    BY <1>1, <1>2, <1>5, <1>6

\* The inductive invariant of the histogram.
THEOREM HistogramInvariance ==
    ASSUME HistogramSizes
    PROVE  Latency!Spec => []HistogramInv
  <1>1. Latency!Init => HistogramInv
    BY InitHistogram
  <1>2. HistogramInv /\ [Latency!Next]_(Latency!vars) => HistogramInv'
    BY HistogramStep
  <1> QED
    BY <1>1, <1>2, PTL DEF Latency!Spec

\* Beside the counters it is the same, in a behaviour that is about latencies.
LatencyInv == part = "latency" => HistogramInv

LEMMA LatencyInvariance == ASSUME HistogramSizes PROVE StatisticsSpec => []LatencyInv
  <1>1. StatisticsInit => LatencyInv
    BY InitHistogram DEF StatisticsInit, LatencyInv
  <1>2. LatencyInv /\ [StatisticsNext]_<<part, histogramVars, countersVars>> => LatencyInv'
    <2> SUFFICES ASSUME LatencyInv, part' = "latency",
                        [StatisticsNext]_<<part, histogramVars, countersVars>>
                 PROVE  HistogramInv'
      BY DEF LatencyInv
    <2>1. part = "latency" /\ HistogramInv
      BY DEF StatisticsNext, LatencyInv
    <2>2. Latency!Next \/ UNCHANGED histogramVars
      BY <2>1 DEF StatisticsNext
    <2>3. [Latency!Next]_(Latency!vars)
      BY <2>2 DEF histogramVars, Latency!vars, Latency!drainVars, Latency!scrapeVars
    <2> QED
      BY <2>1, <2>3, HistogramStep
  <1> QED
    BY <1>1, <1>2, PTL DEF StatisticsSpec

\* For any number of drains, buckets and samples: however drains and recordings overlap, each
\* sample is in the snapshot of one drain and in the exporters' histogram (record, drain).
THEOREM SamplesCountedOnce ==
    ASSUME HistogramSizes
    PROVE  StatisticsSpec => []CountsExact
  <1>1. LatencyInv => CountsExact
    BY DEF LatencyInv, HistogramInv, CountsExact, Latency!CountsExact
  <1> QED
    BY LatencyInvariance, <1>1, PTL

\* An exporter that reads the two arrays without a lock counts no sample twice, and none too
\* few while no drain runs (LatencyBuckets).
THEOREM ScrapesSound ==
    ASSUME HistogramSizes
    PROVE  StatisticsSpec => []ScrapeSound
  <1>1. LatencyInv => ScrapeSound
    BY DEF LatencyInv, HistogramInv, ScrapeSound
  <1> QED
    BY LatencyInvariance, <1>1, PTL

----------------------------------------------------------------------------
\* The percentiles.

\* 2 ^ SubBits sub-buckets to a power of two; a latency fits a word.
Parts == 2 ^ SubBits
Timed(v) == v \in Nat /\ v < 2 ^ ManyTimeWidth

LEMMA PartsPositive == Parts \in Nat \ {0} /\ Parts <= 2 ^ ManyTimeWidth
  <1>1. SubBits \in Nat /\ ManyTimeWidth \in Nat /\ SubBits <= ManyTimeWidth
    BY ManyAssumption
  <1> QED
    BY <1>1, PowerCounts, PowersGrow DEF Parts

\* e is the exponent of v.
Leads(e, v) == e \in 0 .. ManyTimeWidth - 1 /\ 2 ^ e <= v /\ v < 2 ^ (e + 1)

LEMMA ExponentOf ==
    ASSUME NEW v, Timed(v), v # 0
    PROVE  Leads(Many!Exponent(v), v)
  <1> DEFINE T == {k \in Nat : v < 2 ^ k}
             W == ManyTimeWidth
  <1>1. W \in T /\ v \in Nat /\ W \in Nat
    BY ManyAssumption DEF Timed
  <1>2. PICK k \in T : \A j \in T : k <= j
    BY <1>1, LeastNatural
  <1>3. k # 0
    <2>1. ~(v < 1) /\ v < 2 ^ k
      BY <1>1, <1>2
    <2> QED
      BY <2>1, PowerZero
  <1> DEFINE e == k - 1
  <1>4. k <= W /\ e \in Nat /\ e + 1 = k /\ e < k
    BY <1>1, <1>2, <1>3
  <1>5. e \notin T
    BY <1>2, <1>4
  <1>6. 2 ^ e <= v
    BY <1>1, <1>4, <1>5, PowerCounts
  <1>7. e \in 0 .. W - 1 /\ v < 2 ^ (e + 1)
    BY <1>1, <1>2, <1>4
  <1> HIDE DEF e
  <1>8. \E x \in 0 .. W - 1 : 2 ^ x <= v /\ v < 2 ^ (x + 1)
    BY <1>6, <1>7
  <1> QED
    BY <1>8 DEF Many!Exponent, Leads

LEMMA ExponentIs ==
    ASSUME NEW v, Timed(v), NEW e, NEW f, Leads(e, v), Leads(f, v)
    PROVE  e = f
  <1>1. \A a, b \in Nat : Leads(a, v) /\ Leads(b, v) => ~(a < b)
    <2> SUFFICES ASSUME NEW a \in Nat, NEW b \in Nat, Leads(a, v), Leads(b, v), a < b PROVE FALSE
      OBVIOUS
    <2>1. a + 1 \in Nat /\ a + 1 <= b
      OBVIOUS
    <2>2. 2 ^ (a + 1) <= 2 ^ b /\ 2 ^ (a + 1) \in Nat /\ 2 ^ b \in Nat
      BY <2>1, PowersGrow, PowerCounts
    <2> QED
      BY <2>2 DEF Leads, Timed
  <1>2. e \in Nat /\ f \in Nat
    BY ManyAssumption DEF Leads
  <1> QED
    BY <1>1, <1>2

\* v lies in sub-bucket q, of width m, of the powers of two at e.
InPart(v, e, q, m) ==
    /\ Leads(e, v) /\ SubBits <= e /\ m = 2 ^ (e - SubBits) /\ 2 ^ e = Parts * m
    /\ m \in Nat \ {0} /\ q \in Parts .. 2 * Parts - 1
    /\ q * m <= v /\ v < (q + 1) * m

LEMMA PartOf ==
    ASSUME NEW v, Timed(v), v >= Parts
    PROVE  \E e, q, m : InPart(v, e, q, m) /\ e = Many!Exponent(v) /\ q = v \div m
  <1> DEFINE e == Many!Exponent(v)
             m == 2 ^ (e - SubBits)
             q == v \div m
  <1>1. Leads(e, v)
    BY PartsPositive, ExponentOf DEF Timed
  <1> HIDE DEF e
  <1>2. e \in Nat /\ v \in Nat
    BY <1>1, ManyAssumption DEF Leads, Timed
  <1>3. SubBits <= e
    <2> SUFFICES ASSUME ~(SubBits <= e) PROVE FALSE
      OBVIOUS
    <2>1. e + 1 \in Nat /\ SubBits \in Nat /\ e + 1 <= SubBits
      BY <1>2, ManyAssumption
    <2>2. 2 ^ (e + 1) <= 2 ^ SubBits /\ 2 ^ (e + 1) \in Nat
      BY <2>1, PowersGrow, PowerCounts
    <2> QED
      BY <1>1, <1>2, <2>2, PartsPositive DEF Leads, Parts
  <1>4. e - SubBits \in Nat /\ SubBits \in Nat /\ SubBits + (e - SubBits) = e
    BY <1>2, <1>3, ManyAssumption
  <1>5. m \in Nat \ {0}
    BY <1>4, PowerCounts
  <1>6. 2 ^ e = Parts * m
    BY <1>4, PowersMultiply DEF Parts
  <1>7. 2 ^ (e + 1) = 2 * 2 ^ e
    BY <1>2, PowerNext
  <1>a. m = 2 ^ (e - SubBits)
    OBVIOUS
  <1> HIDE DEF m
  <1>8. q \in Nat /\ q * m <= v /\ v < (q + 1) * m
    BY <1>2, <1>5, Quotient
  <1>b. q = v \div m
    OBVIOUS
  <1> HIDE DEF q
  <1>9. Parts * m <= v /\ v < 2 * (Parts * m)
    BY <1>1, <1>6, <1>7 DEF Leads
  <1>10. q >= Parts
    <2> SUFFICES ASSUME q < Parts PROVE FALSE
      BY <1>8, PartsPositive
    <2>1. (q + 1) * m <= Parts * m
      BY <1>5, <1>8, PartsPositive, Multiples
    <2>2. (q + 1) * m \in Nat /\ Parts * m \in Nat
      BY <1>5, <1>8, PartsPositive
    <2> QED
      BY <1>2, <1>8, <1>9, <2>1, <2>2
  <1>11. q < 2 * Parts
    <2> SUFFICES ASSUME 2 * Parts <= q PROVE FALSE
      BY <1>8, PartsPositive
    <2>1. (2 * Parts) * m <= q * m
      <3>1. CASE q = 2 * Parts
        BY <1>5, <1>8, <3>1
      <3>2. CASE 2 * Parts < q
        <4>1. (2 * Parts + 1) * m <= q * m
          BY <1>5, <1>8, <3>2, PartsPositive, Multiples
        <4>2. (2 * Parts + 1) * m = (2 * Parts) * m + m /\ (2 * Parts) * m \in Nat /\ q * m \in Nat
          BY <1>5, <1>8, PartsPositive
        <4> QED
          BY <1>5, <4>1, <4>2
      <3> QED
        BY <1>8, <3>1, <3>2, PartsPositive
    <2>2. (2 * Parts) * m = 2 * (Parts * m) /\ Parts * m \in Nat /\ q * m \in Nat
      BY <1>5, <1>8, PartsPositive
    <2> QED
      BY <1>2, <1>8, <1>9, <2>1, <2>2
  <1>12. InPart(v, e, q, m)
    BY <1>1, <1>3, <1>5, <1>6, <1>8, <1>10, <1>11, <1>a, PartsPositive DEF InPart
  <1> QED
    BY <1>12, <1>b DEF e

LEMMA PartFacts ==
    ASSUME NEW v, NEW e, NEW q, NEW m, Timed(v), InPart(v, e, q, m)
    PROVE  /\ e - SubBits + 1 \in Nat \ {0} /\ q - Parts \in 0 .. Parts - 1
           /\ v \in Nat /\ q \in Nat /\ e \in Nat /\ q * m \in Nat /\ (q + 1) * m \in Nat
           /\ v \div m = q /\ Many!Exponent(v) = e /\ v >= Parts
           /\ q % Parts = q - Parts /\ (q + 1) * m <= 2 ^ ManyTimeWidth
  <1>0. v \in Nat /\ e \in Nat /\ q \in Nat /\ m \in Nat \ {0} /\ Parts \in Nat \ {0}
        /\ SubBits \in Nat /\ ManyTimeWidth \in Nat /\ e + 1 <= ManyTimeWidth
    BY PartsPositive, ManyAssumption DEF InPart, Leads, Timed
  <1>1. e - SubBits + 1 \in Nat \ {0} /\ q - Parts \in 0 .. Parts - 1
    BY <1>0 DEF InPart
  <1>2. v \div m = q
    BY <1>0, QuotientIs DEF InPart
  <1>3. v # 0 /\ v >= Parts
    <2>1. Parts <= Parts * m /\ Parts * m \in Nat
      BY <1>0
    <2> QED
      BY <1>0, <2>1 DEF InPart, Leads
  <1>4. Many!Exponent(v) = e
    BY <1>3, ExponentOf, ExponentIs DEF InPart
  <1>5. q % Parts = q - Parts
    <2> DEFINE r == q - Parts
    <2>1. r \in 0 .. Parts - 1 /\ q = 1 * Parts + r
      BY <1>0, <1>1
    <2> HIDE DEF r
    <2>2. (1 * Parts + r) % Parts = r
      BY <1>0, <2>1, RemainderIs
    <2> QED
      BY <2>1, <2>2 DEF r
  <1>6. (q + 1) * m <= 2 ^ ManyTimeWidth
    <2>1. (q + 1) * m <= (2 * Parts) * m
      <3>1. CASE q + 1 = 2 * Parts
        BY <1>0, <3>1
      <3>2. CASE q + 1 < 2 * Parts
        <4>1. ((q + 1) + 1) * m <= (2 * Parts) * m
          BY <1>0, <3>2, Multiples
        <4>2. ((q + 1) + 1) * m = (q + 1) * m + m /\ (q + 1) * m \in Nat /\ (2 * Parts) * m \in Nat
          BY <1>0
        <4> QED
          BY <1>0, <4>1, <4>2
      <3> QED
        BY <1>0, <3>1, <3>2 DEF InPart
    <2>2. (2 * Parts) * m = 2 * (Parts * m)
      BY <1>0
    <2>3. 2 ^ (e + 1) = 2 * (Parts * m)
      BY <1>0, PowerNext DEF InPart
    <2>4. 2 ^ (e + 1) <= 2 ^ ManyTimeWidth
      BY <1>0, PowersGrow
    <2>5. (2 * Parts) * m = 2 ^ (e + 1)
      BY <2>2, <2>3
    <2>6. (q + 1) * m \in Nat /\ 2 ^ (e + 1) \in Nat /\ 2 ^ ManyTimeWidth \in Nat
      <3>1. e + 1 \in Nat
        BY <1>0
      <3>2. 2 ^ (e + 1) \in Nat
        BY <3>1, PowerCounts
      <3>3. 2 ^ ManyTimeWidth \in Nat
        BY <1>0, PowerCounts
      <3> QED
        BY <1>0, <3>2, <3>3
    <2> QED
      BY <2>1, <2>4, <2>5, <2>6
  <1>7. q * m \in Nat /\ (q + 1) * m \in Nat
    BY <1>0
  <1> QED
    BY <1>0, <1>1, <1>2, <1>3, <1>4, <1>5, <1>6, <1>7

\* The index of v, and the bound of its bucket.
LEMMA PartIndex ==
    ASSUME NEW v, NEW e, NEW q, NEW m, Timed(v), InPart(v, e, q, m)
    PROVE  LET i == (e - SubBits + 1) * Parts + (q - Parts)
           IN  /\ Many!HistIndex(v) = i /\ i \in Parts .. ManyBuckets - 1
               /\ Many!HistUpper(i) = (q + 1) * m - 1
  <1> DEFINE k == e - SubBits + 1
             r == q - Parts
             i == k * Parts + r
  <1>1. /\ k \in Nat \ {0} /\ r \in 0 .. Parts - 1 /\ v \in Nat /\ q \in Nat /\ e \in Nat
        /\ (q + 1) * m \in Nat /\ v \div m = q /\ Many!Exponent(v) = e /\ v >= Parts
        /\ q % Parts = r /\ (q + 1) * m <= 2 ^ ManyTimeWidth /\ m \in Nat \ {0}
    BY PartFacts DEF InPart
  <1>2. Many!Sub = Parts /\ Parts \in Nat \ {0} /\ Many!Word = 2 ^ ManyTimeWidth
    BY PartsPositive DEF Many!Sub, Parts, Many!Word
  <1>3. Many!HistIndex(v) = i
    <2>1. ~(v < Parts)
      BY <1>1, <1>2
    <2>2. 2 ^ (e - SubBits) = m
      BY DEF InPart
    <2> QED
      BY <1>1, <1>2, <2>1, <2>2 DEF Many!HistIndex
  <1>4. k <= ManyTimeWidth - SubBits /\ q + 1 = Parts + r + 1 /\ k - 1 = e - SubBits
    BY <1>1, <1>2, ManyAssumption DEF InPart, Leads
  <1> DEFINE n == ManyTimeWidth - SubBits
  <1>5. n \in Nat /\ k <= n /\ (n + 1) * Parts <= ManyBuckets /\ ManyBuckets \in Nat
    BY <1>4, ManyAssumption DEF Parts
  <1>6. k - 1 = e - SubBits
    BY <1>4
  <1>p. q = Parts + r
    BY <1>1, <1>2
  <1>q. i = k * Parts + r
    OBVIOUS
  <1> HIDE DEF k, r, n, i
  <1>7. i \in Parts .. ManyBuckets - 1
    <2>1. Parts <= k * Parts /\ k * Parts \in Nat /\ (k + 1) * Parts = k * Parts + Parts
      BY <1>1, <1>2
    <2>2. (k + 1) * Parts <= (n + 1) * Parts
      <3>1. CASE k = n
        BY <1>5, <1>1, <1>2, <3>1
      <3>2. CASE k < n
        BY <1>1, <1>2, <1>5, <3>2, Multiples
      <3> QED
        BY <1>1, <1>5, <3>1, <3>2
    <2>3. (n + 1) * Parts \in Nat
      BY <1>2, <1>5
    <2> QED
      BY <1>1, <1>2, <1>5, <1>q, <2>1, <2>2, <2>3
  <1>8. i \div Parts = k /\ i % Parts = r
    <2>1. k \in Nat /\ Parts \in Nat \ {0} /\ r \in 0 .. Parts - 1
      BY <1>1, <1>2
    <2>2. (k * Parts + r) \div Parts = k /\ (k * Parts + r) % Parts = r
      BY <2>1, RemainderIs
    <2> QED
      BY <1>q, <2>2
  <1>9. Many!HistUpper(i) = (q + 1) * m - 1
    <2>1. ~(i < Parts)
      BY <1>2, <1>7
    <2>2. 2 ^ (k - 1) = m
      BY <1>6 DEF InPart
    <2>3. Parts + r + 1 = q + 1
      BY <1>1, <1>2, <1>p
    <2>4. Many!HistUpper(i) = ((q + 1) * m - 1) % (2 ^ ManyTimeWidth)
      BY <1>2, <1>8, <2>1, <2>2, <2>3 DEF Many!HistUpper
    <2> DEFINE w == 2 ^ ManyTimeWidth
               u == (q + 1) * m - 1
    <2>5. w \in Nat \ {0}
      BY ManyAssumption, PowerCounts
    <2>6. u \in 0 .. w - 1
      <3>1. (q + 1) * m >= 1
        BY <1>1
      <3> QED
        BY <1>1, <2>5, <3>1
    <2> HIDE DEF w, u
    <2>7. u % w = u
      <3>1. u = 0 * w + u
        BY <2>5, <2>6
      <3> QED
        BY <2>5, <2>6, <3>1, RemainderIs
    <2> QED
      BY <2>4, <2>7 DEF w, u
  <1> QED
    BY <1>3, <1>7, <1>9 DEF i, k, r
----------------------------------------------------------------------------
\* The bucket of a latency and the bound it reports.
BoundOf(v) == Many!HistUpper(Many!BucketOf(v))

LEMMA SmallBucket ==
    ASSUME NEW v, Timed(v), v < Parts
    PROVE  Many!BucketOf(v) = v /\ BoundOf(v) = v /\ v < ManyBuckets
  <1> DEFINE n == ManyTimeWidth - SubBits
  <1>1. v \in Nat /\ Parts \in Nat \ {0} /\ Many!Sub = Parts
    BY PartsPositive DEF Timed, Many!Sub, Parts
  <1>2. n \in Nat /\ (n + 1) * Parts <= ManyBuckets /\ ManyBuckets \in Nat
    BY ManyAssumption DEF Parts
  <1> HIDE DEF n
  <1>3. (n + 1) * Parts = n * Parts + Parts /\ n * Parts \in Nat
    BY <1>1, <1>2
  <1>4. v < ManyBuckets
    BY <1>1, <1>2, <1>3
  <1>5. Many!HistIndex(v) = v
    BY <1>1 DEF Many!HistIndex
  <1>6. Many!BucketOf(v) = v
    BY <1>1, <1>2, <1>4, <1>5 DEF Many!BucketOf
  <1>7. Many!HistUpper(v) = v
    BY <1>1 DEF Many!HistUpper
  <1> QED
    BY <1>4, <1>6, <1>7 DEF BoundOf

LEMMA LargeBucket ==
    ASSUME NEW v, NEW e, NEW q, NEW m, Timed(v), InPart(v, e, q, m)
    PROVE  /\ Many!BucketOf(v) = (e - SubBits + 1) * Parts + (q - Parts)
           /\ Many!BucketOf(v) \in Parts .. ManyBuckets - 1
           /\ BoundOf(v) = (q + 1) * m - 1
  <1> DEFINE i == (e - SubBits + 1) * Parts + (q - Parts)
  <1>1. /\ Many!HistIndex(v) = i /\ i \in Parts .. ManyBuckets - 1
        /\ Many!HistUpper(i) = (q + 1) * m - 1
    BY PartIndex
  <1> HIDE DEF i
  <1>2. Many!BucketOf(v) = i
    BY <1>1, PartsPositive, ManyAssumption DEF Many!BucketOf
  <1> QED
    BY <1>1, <1>2 DEF i, BoundOf

\* A latency lies in its bucket, within a sub-bucket below the bound.
LEMMA BucketBounds ==
    ASSUME NEW v, Timed(v)
    PROVE  /\ Many!BucketOf(v) \in 0 .. ManyBuckets - 1
           /\ BoundOf(v) \in Nat /\ v <= BoundOf(v) /\ (BoundOf(v) - v) * Parts <= v
  <1>1. v \in Nat /\ Parts \in Nat \ {0} /\ ManyBuckets \in Nat
    BY PartsPositive, ManyAssumption DEF Timed
  <1>2. CASE v < Parts
    <2>1. Many!BucketOf(v) = v /\ BoundOf(v) = v /\ v < ManyBuckets
      BY <1>2, SmallBucket
    <2>2. (v - v) * Parts = 0
      BY <1>1
    <2> QED
      BY <1>1, <2>1, <2>2
  <1>3. CASE v >= Parts
    <2>1. PICK e, q, m : InPart(v, e, q, m)
      BY <1>3, PartOf
    <2> DEFINE u == BoundOf(v)
    <2>2. /\ Many!BucketOf(v) \in Parts .. ManyBuckets - 1
          /\ u = (q + 1) * m - 1
      BY <2>1, LargeBucket
    <2>3. /\ q \in Nat /\ m \in Nat \ {0} /\ q >= Parts /\ q * m <= v /\ v < (q + 1) * m
          /\ (q + 1) * m \in Nat /\ q * m \in Nat /\ Parts * m <= v
      BY <1>1, <2>1, PartFacts DEF InPart, Leads
    <2> HIDE DEF u
    <2>4. u \in Nat /\ v <= u /\ u - v \in Nat
      BY <1>1, <2>2, <2>3
    <2>5. (q + 1) * m = q * m + m
      BY <2>3
    <2>6. u - v < m
      BY <1>1, <2>2, <2>3, <2>5
    <2>7. (u - v) * Parts <= m * Parts
      <3> DEFINE x == u - v
      <3>1. x \in Nat /\ x < m
        BY <2>4, <2>6
      <3> HIDE DEF x
      <3>2. (x + 1) * Parts <= m * Parts
        <4>1. CASE x + 1 = m
          BY <1>1, <2>3, <4>1
        <4>2. CASE x + 1 < m
          <5>1. (x + 1) + 1 \in Nat /\ x + 1 \in Nat
            BY <3>1
          <5>2. ((x + 1) + 1) * Parts <= m * Parts
            BY <1>1, <2>3, <4>2, <5>1, Multiples
          <5>3. ((x + 1) + 1) * Parts = (x + 1) * Parts + Parts /\ (x + 1) * Parts \in Nat
                /\ m * Parts \in Nat
            BY <1>1, <2>3, <5>1
          <5> QED
            BY <1>1, <5>2, <5>3
        <4> QED
          BY <2>3, <3>1, <4>1, <4>2
      <3>3. (x + 1) * Parts = x * Parts + Parts /\ x * Parts \in Nat /\ m * Parts \in Nat
        BY <1>1, <2>3, <3>1
      <3>4. x * Parts <= m * Parts
        BY <1>1, <3>2, <3>3
      <3> QED
        BY <3>4 DEF x
    <2>8. (u - v) * Parts <= v
      <3>1. m * Parts = Parts * m /\ m * Parts \in Nat /\ (u - v) * Parts \in Nat
        BY <1>1, <2>3, <2>4
      <3> QED
        BY <1>1, <2>3, <2>7, <3>1
    <2>9. Many!BucketOf(v) \in 0 .. ManyBuckets - 1
      BY <1>1, <2>2
    <2> QED
      BY <2>4, <2>8, <2>9 DEF u
  <1> QED
    BY <1>1, <1>2, <1>3

\* A latency up to the bound of a bucket, from a latency of that bucket on, is in it too.
LEMMA BucketWhole ==
    ASSUME NEW v, NEW w, Timed(v), Timed(w), v <= w, w <= BoundOf(v)
    PROVE  Many!BucketOf(w) = Many!BucketOf(v)
  <1>1. v \in Nat /\ w \in Nat /\ Parts \in Nat \ {0}
    BY PartsPositive DEF Timed
  <1>2. CASE v < Parts
    <2>1. BoundOf(v) = v
      BY <1>2, SmallBucket
    <2> QED
      BY <1>1, <2>1
  <1>3. CASE v >= Parts
    <2>1. PICK e, q, m : InPart(v, e, q, m)
      BY <1>3, PartOf
    <2>2. /\ Many!BucketOf(v) = (e - SubBits + 1) * Parts + (q - Parts)
          /\ BoundOf(v) = (q + 1) * m - 1
      BY <2>1, LargeBucket
    <2>3. /\ q \in Nat /\ e \in Nat /\ m \in Nat \ {0} /\ (q + 1) * m \in Nat /\ q * m \in Nat
          /\ q * m <= v /\ 2 ^ e <= v /\ 2 ^ e \in Nat
      BY <2>1, PartFacts, PowerCounts DEF InPart, Leads
    <2>4. q * m <= w /\ w < (q + 1) * m
      BY <1>1, <2>2, <2>3
    <2>5. (q + 1) * m <= 2 ^ (e + 1)
      <3>1. 2 ^ (e + 1) = 2 * (Parts * m)
        BY <2>1, <2>3, PowerNext DEF InPart
      <3>2. (2 * Parts) * m = 2 * (Parts * m)
        BY <1>1, <2>3
      <3>3. q < 2 * Parts
        BY <1>1, <2>1 DEF InPart
      <3>4. (q + 1) * m <= (2 * Parts) * m
        BY <1>1, <2>3, <3>3, Multiples
      <3> QED
        BY <3>1, <3>2, <3>4
    <2>6. Leads(e, w)
      <3>1. 2 ^ e <= w
        BY <1>1, <2>3
      <3>2. 2 ^ (e + 1) \in Nat
        <4>1. e + 1 \in Nat
          BY <2>3
        <4> QED
          BY <4>1, PowerCounts
      <3>3. w < 2 ^ (e + 1)
        BY <1>1, <2>3, <2>4, <2>5, <3>2
      <3> QED
        BY <2>1, <3>1, <3>3 DEF InPart, Leads
    <2>7. InPart(w, e, q, m)
      BY <2>1, <2>4, <2>6 DEF InPart
    <2> QED
      BY <2>2, <2>7, LargeBucket
  <1> QED
    BY <1>1, <1>2, <1>3

\* Longer latencies are not in lower buckets.
LEMMA BucketsOrdered ==
    ASSUME NEW v, NEW w, Timed(v), Timed(w), v <= w
    PROVE  Many!BucketOf(v) <= Many!BucketOf(w)
  <1>1. v \in Nat /\ w \in Nat /\ Parts \in Nat \ {0}
    BY PartsPositive DEF Timed
  <1>2. CASE w < Parts
    <2>1. v < Parts
      BY <1>1, <1>2
    <2> QED
      BY <1>2, <2>1, SmallBucket
  <1>3. CASE v < Parts /\ w >= Parts
    <2>1. Many!BucketOf(v) = v
      BY <1>3, SmallBucket
    <2>2. Many!BucketOf(w) \in Parts .. ManyBuckets - 1
      BY <1>3, PartOf, LargeBucket
    <2> QED
      BY <1>1, <1>3, <2>1, <2>2, ManyAssumption
  <1>4. CASE v >= Parts
    <2>0. w >= Parts
      BY <1>1, <1>4
    <2>1. PICK e, q, m : InPart(v, e, q, m)
      BY <1>4, PartOf
    <2>2. PICK f, p, n : InPart(w, f, p, n)
      BY <2>0, PartOf
    <2> DEFINE i == e - SubBits + 1
               j == f - SubBits + 1
               r == q - Parts
               s == p - Parts
    <2>3. Many!BucketOf(v) = i * Parts + r /\ Many!BucketOf(w) = j * Parts + s
      BY <2>1, <2>2, LargeBucket
    <2>4. /\ i \in Nat /\ j \in Nat /\ r \in 0 .. Parts - 1 /\ s \in 0 .. Parts - 1
          /\ e \in Nat /\ f \in Nat /\ q \in Nat /\ p \in Nat
      BY <2>1, <2>2, PartFacts
    <2>5. e <= f
      <3> SUFFICES ASSUME f < e PROVE FALSE
        BY <2>4
      <3>1. f + 1 \in Nat /\ f + 1 <= e
        BY <2>4
      <3>2. 2 ^ (f + 1) <= 2 ^ e /\ 2 ^ (f + 1) \in Nat /\ 2 ^ e \in Nat
        BY <2>4, <3>1, PowersGrow, PowerCounts
      <3> QED
        BY <1>1, <2>1, <2>2, <3>2 DEF InPart, Leads
    <2>6. i <= j /\ (e = f => i = j) /\ (e < f => i < j)
      BY <2>4, <2>5, ManyAssumption
    <2>7. e = f => r <= s
      <3> SUFFICES ASSUME e = f PROVE q <= p
        BY <1>1, <2>4
      <3>1. n = m /\ m \in Nat \ {0}
        BY <2>1, <2>2 DEF InPart
      <3> SUFFICES ASSUME p < q PROVE FALSE
        BY <2>4
      <3>2. (p + 1) * m <= q * m
        BY <2>4, <3>1, Multiples
      <3>3. q * m <= v /\ w < (p + 1) * m
        BY <2>1, <2>2, <3>1 DEF InPart
      <3>4. q * m \in Nat /\ (p + 1) * m \in Nat
        BY <2>4, <3>1
      <3> QED
        BY <1>1, <3>2, <3>3, <3>4
    <2> HIDE DEF i, j, r, s
    <2>8. i * Parts + r <= j * Parts + s
      <3>0. i * Parts \in Nat /\ j * Parts \in Nat /\ (i + 1) * Parts = i * Parts + Parts
        BY <1>1, <2>4
      <3>1. CASE e = f
        <4>1. i = j /\ r <= s
          BY <2>6, <2>7, <3>1
        <4> QED
          BY <2>4, <3>0, <4>1
      <3>2. CASE e < f
        <4>1. i < j
          BY <2>6, <3>2
        <4>2. (i + 1) * Parts <= j * Parts
          BY <1>1, <2>4, <4>1, Multiples
        <4> QED
          BY <1>1, <2>4, <3>0, <4>2
      <3> QED
        BY <2>4, <2>5, <3>1, <3>2
    <2> QED
      BY <2>3, <2>8
  <1> QED
    BY <1>1, <1>2, <1>3, <1>4

\* Nor are their bounds lower.
LEMMA BoundsOrdered ==
    ASSUME NEW v, NEW w, Timed(v), Timed(w), Many!BucketOf(v) <= Many!BucketOf(w)
    PROVE  BoundOf(v) <= BoundOf(w)
  <1>0. /\ v \in Nat /\ w \in Nat /\ BoundOf(v) \in Nat /\ BoundOf(w) \in Nat
        /\ v <= BoundOf(v) /\ w <= BoundOf(w)
        /\ Many!BucketOf(v) \in Nat /\ Many!BucketOf(w) \in Nat
    BY BucketBounds, ManyAssumption DEF Timed
  <1>1. CASE Many!BucketOf(v) = Many!BucketOf(w)
    BY <1>0, <1>1 DEF BoundOf
  <1>2. CASE Many!BucketOf(v) # Many!BucketOf(w)
    <2>1. ~(w <= v)
      <3> SUFFICES ASSUME w <= v PROVE FALSE
        OBVIOUS
      <3>1. Many!BucketOf(w) <= Many!BucketOf(v)
        BY BucketsOrdered
      <3> QED
        BY <1>0, <1>2, <3>1
    <2>2. v <= w
      BY <1>0, <2>1
    <2>3. ~(w <= BoundOf(v))
      BY <1>2, <2>2, BucketWhole
    <2> QED
      BY <1>0, <2>3
  <1> QED
    BY <1>1, <1>2

----------------------------------------------------------------------------
\* The buckets of what a drain took tell of the latencies behind them.
Places == 0 .. ManyBuckets - 1
Times == Many!Latencies
Lying(i) == {v \in Times : Many!BucketOf(v) = i}
UpTo(i) == {v \in Times : Many!BucketOf(v) <= i}

\* The counters f are the latencies t, bucket by bucket.
Behind(f, t) == /\ f \in [Places -> Nat] /\ t \in [Times -> Nat]
                /\ \A i \in Places : f[i] = SumOf(Within(Times, Lying(i), t))

LEMMA TimesTimed ==
    /\ IsFiniteSet(Times) /\ \A v \in Times : Timed(v) /\ v \in Nat /\ Many!BucketOf(v) \in Places
    /\ ManyBuckets \in Nat /\ IsFiniteSet(Places)
  <1>1. \A d \in ManyDurations : Timed(Many!Ns(d))
    <2>1. 2 ^ ManyTimeWidth \in Nat \ {0}
      BY ManyAssumption, PowerCounts
    <2> QED
      BY <2>1, ManyAssumption DEF Timed, Many!Ns
  <1>2. \A v \in Times : Timed(v)
    BY <1>1 DEF Times, Many!Latencies
  <1> DEFINE g == [d \in ManyDurations |-> Many!Ns(d)]
  <1>3. g \in Surjection(ManyDurations, Times)
    BY DEF Surjection, Times, Many!Latencies
  <1>4. IsFiniteSet(Times)
    BY <1>3, FS_Surjection, ManyAssumption
  <1>5. \A v \in Times : v \in Nat /\ Many!BucketOf(v) \in Places
    BY <1>2, BucketBounds DEF Timed, Places
  <1>6. ManyBuckets \in Nat
    BY ManyAssumption
  <1>7. IsFiniteSet(Places)
    BY <1>6, FS_Interval DEF Places
  <1> QED
    BY <1>2, <1>4, <1>5, <1>6, <1>7

\* The samples of the buckets up to k.
Prefix(f, k) == SumOf([j \in 0 .. k |-> f[j]])

LEMMA PrefixNext ==
    ASSUME NEW f \in [Places -> Nat], NEW k \in Places
    PROVE  /\ Prefix(f, k) \in Nat
           /\ k = 0 => Prefix(f, k) = f[k]
           /\ k # 0 => k - 1 \in Places /\ Prefix(f, k) = Prefix(f, k - 1) + f[k]
  <1> DEFINE Left(m) == SumOf(Within(Places, 0 .. m, f))
  <1>0. IsFiniteSet(Places) /\ ManyBuckets \in Nat /\ k \in Nat
    BY TimesTimed DEF Places
  <1>1. ASSUME NEW m \in Places PROVE Prefix(f, m) = Left(m)
    <2>1. 0 .. m \in SUBSET Places
      BY <1>0 DEF Places
    <2> QED
      BY <1>0, <2>1, SumPart DEF Prefix
  <1>2. Left(k) \in Nat
    BY <1>0, WithinType, SumNat
  <1>3. SumOf(Within(Places, {k}, f)) = f[k]
    BY <1>0, SumOne
  <1>4. CASE k = 0
    <2>1. 0 .. k = {k}
      BY <1>4
    <2> QED
      BY <1>1, <1>2, <1>3, <1>4, <2>1
  <1>5. CASE k # 0
    <2> DEFINE j == k - 1
    <2>1. j \in Nat /\ j \in Places /\ k = j + 1
      BY <1>0, <1>5 DEF Places
    <2> DEFINE A == 0 .. j
               B == {k}
    <2>2. 0 .. k = A \cup B /\ \A x \in Places : x \in A => x \notin B
      BY <1>0, <2>1
    <2>3. Prefix(f, j) = SumOf(Within(Places, A, f)) /\ f[k] = SumOf(Within(Places, B, f))
      BY <1>1, <1>3, <2>1
    <2>4. Prefix(f, k) = SumOf(Within(Places, A \cup B, f))
      BY <1>1, <2>2
    <2> HIDE DEF A, B
    <2>5. IsFiniteSet(Places) /\ f \in [Places -> Nat]
      BY <1>0
    <2>6. SumOf(Within(Places, A \cup B, f)) =
             SumOf(Within(Places, A, f)) + SumOf(Within(Places, B, f))
      BY <2>2, <2>5, SumApart
    <2>7. Prefix(f, k) = Prefix(f, j) + f[k]
      BY <2>3, <2>4, <2>6
    <2> QED
      BY <1>1, <1>2, <1>5, <2>1, <2>7
  <1> QED
    BY <1>4, <1>5

\* They are the latencies of the buckets up to it.
LEMMA SamplesUpTo ==
    ASSUME NEW f, NEW t, Behind(f, t), NEW i \in Places
    PROVE  Prefix(f, i) = SumOf(Within(Times, UpTo(i), t))
  <1> DEFINE Right(k) == SumOf(Within(Times, UpTo(k), t))
             T == {k \in Nat : k \in Places /\ Prefix(f, k) # Right(k)}
  <1>0. /\ IsFiniteSet(Times) /\ ManyBuckets \in Nat /\ i \in Nat
        /\ f \in [Places -> Nat] /\ t \in [Times -> Nat]
    BY TimesTimed DEF Behind, Places
  <1>1. ASSUME NEW k \in T, \A j \in T : k <= j PROVE FALSE
    <2>1. k \in Places /\ k \in Nat /\ Prefix(f, k) # Right(k)
      BY <1>1
    <2>2. f[k] = SumOf(Within(Times, Lying(k), t))
      BY <2>1 DEF Behind
    <2>3. CASE k = 0
      <3>1. UpTo(k) = Lying(k)
        BY <2>3, TimesTimed DEF UpTo, Lying, Places
      <3>2. Prefix(f, k) = f[k]
        BY <1>0, <2>1, <2>3, PrefixNext
      <3> QED
        BY <2>1, <2>2, <3>1, <3>2
    <2>4. CASE k # 0
      <3> DEFINE j == k - 1
      <3>1. j \in Nat /\ j \in Places /\ ~(k <= j) /\ k = j + 1
        BY <1>0, <2>1, <2>4 DEF Places
      <3>2. j \notin T
        BY <1>1, <3>1
      <3>3. Prefix(f, j) = Right(j)
        BY <3>1, <3>2
      <3>4. UpTo(k) = UpTo(j) \cup Lying(k) /\ \A v \in Times : v \in UpTo(j) => v \notin Lying(k)
        <4>1. \A v \in Times : Many!BucketOf(v) \in Nat
          BY TimesTimed DEF Places
        <4>2. \A v \in Times :
                 Many!BucketOf(v) <= k <=> Many!BucketOf(v) <= j \/ Many!BucketOf(v) = k
          BY <2>1, <3>1, <4>1
        <4>3. \A v \in Times : Many!BucketOf(v) <= j => Many!BucketOf(v) # k
          BY <2>1, <3>1, <4>1
        <4> QED
          BY <4>2, <4>3 DEF UpTo, Lying
      <3>5. Prefix(f, k) = Prefix(f, j) + f[k]
        BY <1>0, <2>1, <2>4, PrefixNext
      <3> HIDE DEF j
      <3>6. Right(k) = Right(j) + f[k]
        <4>1. SumOf(Within(Times, UpTo(j) \cup Lying(k), t)) =
                 SumOf(Within(Times, UpTo(j), t)) + SumOf(Within(Times, Lying(k), t))
          BY <1>0, <3>4, SumApart
        <4> QED
          BY <2>2, <3>4, <4>1
      <3> QED
        BY <2>1, <3>3, <3>5, <3>6
    <2> QED
      BY <2>3, <2>4
  <1>2. T = {}
    BY <1>1, LeastNatural
  <1> QED
    BY <1>0, <1>2

\* A counted bucket has a latency, and the bucket of a latency is counted.
LEMMA CountedBucket ==
    ASSUME NEW f, NEW t, Behind(f, t)
    PROVE  /\ \A i \in Places : f[i] > 0 => \E v \in Lying(i) : t[v] > 0
           /\ \A v \in Times : t[v] > 0 => f[Many!BucketOf(v)] > 0
  <1>1. IsFiniteSet(Times) /\ f \in [Places -> Nat] /\ t \in [Times -> Nat]
    BY TimesTimed DEF Behind
  <1>2. ASSUME NEW i \in Places, f[i] > 0 PROVE \E v \in Lying(i) : t[v] > 0
    <2>1. SumOf(Within(Times, Lying(i), t)) # 0
      BY <1>2 DEF Behind
    <2>2. PICK v \in Times : Within(Times, Lying(i), t)[v] > 0
      BY <1>1, <2>1, WithinType, SumPositive
    <2> QED
      BY <2>2 DEF Within
  <1>3. ASSUME NEW v \in Times, t[v] > 0 PROVE f[Many!BucketOf(v)] > 0
    <2> DEFINE i == Many!BucketOf(v)
               a == Within(Times, {v}, t)
               b == Within(Times, Lying(i), t)
    <2>1. i \in Places /\ v \in Lying(i)
      BY TimesTimed DEF Lying
    <2>2. a \in [Times -> Nat] /\ b \in [Times -> Nat]
      BY <1>1, WithinType
    <2>3. \A x \in Times : a[x] <= b[x]
      <3>1. \A x \in Times : t[x] \in Nat
        BY <1>1
      <3> QED
        BY <2>1, <3>1 DEF Within
    <2>4. SumOf(a) <= SumOf(b) /\ SumOf(a) \in Nat /\ SumOf(b) \in Nat
      <3> HIDE DEF a, b
      <3> QED
        BY <1>1, <2>2, <2>3, SumBelow, SumNat
    <2>5. SumOf(a) = t[v]
      BY <1>1, SumOne
    <2>6. SumOf(b) = f[i]
      BY <2>1 DEF Behind
    <2> QED
      BY <1>1, <1>3, <2>4, <2>5, <2>6
  <1> QED
    BY <1>2, <1>3

----------------------------------------------------------------------------
\* What the percentiles of such counters say of the latencies.

LEMMA ManySums == \A f : Many!SumOf(f) = SumOf(f)
  <1> SUFFICES ASSUME NEW f PROVE Many!SumOf(f) = SumOf(f)
    OBVIOUS
  <1>1. \A x, n : Many!Column(x, n) = Column(x, n)
    BY DEF Many!Column, Column
  <1>2. {Many!Column(x, f[x]) : x \in DOMAIN f} = {Column(x, f[x]) : x \in DOMAIN f}
    BY <1>1
  <1>3. Many!Units(f) = Units(f)
    BY <1>2 DEF Many!Units, Units
  <1>4. \A T : Many!Cardinality(T) = Cardinality(T)
    BY DEF Many!Cardinality, Cardinality
  <1> QED
    BY <1>3, <1>4 DEF Many!SumOf, SumOf

\* The rank of a percentile is that of a sample, at most half a sample too low.
LEMMA RankBounds ==
    ASSUME NEW n \in Nat \ {0}, NEW p \in 1 .. 99
    PROVE  /\ Many!Rank(p, n) \in 1 .. n /\ Many!Rank(p, n) * 100 >= p * n - 50
           /\ \A q \in 1 .. 99 : p <= q => Many!Rank(p, n) <= Many!Rank(q, n)
  <1> DEFINE Near(q) == Many!RankNear(q, n)
  <1>1. ASSUME NEW q \in 1 .. 99
        PROVE  /\ q * n \in Nat /\ q * n <= 99 * n
               /\ Near(q) \in Nat /\ Near(q) * 100 <= q * n + 50 /\ q * n + 50 < Near(q) * 100 + 100
    <2> DEFINE a == q * n + 50
    <2>1. q * n \in Nat /\ q * n <= 99 * n
      <3>1. 99 * n = q * n + (99 - q) * n /\ (99 - q) * n \in Nat /\ q * n \in Nat
        OBVIOUS
      <3> QED
        BY <3>1
    <2>2. a \in Nat /\ Near(q) = a \div 100
      BY <2>1 DEF Many!RankNear
    <2> HIDE DEF a
    <2>3. a \div 100 \in Nat /\ (a \div 100) * 100 <= a /\ a < ((a \div 100) + 1) * 100
      BY <2>2, Quotient
    <2> QED
      BY <2>1, <2>2, <2>3 DEF a
  <1>2. ASSUME NEW q \in 1 .. 99
        PROVE  /\ Many!Rank(q, n) \in {1, Near(q)} /\ Many!Rank(q, n) >= 1
               /\ Many!Rank(q, n) >= Near(q)
    <2> DEFINE k == Near(q)
    <2>1. k \in Nat
      BY <1>1
    <2>2. Many!Rank(q, n) = CHOOSE x \in {1, k} : \A y \in {1, k} : x >= y
      BY DEF Many!Rank, Many!Max
    <2> HIDE DEF k
    <2>3. \E x \in {1, k} : \A y \in {1, k} : x >= y
      BY <2>1
    <2>4. Many!Rank(q, n) \in {1, k} /\ \A y \in {1, k} : Many!Rank(q, n) >= y
      BY <2>2, <2>3
    <2> QED
      BY <2>4 DEF k
  <1> HIDE DEF Near
  <1>3. Many!Rank(p, n) \in 1 .. n /\ Many!Rank(p, n) * 100 >= p * n - 50
    <2> DEFINE a == p * n
               x == Near(p)
               r == Many!Rank(p, n)
    <2>1. /\ a \in Nat /\ a <= 99 * n /\ x \in Nat /\ x * 100 <= a + 50 /\ a + 50 < x * 100 + 100
          /\ r \in {1, x} /\ r >= 1 /\ r >= x
      BY <1>1, <1>2
    <2> HIDE DEF a, x, r
    <2>2. x <= n
      BY <2>1
    <2>3. r \in 1 .. n /\ r * 100 >= a - 50
      BY <2>1, <2>2
    <2> QED
      BY <2>3 DEF a, r
  <1>4. ASSUME NEW q \in 1 .. 99, p <= q PROVE Many!Rank(p, n) <= Many!Rank(q, n)
    <2>1. p * n <= q * n
      <3>1. q * n = p * n + (q - p) * n /\ (q - p) * n \in Nat /\ p * n \in Nat
        BY <1>4
      <3> QED
        BY <3>1
    <2> DEFINE a == p * n
               b == q * n
               x == Near(p)
               y == Near(q)
    <2>2. /\ a \in Nat /\ x \in Nat /\ x * 100 <= a + 50
          /\ b \in Nat /\ y \in Nat /\ b + 50 < y * 100 + 100 /\ a <= b
      BY <1>1, <2>1
    <2>3. /\ Many!Rank(p, n) \in {1, x}
          /\ Many!Rank(q, n) \in {1, y} /\ Many!Rank(q, n) >= 1 /\ Many!Rank(q, n) >= y
      BY <1>2
    <2> HIDE DEF a, b, x, y
    <2>4. x <= y
      BY <2>2
    <2> QED
      BY <2>2, <2>3, <2>4
  <1> QED
    BY <1>3, <1>4

\* The greatest of a nonempty set of naturals that are bounded.
LEMMA GreatestBelow ==
    ASSUME NEW n \in Nat, NEW T \in SUBSET (0 .. n), T # {}
    PROVE  \E x \in T : \A y \in T : y <= x
  <1> DEFINE R == {n - y : y \in T}
  <1>1. R \in SUBSET Nat /\ R # {}
    <2>1. \A y \in T : n - y \in Nat
      OBVIOUS
    <2> QED
      BY <2>1
  <1> HIDE DEF R
  <1>2. PICK m \in R : \A k \in R : m <= k
    BY <1>1, LeastNatural
  <1>3. PICK x \in T : m = n - x
    BY <1>2 DEF R
  <1>4. \A y \in T : n - x <= n - y
    BY <1>2, <1>3 DEF R
  <1> QED
    BY <1>4

\* Bounds of buckets with samples are in the order of the buckets, and each is the bound of
\* a latency behind them.
LEMMA CountedBounds ==
    ASSUME NEW f, NEW t, Behind(f, t), NEW j \in Places, f[j] > 0
    PROVE  /\ \E v \in Times : /\ t[v] > 0 /\ Many!BucketOf(v) = j
                               /\ Many!Close(Many!HistUpper(j), v)
           /\ Many!HistUpper(j) \in Nat
           /\ \A i \in Places : f[i] > 0 /\ i <= j => Many!HistUpper(i) <= Many!HistUpper(j)
  <1>1. PICK v \in Times : t[v] > 0 /\ Many!BucketOf(v) = j
    BY CountedBucket DEF Lying
  <1>2. /\ Timed(v) /\ BoundOf(v) = Many!HistUpper(j) /\ BoundOf(v) \in Nat /\ v <= BoundOf(v)
        /\ (BoundOf(v) - v) * Parts <= v
    BY <1>1, TimesTimed, BucketBounds DEF BoundOf
  <1>3. Many!Close(Many!HistUpper(j), v)
    BY <1>2 DEF Many!Close, Many!Sub, Parts
  <1>4. ASSUME NEW i \in Places, f[i] > 0, i <= j PROVE Many!HistUpper(i) <= Many!HistUpper(j)
    <2>1. PICK w \in Times : Many!BucketOf(w) = i
      BY <1>4, CountedBucket DEF Lying
    <2>2. BoundOf(w) <= BoundOf(v)
      BY <1>1, <1>4, <2>1, TimesTimed, BoundsOrdered
    <2> QED
      BY <1>1, <2>1, <2>2 DEF BoundOf
  <1> QED
    BY <1>1, <1>2, <1>3, <1>4

\* The bucket at which the samples so far reach the rank of p in n.
At(f, n, p) == Many!Min({i \in Places : Many!SumUpTo(f, i) >= Many!Rank(p, n)})

LEMMA PercentileAt ==
    ASSUME NEW f \in [Places -> Nat], NEW n \in Nat \ {0}, n = Many!Samples(f), NEW p \in 1 .. 99
    PROVE  /\ At(f, n, p) \in Places /\ f[At(f, n, p)] > 0
           /\ Prefix(f, At(f, n, p)) >= Many!Rank(p, n)
           /\ \A i \in Places : Prefix(f, i) >= Many!Rank(p, n) => At(f, n, p) <= i
  <1> DEFINE T == {i \in Places : Many!SumUpTo(f, i) >= Many!Rank(p, n)}
             r == Many!Rank(p, n)
             j == At(f, n, p)
  <1>1. \A i : Many!SumUpTo(f, i) = Prefix(f, i)
    BY ManySums DEF Many!SumUpTo, Prefix
  <1>2. r \in 1 .. n
    BY RankBounds
  <1>3. ManyBuckets - 1 \in T
    <2>1. n = Prefix(f, ManyBuckets - 1)
      BY <1>1 DEF Many!Samples
    <2>2. ManyBuckets \in Nat
      BY TimesTimed
    <2>3. ManyBuckets # 0
      <3> SUFFICES ASSUME ManyBuckets = 0 PROVE FALSE
        OBVIOUS
      <3>1. 0 .. ManyBuckets - 1 = {}
        OBVIOUS
      <3>2. Prefix(f, ManyBuckets - 1) = 0
        <4> DEFINE g == [x \in 0 .. ManyBuckets - 1 |-> f[x]]
        <4>1. g \in [{} -> Nat]
          BY <3>1
        <4>2. \A x \in {} : g[x] = 0
          OBVIOUS
        <4> HIDE DEF g
        <4>3. SumOf(g) = 0
          BY <4>1, <4>2, SumZero
        <4> QED
          BY <4>3 DEF g, Prefix
      <3> QED
        BY <2>1, <3>2
    <2>4. ManyBuckets - 1 \in Places
      BY <2>2, <2>3 DEF Places
    <2> QED
      BY <1>1, <1>2, <2>1, <2>4
  <1>4. T \in SUBSET Nat /\ T # {}
    BY <1>3, TimesTimed DEF Places
  <1>5. \E x \in T : \A y \in T : x <= y
    <2> HIDE DEF T
    <2> QED
      BY <1>4, LeastNatural
  <1>6. j \in T /\ \A y \in T : j <= y
    BY <1>5 DEF At, Many!Min
  <1>7. /\ j \in Places /\ j \in Nat /\ Prefix(f, j) >= r
        /\ \A i \in Places : Prefix(f, i) >= r => j <= i
    BY <1>1, <1>4, <1>6
  <1> HIDE DEF j, T
  <1>8. f[j] > 0
    <2> SUFFICES ASSUME f[j] = 0 PROVE FALSE
      BY <1>7
    <2>1. j # 0
      BY <1>2, <1>7, PrefixNext
    <2>2. j - 1 \in Places /\ Prefix(f, j) = Prefix(f, j - 1) + 0 /\ Prefix(f, j - 1) \in Nat
      BY <1>7, <2>1, PrefixNext
    <2>3. j <= j - 1
      BY <1>7, <2>2
    <2> QED
      BY <1>7, <2>3
  <1> QED
    BY <1>7, <1>8 DEF j

\* The greatest bucket with samples is that of the longest latency.
LEMMA GreatestBucket ==
    ASSUME NEW f, NEW t, Behind(f, t), \E j \in Places : f[j] > 0
    PROVE  LET top == Many!Max({i \in Places : f[i] > 0})
               most == Many!Max({v \in Times : t[v] > 0})
           IN  /\ top \in Places /\ f[top] > 0 /\ \A i \in Places : f[i] > 0 => i <= top
               /\ Many!Close(Many!HistUpper(top), most)
  <1> DEFINE T == {i \in Places : f[i] > 0}
             V == {v \in Times : t[v] > 0}
             top == Many!Max(T)
             most == Many!Max(V)
  <1>1. T \in SUBSET (0 .. ManyBuckets) /\ T # {} /\ ManyBuckets \in Nat
    BY TimesTimed DEF Places
  <1>2. 2 ^ ManyTimeWidth \in Nat
    BY ManyAssumption, PowerCounts
  <1>3. V \in SUBSET (0 .. 2 ^ ManyTimeWidth)
    BY <1>2, TimesTimed DEF Timed
  <1>4. V # {}
    BY CountedBucket DEF Lying
  <1>5. \E x \in T : \A y \in T : y <= x
    <2> HIDE DEF T
    <2> QED
      BY <1>1, GreatestBelow
  <1>6. \E x \in V : \A y \in V : y <= x
    <2> HIDE DEF V
    <2> QED
      BY <1>2, <1>3, <1>4, GreatestBelow
  <1>7. top \in T /\ \A y \in T : y <= top
    <2>1. top = CHOOSE x \in T : \A y \in T : x >= y
      BY DEF Many!Max
    <2>2. \E x \in T : \A y \in T : x >= y
      BY <1>1, <1>5
    <2> HIDE DEF T, top
    <2>3. top \in T /\ \A y \in T : top >= y
      BY <2>1, <2>2
    <2> QED
      BY <1>1, <2>3
  <1>8. most \in V /\ \A y \in V : y <= most
    <2>1. most = CHOOSE x \in V : \A y \in V : x >= y
      BY DEF Many!Max
    <2>2. \A y \in V : y \in Nat
      BY TimesTimed
    <2>3. \E x \in V : \A y \in V : x >= y
      BY <1>6, <2>2
    <2> HIDE DEF V, most
    <2>4. most \in V /\ \A y \in V : most >= y
      BY <2>1, <2>3
    <2> QED
      BY <2>2, <2>4
  <1> HIDE DEF top, most
  <1>9. Many!BucketOf(most) = top
    <2>1. Many!BucketOf(most) <= top /\ Many!BucketOf(most) \in Nat
      BY <1>7, <1>8, CountedBucket, TimesTimed DEF Places
    <2>2. PICK v \in Times : t[v] > 0 /\ Many!BucketOf(v) = top
      BY <1>7, CountedBucket DEF Lying
    <2>3. v <= most
      BY <1>8, <2>2
    <2>4. top <= Many!BucketOf(most)
      BY <1>8, <2>2, <2>3, TimesTimed, BucketsOrdered
    <2>5. top \in Nat
      BY <1>7, TimesTimed DEF Places
    <2> QED
      BY <2>1, <2>4, <2>5
  <1>10. Many!Close(Many!HistUpper(top), most)
    <2>1. /\ most <= BoundOf(most) /\ (BoundOf(most) - most) * Parts <= most
          /\ BoundOf(most) = Many!HistUpper(top)
      BY <1>8, <1>9, TimesTimed, BucketBounds DEF BoundOf
    <2> QED
      BY <2>1 DEF Many!Close, Many!Sub, Parts
  <1> QED
    BY <1>7, <1>10 DEF top, most

\* A percentile bounds its share of the latencies, one of them closely.
LEMMA PercentileSound ==
    ASSUME NEW f, NEW t, Behind(f, t), NEW n \in Nat \ {0}, n = Many!Samples(f), NEW p \in 1 .. 99
    PROVE  Many!SoundQuantile(t, n, p, Many!HistUpper(At(f, n, p)))
  <1> DEFINE j == At(f, n, p)
             u == Many!HistUpper(j)
             V == {v \in Times : v <= u}
  <1>1. f \in [Places -> Nat] /\ t \in [Times -> Nat] /\ IsFiniteSet(Times)
    BY TimesTimed DEF Behind
  <1>2. j \in Places /\ f[j] > 0 /\ Prefix(f, j) >= Many!Rank(p, n)
    BY <1>1, PercentileAt
  <1>3. Many!Rank(p, n) \in 1 .. n /\ Many!Rank(p, n) * 100 >= p * n - 50
    BY RankBounds
  <1> HIDE DEF j
  <1>4. PICK v \in Times : t[v] > 0 /\ Many!BucketOf(v) = j /\ Many!Close(u, v)
    BY <1>2, CountedBounds
  <1>5. u \in Nat
    BY <1>2, CountedBounds
  <1>6. \A x \in Times : x \in UpTo(j) => x \in V
    <2> SUFFICES ASSUME NEW x \in Times, Many!BucketOf(x) <= j PROVE x <= u
      BY DEF UpTo
    <2>1. BoundOf(x) <= BoundOf(v) /\ BoundOf(v) = u
      BY <1>4, TimesTimed, BoundsOrdered DEF BoundOf
    <2>2. x <= BoundOf(x) /\ BoundOf(x) \in Nat /\ x \in Nat
      BY TimesTimed, BucketBounds
    <2> QED
      BY <1>5, <2>1, <2>2
  <1>7. Many!AtMost(t, u) = SumOf(Within(Times, V, t))
    <2>1. Many!AtMost(t, u) = SumOf([x \in V |-> t[x]])
      BY ManySums DEF Many!AtMost, Times
    <2>2. V \in SUBSET Times
      OBVIOUS
    <2> HIDE DEF V
    <2> QED
      BY <1>1, <2>1, <2>2, SumPart
  <1>8. Prefix(f, j) = SumOf(Within(Times, UpTo(j), t)) /\ Prefix(f, j) \in Nat
    BY <1>1, <1>2, SamplesUpTo, PrefixNext
  <1> HIDE DEF u, V
  <1>9. SumOf(Within(Times, UpTo(j), t)) <= SumOf(Within(Times, V, t))
    <2> DEFINE a == Within(Times, UpTo(j), t)
               b == Within(Times, V, t)
    <2>1. a \in [Times -> Nat] /\ b \in [Times -> Nat]
      BY <1>1, WithinType
    <2>2. \A x \in Times : t[x] \in Nat
      BY <1>1
    <2>3. \A x \in Times : a[x] <= b[x]
      BY <1>6, <2>2 DEF Within
    <2> HIDE DEF a, b
    <2>4. SumOf(a) <= SumOf(b)
      BY <1>1, <2>1, <2>3, SumBelow
    <2> QED
      BY <2>4 DEF a, b
  <1>10. Many!AtMost(t, u) * 100 >= p * n - 50
    <2> DEFINE a == Many!AtMost(t, u)
               r == Many!Rank(p, n)
               b == p * n
    <2>1. b \in Nat
      OBVIOUS
    <2>2. a \in Nat
      BY <1>1, <1>7, WithinType, SumNat
    <2>3. r \in Nat /\ r * 100 >= b - 50 /\ r <= a
      BY <1>2, <1>3, <1>7, <1>8, <1>9, <2>2
    <2> HIDE DEF a, b, r
    <2>4. a * 100 >= b - 50
      BY <2>1, <2>2, <2>3
    <2> QED
      BY <2>4 DEF a, b
  <1>11. Many!SoundQuantile(t, n, p, u)
    BY <1>4, <1>10 DEF Many!SoundQuantile, Times
  <1> QED
    BY <1>11 DEF u, j

\* The state of the third part: what is counted is what was recorded.
Behinds == /\ Behind(counts, held) /\ Behind(c[Drainer], moved[Drainer])
           /\ c \in [{Drainer} -> [Places -> Nat]] /\ moved \in [{Drainer} -> [Times -> Nat]]

LEMMA SoundOfBehinds == Behinds => Many!QuantilesSound
  <1> DEFINE f == c[Drainer]
             t == moved[Drainer]
             n == Many!Samples(f)
             top == Many!Max({i \in Places : f[i] > 0})
             most == Many!Max({v \in Times : t[v] > 0})
             U(i) == Many!HistUpper(i)
  <1> SUFFICES ASSUME Behinds, n > 0
               PROVE  /\ Many!SoundQuantile(t, n, 50, U(At(f, n, 50)))
                      /\ Many!SoundQuantile(t, n, 95, U(At(f, n, 95)))
                      /\ Many!SoundQuantile(t, n, 99, U(At(f, n, 99)))
                      /\ Many!Close(U(top), most)
                      /\ U(At(f, n, 50)) <= U(At(f, n, 95))
                      /\ U(At(f, n, 95)) <= U(At(f, n, 99)) /\ U(At(f, n, 99)) <= U(top)
    BY DEF Many!QuantilesSound, Many!Snapshot, Many!Quantile, At, Many!Index, Places, Times
  <1>1. Behind(f, t) /\ f \in [Places -> Nat]
    BY DEF Behinds, Behind
  <1>2. n \in Nat \ {0}
    <2>1. n = Prefix(f, ManyBuckets - 1)
      BY ManySums DEF Many!Samples, Many!SumUpTo, Prefix
    <2>2. n \in Nat
      <3>1. 0 .. ManyBuckets - 1 \in SUBSET Places /\ IsFiniteSet(0 .. ManyBuckets - 1)
        BY TimesTimed DEF Places
      <3>2. [x \in 0 .. ManyBuckets - 1 |-> f[x]] \in [0 .. ManyBuckets - 1 -> Nat]
        BY <1>1, <3>1
      <3> QED
        BY <2>1, <3>1, <3>2, SumNat DEF Prefix
    <2> QED
      BY <2>2
  <1>3. n = Many!Samples(f) /\ n \in Nat \ {0}
    BY <1>2
  <1> HIDE DEF f, t, n
  <1>4. \A p \in 1 .. 99 : /\ Many!SoundQuantile(t, n, p, U(At(f, n, p)))
                           /\ At(f, n, p) \in Places /\ f[At(f, n, p)] > 0
    BY <1>1, <1>3, PercentileSound, PercentileAt
  <1>5. 50 \in 1 .. 99 /\ 95 \in 1 .. 99 /\ 99 \in 1 .. 99
    OBVIOUS
  <1>6. /\ top \in Places /\ f[top] > 0 /\ \A i \in Places : f[i] > 0 => i <= top
        /\ Many!Close(U(top), most)
    BY <1>1, <1>4, <1>5, GreatestBucket
  <1> HIDE DEF top, most
  <1>7. ASSUME NEW p \in 1 .. 99, NEW q \in 1 .. 99, p <= q
        PROVE  U(At(f, n, p)) <= U(At(f, n, q))
    <2>1. Prefix(f, At(f, n, q)) >= Many!Rank(q, n) /\ Many!Rank(p, n) <= Many!Rank(q, n)
      BY <1>1, <1>3, <1>7, PercentileAt, RankBounds
    <2>2. Prefix(f, At(f, n, q)) \in Nat /\ Many!Rank(p, n) \in Nat /\ Many!Rank(q, n) \in Nat
      <3>1. Many!Rank(p, n) \in 1 .. n /\ Many!Rank(q, n) \in 1 .. n
        BY <1>3, RankBounds
      <3>2. Prefix(f, At(f, n, q)) \in Nat
        BY <1>1, <1>4, PrefixNext
      <3> QED
        BY <1>3, <3>1, <3>2
    <2>3. Prefix(f, At(f, n, q)) >= Many!Rank(p, n)
      BY <2>1, <2>2
    <2>4. At(f, n, p) <= At(f, n, q)
      BY <1>1, <1>3, <1>4, <2>3, PercentileAt
    <2> QED
      BY <1>1, <1>4, <2>4, CountedBounds
  <1>8. U(At(f, n, 99)) <= U(top)
    BY <1>1, <1>4, <1>5, <1>6, CountedBounds
  <1>9. /\ Many!SoundQuantile(t, n, 50, U(At(f, n, 50)))
        /\ Many!SoundQuantile(t, n, 95, U(At(f, n, 95)))
        /\ Many!SoundQuantile(t, n, 99, U(At(f, n, 99)))
    BY <1>4, <1>5, Zenon
  <1>10. U(At(f, n, 50)) <= U(At(f, n, 95)) /\ U(At(f, n, 95)) <= U(At(f, n, 99))
    <2>1. 50 <= 95 /\ 95 <= 99
      OBVIOUS
    <2> QED
      BY <1>5, <1>7, <2>1, Zenon
  <1> QED
    BY <1>6, <1>8, <1>9, <1>10, Zenon DEF top, most

\* A latency is recorded in its bucket.
LEMMA BehindsRecord ==
    ASSUME Behinds, NEW d \in ManyDurations, Many!Record(d)
    PROVE  Behinds'
  <1> DEFINE x == Many!Ns(d)
             i == Many!BucketOf(x)
  <1>1. x \in Times
    BY DEF Times, Many!Latencies
  <1>2. i \in Places /\ IsFiniteSet(Times)
    BY <1>1, TimesTimed
  <1>3. /\ counts' = [counts EXCEPT ![i] = @ + 1] /\ held' = [held EXCEPT ![x] = @ + 1]
        /\ UNCHANGED <<c, moved>>
    BY DEF Many!Record, Many!drainVars
  <1>4. /\ counts \in [Places -> Nat] /\ held \in [Times -> Nat]
        /\ \A k \in Places : counts[k] = SumOf(Within(Times, Lying(k), held))
    BY DEF Behinds, Behind
  <1>a. i = Many!BucketOf(x)
    OBVIOUS
  <1> HIDE DEF x, i
  <1>5. counts' \in [Places -> Nat] /\ held' \in [Times -> Nat]
    BY <1>3, <1>4, OneMore
  <1>6. ASSUME NEW k \in Places PROVE counts'[k] = SumOf(Within(Times, Lying(k), held'))
    <2> DEFINE a == Within(Times, Lying(k), held)
               b == Within(Times, Lying(k), held')
    <2>1. a \in [Times -> Nat] /\ b \in [Times -> Nat]
      BY <1>4, <1>5, WithinType
    <2>2. \A y \in Times : y # x => b[y] = a[y]
      BY <1>3, <1>4 DEF Within
    <2>3. CASE k = i
      <3>1. x \in Lying(k)
        BY <1>1, <1>a, <2>3 DEF Lying
      <3>2. b[x] = a[x] + 1
        BY <1>1, <1>3, <1>4, <3>1 DEF Within
      <3>3. counts[k] = SumOf(a)
        BY <1>4
      <3> HIDE DEF a, b
      <3>4. SumOf(b) + a[x] = SumOf(a) + b[x] /\ SumOf(a) \in Nat /\ SumOf(b) \in Nat
        BY <1>1, <1>2, <2>1, <2>2, SumChange, SumNat
      <3>5. SumOf(b) = SumOf(a) + 1
        BY <1>1, <2>1, <3>2, <3>4
      <3>6. counts'[k] = counts[k] + 1
        BY <1>2, <1>3, <1>4, <2>3
      <3> QED
        BY <3>3, <3>5, <3>6 DEF b
    <2>4. CASE k # i
      <3>1. x \notin Lying(k)
        BY <1>a, <2>4 DEF Lying
      <3>2. a = b
        BY <1>3, <1>4, <3>1 DEF Within
      <3>3. counts'[k] = counts[k]
        BY <1>3, <1>4, <2>4
      <3> QED
        BY <1>4, <3>2, <3>3
    <2> QED
      BY <2>3, <2>4
  <1>7. Behind(counts, held)'
    BY <1>5, <1>6 DEF Behind
  <1> QED
    BY <1>3, <1>7 DEF Behinds

\* A bucket and its latencies move to the drain.
LEMMA BehindsSwap ==
    ASSUME Behinds, NEW w \in {Drainer}, Many!SwapBucket(w)
    PROVE  Behinds'
  <1> DEFINE f == c[Drainer]
             t == moved[Drainer]
             g == [f EXCEPT ![dpos[Drainer]] = counts[dpos[Drainer]]]
             i == dpos[Drainer]
             u == [v \in Times |-> IF Many!BucketOf(v) = i THEN held[v] ELSE t[v]]
  <1>1. /\ i \in Places /\ w = Drainer
        /\ c' = [c EXCEPT ![Drainer] = g] /\ counts' = [counts EXCEPT ![i] = 0]
        /\ moved' = [moved EXCEPT ![Drainer] = u]
        /\ held' = [v \in Times |-> IF Many!BucketOf(v) = i THEN 0 ELSE held[v]]
    BY DEF Many!SwapBucket, Many!Index, Places, Many!LeftSwapped, Times
  <1>2. Behind(counts, held) /\ Behind(f, t)
    BY DEF Behinds
  <1>3. /\ f \in [Places -> Nat] /\ t \in [Times -> Nat]
        /\ counts \in [Places -> Nat] /\ held \in [Times -> Nat]
    BY <1>2 DEF Behind
  <1>4. g \in [Places -> Nat] /\ u \in [Times -> Nat]
    BY <1>1, <1>3
  <1>5. c' \in [{Drainer} -> [Places -> Nat]] /\ c'[Drainer] = g
    BY <1>1, <1>4 DEF Behinds
  <1>6. moved' \in [{Drainer} -> [Times -> Nat]] /\ moved'[Drainer] = u
    BY <1>1, <1>4 DEF Behinds
  <1>7. counts' \in [Places -> Nat] /\ held' \in [Times -> Nat]
    BY <1>1, <1>3
  <1>8. ASSUME NEW k \in Places
        PROVE  /\ g[k] = SumOf(Within(Times, Lying(k), u))
               /\ counts'[k] = SumOf(Within(Times, Lying(k), held'))
    <2>1. CASE k = i
      <3>1. Within(Times, Lying(k), u) = Within(Times, Lying(k), held)
        BY <2>1 DEF Within, Lying
      <3>2. g[k] = counts[k] /\ counts'[k] = 0
        BY <1>1, <1>3, <2>1
      <3> DEFINE z == Within(Times, Lying(k), held')
      <3>3. z \in [Times -> Nat] /\ \A v \in Times : z[v] = 0
        BY <1>1, <1>7, <2>1, WithinType DEF Within, Lying
      <3> HIDE DEF z
      <3>4. SumOf(z) = 0
        BY <3>3, SumZero
      <3> QED
        BY <1>2, <3>1, <3>2, <3>4 DEF Behind, z
    <2>2. CASE k # i
      <3>1. Within(Times, Lying(k), u) = Within(Times, Lying(k), t)
        BY <2>2 DEF Within, Lying
      <3>2. Within(Times, Lying(k), held') = Within(Times, Lying(k), held)
        BY <1>1, <2>2 DEF Within, Lying
      <3>3. g[k] = f[k] /\ counts'[k] = counts[k]
        BY <1>1, <1>3, <2>2
      <3> QED
        BY <1>2, <3>1, <3>2, <3>3 DEF Behind
    <2> QED
      BY <2>1, <2>2
  <1> HIDE DEF g, u
  <1>9. Behind(counts', held') /\ Behind(c'[Drainer], moved'[Drainer])
    BY <1>4, <1>5, <1>6, <1>7, <1>8 DEF Behind
  <1> QED
    BY <1>5, <1>6, <1>9 DEF Behinds, Behind

\* The snapshot is returned and the drain has nothing.
LEMMA BehindNothing == Behind([i \in Places |-> 0], [v \in Times |-> 0])
  <1> DEFINE f == [i \in Places |-> 0]
             t == [v \in Times |-> 0]
  <1>1. ASSUME NEW i \in Places PROVE SumOf(Within(Times, Lying(i), t)) = 0
    <2> DEFINE z == Within(Times, Lying(i), t)
    <2>1. z \in [Times -> Nat] /\ \A v \in Times : z[v] = 0
      BY DEF Within
    <2> HIDE DEF z
    <2> QED
      BY <2>1, SumZero DEF z
  <1> QED
    BY <1>1 DEF Behind

LEMMA BehindsStep == Behinds /\ [Many!Next]_(Many!vars) => Behinds'
  <1> SUFFICES ASSUME Behinds, [Many!Next]_(Many!vars) PROVE Behinds'
    OBVIOUS
  <1>1. ASSUME NEW d \in ManyDurations, Many!Record(d) PROVE Behinds'
    BY <1>1, BehindsRecord
  <1>2. ASSUME NEW w \in {Drainer}, Many!SwapBucket(w) PROVE Behinds'
    BY <1>2, BehindsSwap
  <1>3. ASSUME NEW w \in {Drainer}, Many!DrainEnd(w) PROVE Behinds'
    <2>1. /\ w = Drainer /\ UNCHANGED <<counts, held>>
          /\ c' = [c EXCEPT ![w] = [i \in Places |-> 0]]
          /\ moved' = [moved EXCEPT ![w] = [v \in Times |-> 0]]
      BY <1>3 DEF Many!DrainEnd, Many!Zero, Many!NoLatency, Many!Index, Places, Times
    <2>2. /\ c' \in [{Drainer} -> [Places -> Nat]] /\ c'[Drainer] = [i \in Places |-> 0]
          /\ moved' \in [{Drainer} -> [Times -> Nat]] /\ moved'[Drainer] = [v \in Times |-> 0]
      BY <2>1 DEF Behinds
    <2> QED
      BY <2>1, <2>2, BehindNothing DEF Behinds
  <1>4. ASSUME \/ \E w \in {Drainer} : Many!DrainBegin(w) \/ Many!KeepBucket(w)
               \/ Many!ScrapeBegin \/ Many!LoadFirst \/ Many!LoadSecond
               \/ UNCHANGED Many!vars
        PROVE  Behinds'
    <2>1. UNCHANGED <<counts, held, c, moved>>
      BY <1>4 DEF Many!DrainBegin, Many!KeepBucket, Many!ScrapeBegin, Many!LoadFirst,
         Many!LoadSecond, Many!drainVars, Many!scrapeVars, Many!vars
    <2> QED
      BY <2>1 DEF Behinds
  <1> QED
    BY <1>1, <1>2, <1>3, <1>4 DEF Many!Next

\* Whatever latencies are recorded, each percentile a drain reports is a bound for its share
\* of them, within one sub-bucket of one of them, and so is the maximum (histIndex,
\* histUpper, drain).
THEOREM PercentilesSound == StatisticsSpec => []QuantilesSound
  <1> DEFINE Inv == part = "many" => Behinds
  <1>1. StatisticsInit => Inv
    <2> SUFFICES ASSUME StatisticsInit, part = "many" PROVE Behinds
      OBVIOUS
    <2>1. Many!Init
      BY DEF StatisticsInit
    <2>2. /\ counts = [i \in Places |-> 0] /\ held = [v \in Times |-> 0]
          /\ c = [w \in {Drainer} |-> [i \in Places |-> 0]]
          /\ moved = [w \in {Drainer} |-> [v \in Times |-> 0]]
      BY <2>1 DEF Many!Init, Many!Zero, Many!NoLatency, Many!Index, Places, Times
    <2>3. c[Drainer] = [i \in Places |-> 0] /\ moved[Drainer] = [v \in Times |-> 0]
      BY <2>2
    <2> QED
      BY <2>2, <2>3, BehindNothing DEF Behinds
  <1>2. Inv /\ [StatisticsNext]_<<part, histogramVars, countersVars>> => Inv'
    <2> SUFFICES ASSUME Inv, part' = "many",
                        [StatisticsNext]_<<part, histogramVars, countersVars>>
                 PROVE  Behinds'
      OBVIOUS
    <2>1. part = "many" /\ Behinds
      BY DEF StatisticsNext
    <2>2. Many!Next \/ UNCHANGED histogramVars
      BY <2>1 DEF StatisticsNext
    <2>3. [Many!Next]_(Many!vars)
      BY <2>2 DEF histogramVars, Many!vars, Many!drainVars, Many!scrapeVars
    <2> QED
      BY <2>1, <2>3, BehindsStep
  <1>3. Inv => QuantilesSound
    BY SoundOfBehinds DEF QuantilesSound
  <1> QED
    BY <1>1, <1>2, <1>3, PTL DEF StatisticsSpec

----------------------------------------------------------------------------
\* The lookup counters.
\* What the proofs need of the constants of the counters.
CounterSizes ==
    /\ IsFiniteSet(Readers) /\ Ops \subseteq {"get", "batch", "other"}
    /\ BatchLen \in Nat \ {0} /\ Width \in Nat /\ NumMaps \in Nat \ {0}
    /\ MaxOps \in Nat /\ MaxBuilds \in Nat

Mapped == 1 .. NumMaps
Words == 2 ^ Width

\* Equal up to what a counter of that width loses.
Same(a, b) == \E k \in Int : a = b + k * Words

LEMMA WordsPositive == ASSUME CounterSizes PROVE Words \in Nat \ {0}
  <1>1. IsFiniteSet(1 .. Width) /\ Cardinality(1 .. Width) = Width
    BY FS_Interval DEF CounterSizes
  <1>2. /\ IsFiniteSet(SUBSET (1 .. Width))
        /\ Cardinality(SUBSET (1 .. Width)) = 2 ^ Width
    BY <1>1, FS_SUBSET
  <1>3. SUBSET (1 .. Width) # {}
    OBVIOUS
  <1> QED
    BY <1>2, <1>3, FS_CardinalityType, FS_EmptySet DEF Words

LEMMA SameItself == ASSUME CounterSizes, NEW a \in Int PROVE Same(a, a)
  <1>1. a = a + 0 * Words
    BY WordsPositive
  <1> QED
    BY <1>1 DEF Same

LEMMA SameSwapped ==
    ASSUME CounterSizes, NEW a \in Int, NEW b \in Int, Same(a, b) PROVE Same(b, a)
  <1>1. PICK k \in Int : a = b + k * Words
    BY DEF Same
  <1>2. b = a + (-k) * Words
    BY <1>1, WordsPositive
  <1> QED
    BY <1>2 DEF Same

LEMMA SameAdded ==
    ASSUME CounterSizes, NEW a \in Int, NEW b \in Int, NEW x \in Int, NEW y \in Int,
           Same(a, b), Same(x, y)
    PROVE  Same(a + x, b + y)
  <1>1. PICK k \in Int : a = b + k * Words
    BY DEF Same
  <1>2. PICK l \in Int : x = y + l * Words
    BY DEF Same
  <1>3. a + x = b + y + (k + l) * Words
    BY <1>1, <1>2, WordsPositive
  <1>4. k + l \in Int
    OBVIOUS
  <1> QED
    BY <1>3, <1>4 DEF Same

LEMMA SameThrough ==
    ASSUME CounterSizes, NEW a \in Int, NEW b \in Int, NEW d \in Int, Same(a, b), Same(b, d)
    PROVE  Same(a, d)
  <1>1. PICK k \in Int : a = b + k * Words
    BY DEF Same
  <1>2. PICK l \in Int : b = d + l * Words
    BY DEF Same
  <1>3. a = d + (k + l) * Words
    BY <1>1, <1>2, WordsPositive
  <1>4. k + l \in Int
    OBVIOUS
  <1> QED
    BY <1>3, <1>4 DEF Same

\* A counter holds what was added to it, up to that.
LEMMA WrapSame ==
    ASSUME CounterSizes, NEW a \in Int
    PROVE  Wrap(a) \in 0 .. Words - 1 /\ Wrap(a) \in Int /\ Same(Wrap(a), a)
  <1> DEFINE w == Words
  <1>1. w \in Nat \ {0}
    BY WordsPositive
  <1>2. Wrap(a) = a % w
    BY DEF Wrap, Words
  <1>3. a % w = a + (-(a \div w)) * w
    <2> HIDE DEF w
    <2>1. a = w * (a \div w) + (a % w)
      BY <1>1
    <2>2. a \div w \in Int /\ a % w \in Int
      BY <1>1
    <2> QED
      BY <1>1, <2>1, <2>2
  <1>4. a % w \in 0 .. w - 1 /\ -(a \div w) \in Int
    <2> HIDE DEF w
    <2> QED
      BY <1>1
  <1>5. Same(a % w, a)
    BY <1>3, <1>4 DEF Same
  <1> HIDE DEF w
  <1>6. a % w \in Int
    BY <1>1, <1>4
  <1> QED
    BY <1>2, <1>4, <1>5, <1>6 DEF w

LEMMA SameWords ==
    ASSUME CounterSizes, NEW a \in 0 .. Words - 1, NEW b \in 0 .. Words - 1, Same(a, b)
    PROVE  a = b
  <1>1. PICK k \in Int : a = b + k * Words
    BY DEF Same
  <1>2. Words \in Nat \ {0}
    BY WordsPositive
  <1>3. CASE k >= 1
    <2>1. k * Words >= Words
      BY <1>2, <1>3
    <2> QED
      BY <1>1, <1>2, <2>1
  <1>4. CASE k <= -1
    <2>1. k * Words <= -Words
      BY <1>2, <1>4
    <2> QED
      BY <1>1, <1>2, <2>1
  <1>5. CASE k = 0
    BY <1>1, <1>2, <1>5
  <1> QED
    BY <1>3, <1>4, <1>5

LEMMA WrapEqual ==
    ASSUME CounterSizes, NEW a \in Int, NEW b \in Int, Same(a, b)
    PROVE  Wrap(a) = Wrap(b)
  <1>1. Same(Wrap(a), a) /\ Same(Wrap(b), b)
    BY WrapSame
  <1>2. Wrap(a) \in Int /\ Wrap(b) \in Int
    BY WrapSame
  <1>3. Same(Wrap(a), b)
    BY <1>1, <1>2, SameThrough
  <1>4. Same(b, Wrap(b))
    BY <1>1, <1>2, SameSwapped
  <1>5. Same(Wrap(a), Wrap(b))
    BY <1>2, <1>3, <1>4, SameThrough
  <1> QED
    BY <1>5, WrapSame, SameWords

LEMMA WrapSmall ==
    ASSUME CounterSizes, NEW a \in 0 .. Words - 1
    PROVE  Wrap(a) = a
  <1>1. a \in Int
    OBVIOUS
  <1> QED
    BY <1>1, WrapSame, SameWords

\* A counter is a number below Words, and adding to it makes it one.
LEMMA CounterFacts ==
    ASSUME CounterSizes
    PROVE  /\ \A a \in Int : Wrap(a) \in Counter
           /\ \A a \in Counter : a \in Nat /\ a \in Int
           /\ 0 \in Counter
  <1>1. Counter = 0 .. Words - 1
    BY DEF Counter, Words
  <1>2. Words \in Nat \ {0}
    BY WordsPositive
  <1>3. \A a \in Int : Wrap(a) \in Counter
    BY <1>1, WrapSame
  <1> QED
    BY <1>1, <1>2, <1>3

\* Mappings are installed in order, those that were not are unused, and a read is of a
\* mapping that has not been drained.
LifeInv ==
    /\ \A m \in Mapped : stage[m] = "live" <=> m = cur
    /\ \A m \in Mapped : cur # 0 /\ cur < m => stage[m] = "fresh"
    /\ \A m \in Mapped : stage[m] = "fresh" =>
          exits[m] = 0 /\ missed[m] = 0 /\ nonLookups[m] = 0 /\ batchExtra[m] = 0
    /\ \A r \in Readers : rpc[r] # "idle" =>
          rmap[r] \in Mapped /\ stage[rmap[r]] \in {"live", "old"}
    /\ \A r \in Readers : rpc[r] = "account" => rop[r] # "get"

\* Lookups() reads the counters of a mapping, while there is a window to build.
ObserverInv ==
    /\ opc \in {"exits", "nonLookups", "batchExtra"} => omap \in Mapped
    /\ opc # "idle" => builds < MaxBuilds
    /\ lastLookups <= reported

\* What the Map's total still lacks of a mapping, and what a mapping's counters have of a
\* read that is not over: a batch is counted ahead of its exit, and a Len or Scan taken
\* off ahead of it, which is Words - 1 ahead.
Held == [m \in Mapped |-> IF stage[m] \in {"fresh", "live", "old"} THEN LookupsOf(m) ELSE 0]
Kept == [m \in Mapped |-> IF stage[m] # "gone" THEN missed[m] ELSE 0]
AheadOf(op) == IF op = "batch" THEN BatchLen - 1 ELSE IF op = "other" THEN Words - 1 ELSE 0
Ahead == [r \in Readers |-> IF rpc[r] = "lookup" THEN AheadOf(rop[r]) ELSE 0]
Busy == [r \in Readers |-> IF rpc[r] = "idle" THEN 0 ELSE BatchLen]

LookupBooks == Same(retiredLookups + SumOf(Held), served + SumOf(Ahead))
MissBooks == Same(retiredMisses + SumOf(Kept), servedMisses)
ServedInv == served + SumOf(Busy) <= BatchLen * opsDone

CountersInv == /\ CountersTypeOK /\ LifeInv /\ ObserverInv
               /\ LookupBooks /\ MissBooks /\ ServedInv

LEMMA CountersType ==
    ASSUME CounterSizes, CountersTypeOK, LifeInv, ObserverInv, [CountersNext]_countersVars
    PROVE  CountersTypeOK'
  <1>w. \A a \in Int : Wrap(a) \in Counter
    BY CounterFacts
  <1>n. \A a \in Counter : a \in Nat /\ a \in Int
    BY CounterFacts
  <1>m. \A r \in Readers : rpc[r] # "idle" => rmap[r] \in Maps
    BY DEF LifeInv, Mapped, Maps
  <1>b. BatchLen \in Nat /\ NumMaps \in Nat \ {0}
    BY DEF CounterSizes
  <1>1. ASSUME NEW r \in Readers, Enter(r) PROVE CountersTypeOK'
    <2>1. PICK op \in Ops : \E k \in 0 .. Keys(op) :
              /\ rop' = [rop EXCEPT ![r] = op]
              /\ rmiss' = [rmiss EXCEPT ![r] = k]
              /\ rpc' = [rpc EXCEPT ![r] = IF op = "get" THEN "lookup" ELSE "account"]
      BY <1>1 DEF Enter
    <2>2. op \in {"get", "batch", "other"}
      BY DEF CounterSizes
    <2>3. Keys(op) \in Nat /\ Keys(op) <= BatchLen
      BY <2>2 DEF Keys, CounterSizes
    <2>4. PICK k \in 0 .. Keys(op) :
              /\ rop' = [rop EXCEPT ![r] = op]
              /\ rmiss' = [rmiss EXCEPT ![r] = k]
              /\ rpc' = [rpc EXCEPT ![r] = IF op = "get" THEN "lookup" ELSE "account"]
      BY <2>1
    <2>8. k \in 0 .. BatchLen
      BY <2>3, <1>b
    <2>5. opsDone' \in 0 .. MaxOps
      BY <1>1 DEF CountersTypeOK, Enter, CounterSizes
    <2>6. rmap' \in [Readers -> 0 .. NumMaps]
      BY <1>1 DEF CountersTypeOK, Enter
    <2>7. /\ rop' \in [Readers -> {"get", "batch", "other"}]
          /\ rpc' \in [Readers -> {"idle", "account", "lookup"}]
          /\ rmiss' \in [Readers -> 0 .. BatchLen]
      BY <2>2, <2>4, <2>8 DEF CountersTypeOK
    <2> QED
      BY <1>1, <2>5, <2>6, <2>7 DEF CountersTypeOK, Enter, mapVars, statVars, retVars, obsVars,
         trueVars
  <1>2. ASSUME NEW r \in Readers, Account(r) PROVE CountersTypeOK'
    <2>1. rmap[r] \in Maps
      BY <1>m, <1>2 DEF Account
    <2>2. /\ batchExtra' \in [Maps -> Counter] /\ nonLookups' \in [Maps -> Counter]
      <3>1. batchExtra[rmap[r]] + BatchLen - 1 \in Int /\ nonLookups[rmap[r]] + 1 \in Int
        BY <2>1, <1>n, <1>b DEF CountersTypeOK
      <3>2. /\ Wrap(batchExtra[rmap[r]] + BatchLen - 1) \in Counter
            /\ Wrap(nonLookups[rmap[r]] + 1) \in Counter
        BY <3>1, <1>w
      <3> QED
        BY <1>2, <2>1, <3>2 DEF Account, CountersTypeOK, OtherExcluded
    <2>3. rpc' \in [Readers -> {"idle", "account", "lookup"}]
      BY <1>2 DEF Account, CountersTypeOK
    <2> QED
      BY <1>2, <2>2, <2>3 DEF CountersTypeOK, Account, mapVars, retVars, obsVars, trueVars
  <1>3. ASSUME NEW r \in Readers, NoteMiss(r) PROVE CountersTypeOK'
    <2>1. rmap[r] \in Maps
      BY <1>m, <1>3 DEF NoteMiss
    <2>2. missed' \in [Maps -> Counter]
      <3>1. Wrap(missed[rmap[r]] + 1) \in Counter
        BY <2>1, <1>n, <1>w DEF CountersTypeOK
      <3> QED
        BY <1>3, <2>1, <3>1 DEF NoteMiss, CountersTypeOK
    <2>3. rmiss' \in [Readers -> 0 .. BatchLen] /\ servedMisses' \in Nat
      BY <1>3, <1>b DEF NoteMiss, CountersTypeOK
    <2> QED
      BY <1>3, <2>2, <2>3 DEF CountersTypeOK, NoteMiss, mapVars, retVars, obsVars
  <1>4. ASSUME NEW r \in Readers, Exit(r) PROVE CountersTypeOK'
    <2>1. rmap[r] \in Maps
      BY <1>m, <1>4 DEF Exit
    <2>2. exits' \in [Maps -> Counter]
      <3>1. Wrap(exits[rmap[r]] + 1) \in Counter
        BY <2>1, <1>n, <1>w DEF CountersTypeOK
      <3> QED
        BY <1>4, <2>1, <3>1 DEF Exit, CountersTypeOK
    <2>3. served' \in Nat
      <3>1. Keys(rop[r]) \in Nat
        BY <1>b DEF Keys, CountersTypeOK
      <3> QED
        BY <1>4, <3>1 DEF Exit, CountersTypeOK
    <2>4. /\ rop' \in [Readers -> {"get", "batch", "other"}]
          /\ rpc' \in [Readers -> {"idle", "account", "lookup"}]
          /\ rmap' \in [Readers -> 0 .. NumMaps]
      BY <1>4, <1>b DEF Exit, CountersTypeOK
    <2> QED
      BY <1>4, <2>2, <2>3, <2>4 DEF CountersTypeOK, Exit, mapVars, retVars, obsVars
  <1>5. CASE Swap
    BY <1>5, <1>b DEF CountersTypeOK, Swap, Maps, statVars, retVars, readVars, obsVars,
       trueVars
  <1>6. CASE Close
    BY <1>6, <1>b DEF CountersTypeOK, Close, Maps, statVars, retVars, readVars, obsVars,
       trueVars
  <1>7. ASSUME NEW m \in Maps, AddLookups(m) PROVE CountersTypeOK'
    <2>1. LookupsOf(m) \in Counter
      BY <1>w, <1>n DEF LookupsOf, CountersTypeOK
    <2>2. retiredLookups' \in Counter
      BY <1>7, <1>w, <1>n, <2>1 DEF AddLookups, CountersTypeOK
    <2>3. stage' \in [Maps -> {"fresh", "live", "old", "half", "gone"}]
      BY <1>7 DEF AddLookups, CountersTypeOK
    <2> QED
      BY <1>7, <2>2, <2>3 DEF CountersTypeOK, AddLookups, statVars, readVars, obsVars, trueVars
  <1>8. ASSUME NEW m \in Maps, AddMisses(m) PROVE CountersTypeOK'
    <2>1. retiredMisses' \in Counter
      BY <1>8, <1>w, <1>n DEF AddMisses, CountersTypeOK
    <2>2. stage' \in [Maps -> {"fresh", "live", "old", "half", "gone"}]
      BY <1>8 DEF AddMisses, CountersTypeOK
    <2> QED
      BY <1>8, <2>1, <2>2 DEF CountersTypeOK, AddMisses, statVars, readVars, obsVars, trueVars
  <1>9. CASE LoadRetired \/ LoadCur
    BY <1>9 DEF CountersTypeOK, LoadRetired, LoadCur, mapVars, statVars, retVars, readVars,
       trueVars
  <1>10. CASE LoadExits \/ LoadNonLookups \/ LoadBatchExtra
    <2>1. omap \in Maps
      BY <1>10 DEF LoadExits, LoadNonLookups, LoadBatchExtra, ObserverInv, Mapped, Maps
    <2>2. /\ on \in Int /\ exits[omap] \in Int /\ nonLookups[omap] \in Int
          /\ batchExtra[omap] \in Int
      BY <2>1, <1>n DEF CountersTypeOK
    <2>3. on' \in Counter
      BY <1>10, <1>w, <2>2 DEF LoadExits, LoadNonLookups, LoadBatchExtra
    <2> QED
      BY <1>10, <2>3 DEF CountersTypeOK, LoadExits, LoadNonLookups, LoadBatchExtra, mapVars,
         statVars, retVars, readVars, trueVars
  <1>11. CASE Window
    <2>1. Delta(on) \in Int
      BY <1>n DEF Delta, CountersTypeOK
    <2>2. reported' \in Int /\ builds' \in 0 .. MaxBuilds
      BY <1>11, <2>1 DEF Window, CountersTypeOK, ObserverInv, CounterSizes
    <2>3. on' \in Counter /\ omap' \in 0 .. NumMaps
      BY <1>11, <1>b, CounterFacts DEF Window
    <2> QED
      BY <1>11, <2>2, <2>3 DEF CountersTypeOK, Window, mapVars, statVars, retVars,
         readVars, trueVars
  <1>12. CASE UNCHANGED countersVars
    BY <1>12 DEF CountersTypeOK, countersVars, mapVars, statVars, retVars, readVars, obsVars,
       trueVars
  <1> QED
    BY <1>1, <1>2, <1>3, <1>4, <1>5, <1>6, <1>7, <1>8, <1>9, <1>10, <1>11, <1>12
       DEF CountersNext, Finished

LEMMA LifeStep ==
    ASSUME CounterSizes, CountersTypeOK, LifeInv, [CountersNext]_countersVars
    PROVE  LifeInv'
  <1>m. Maps = Mapped /\ NumMaps \in Nat \ {0} /\ cur \in 0 .. NumMaps
    BY DEF Maps, Mapped, CountersTypeOK, CounterSizes
  <1>1. ASSUME NEW r \in Readers, Enter(r) PROVE LifeInv'
    <2>1. PICK op \in Ops :
              /\ rop' = [rop EXCEPT ![r] = op]
              /\ rpc' = [rpc EXCEPT ![r] = IF op = "get" THEN "lookup" ELSE "account"]
      BY <1>1 DEF Enter
    <2>2. /\ rpc[r] = "idle" /\ cur # 0 /\ rmap' = [rmap EXCEPT ![r] = cur]
          /\ UNCHANGED <<cur, stage, exits, missed, nonLookups, batchExtra>>
      BY <1>1 DEF Enter, mapVars, statVars
    <2>3. cur \in Mapped /\ stage[cur] = "live"
      BY <1>m, <2>2 DEF LifeInv, Mapped
    <2>4. /\ \A q \in Readers : rpc'[q] # "idle" =>
                rmap'[q] \in Mapped /\ stage'[rmap'[q]] \in {"live", "old"}
          /\ \A q \in Readers : rpc'[q] = "account" => rop'[q] # "get"
      BY <2>1, <2>2, <2>3 DEF LifeInv, CountersTypeOK
    <2> QED
      BY <2>2, <2>4 DEF LifeInv
  <1>2. ASSUME NEW r \in Readers, Account(r) \/ NoteMiss(r) \/ Exit(r) PROVE LifeInv'
    <2>1. /\ rpc[r] # "idle" /\ UNCHANGED <<cur, stage>>
          /\ rpc'[r] \in {"lookup", "idle"} /\ \A q \in Readers \ {r} :
                rpc'[q] = rpc[q] /\ rop'[q] = rop[q] /\ rmap'[q] = rmap[q]
      BY <1>2 DEF Account, NoteMiss, Exit, CountersTypeOK, mapVars
    <2>2. rpc'[r] # "idle" => rmap'[r] = rmap[r]
      BY <1>2 DEF Account, NoteMiss, Exit, CountersTypeOK
    <2>3. rmap[r] \in Mapped /\ stage[rmap[r]] # "fresh"
      BY <2>1 DEF LifeInv
    <2>4. \A m \in Mapped : m # rmap[r] =>
              /\ exits'[m] = exits[m] /\ missed'[m] = missed[m]
              /\ nonLookups'[m] = nonLookups[m] /\ batchExtra'[m] = batchExtra[m]
      BY <1>2, <1>m DEF Account, NoteMiss, Exit, CountersTypeOK
    <2>5. \A m \in Mapped : stage'[m] = "fresh" =>
              exits'[m] = 0 /\ missed'[m] = 0 /\ nonLookups'[m] = 0 /\ batchExtra'[m] = 0
      BY <2>1, <2>3, <2>4 DEF LifeInv
    <2>6. \A q \in Readers : rpc'[q] # "idle" =>
              rmap'[q] \in Mapped /\ stage'[rmap'[q]] \in {"live", "old"}
      BY <2>1, <2>2 DEF LifeInv
    <2>7. \A q \in Readers : rpc'[q] = "account" => rop'[q] # "get"
      BY <2>1 DEF LifeInv
    <2> QED
      BY <2>1, <2>5, <2>6, <2>7 DEF LifeInv
  <1>3. CASE Swap
    <2>1. /\ cur \in Mapped /\ cur + 1 \in Mapped /\ cur' = cur + 1
          /\ stage' = [stage EXCEPT ![cur] = "old", ![cur + 1] = "live"]
          /\ UNCHANGED <<exits, missed, nonLookups, batchExtra, rpc, rop, rmap>>
      BY <1>3, <1>m DEF Swap, statVars, readVars, Mapped
    <2>2. /\ stage'[cur] = "old" /\ stage'[cur + 1] = "live"
          /\ \A m \in Mapped : m # cur /\ m # cur + 1 => stage'[m] = stage[m]
      BY <2>1, <1>m DEF CountersTypeOK
    <2>3. cur \in Nat \ {0} /\ \A m \in Mapped : m \in Nat
      BY <2>1 DEF Mapped
    <2>4. ASSUME NEW m \in Mapped
          PROVE  (stage'[m] = "live" <=> m = cur') /\ (cur' < m => stage'[m] = "fresh")
      <3>1. CASE m = cur
        BY <2>1, <2>2, <2>3, <3>1
      <3>2. CASE m = cur + 1
        BY <2>1, <2>2, <2>3, <3>2
      <3>3. CASE m # cur /\ m # cur + 1
        <4>1. stage'[m] = stage[m] /\ stage[m] # "live"
          BY <2>2, <3>3 DEF LifeInv
        <4>2. cur + 1 < m => stage[m] = "fresh"
          BY <2>3 DEF LifeInv
        <4> QED
          BY <2>1, <3>3, <4>1, <4>2
      <3> QED
        BY <3>1, <3>2, <3>3
    <2>5. \A m \in Mapped : stage'[m] = "fresh" => stage[m] = "fresh"
      BY <2>2
    <2>6. \A m \in Mapped : stage[m] \in {"live", "old"} => stage'[m] \in {"live", "old"}
      BY <2>2
    <2> QED
      BY <2>1, <2>4, <2>5, <2>6 DEF LifeInv
  <1>4. CASE Close
    <2>1. /\ cur \in Mapped /\ cur' = 0 /\ stage' = [stage EXCEPT ![cur] = "old"]
          /\ UNCHANGED <<exits, missed, nonLookups, batchExtra, rpc, rop, rmap>>
      BY <1>4, <1>m DEF Close, statVars, readVars, Mapped
    <2>2. /\ stage'[cur] = "old" /\ 0 \notin Mapped
          /\ \A m \in Mapped : m # cur => stage'[m] = stage[m]
      BY <2>1, <1>m DEF CountersTypeOK, Mapped
    <2>3. \A m \in Mapped : stage'[m] # "live" /\ m # 0
      BY <2>2 DEF LifeInv
    <2>4. \A m \in Mapped : stage'[m] = "fresh" => stage[m] = "fresh"
      BY <2>2
    <2>5. \A m \in Mapped : stage[m] \in {"live", "old"} => stage'[m] \in {"live", "old"}
      BY <2>2
    <2> QED
      BY <2>1, <2>3, <2>4, <2>5 DEF LifeInv
  <1>5. ASSUME NEW m \in Maps, AddLookups(m) \/ AddMisses(m) PROVE LifeInv'
    <2>1. /\ stage[m] \in {"old", "half"} /\ stage'[m] \in {"half", "gone"}
          /\ \A n \in Mapped : n # m => stage'[n] = stage[n]
          /\ UNCHANGED <<cur, exits, missed, nonLookups, batchExtra, rpc, rop, rmap>>
      BY <1>5, <1>m DEF AddLookups, AddMisses, statVars, readVars, CountersTypeOK
    <2>2. \A r \in Readers : rpc[r] # "idle" => rmap[r] # m
      BY <1>5, <1>m DEF AddLookups, AddMisses, Drained, LifeInv
    <2>3. m \in Mapped /\ m # cur /\ ~(cur # 0 /\ cur < m)
      BY <1>m, <2>1 DEF LifeInv
    <2> QED
      BY <2>1, <2>2, <2>3 DEF LifeInv
  <1>6. CASE \/ LoadRetired \/ LoadCur \/ LoadExits \/ LoadNonLookups
             \/ LoadBatchExtra \/ Window \/ UNCHANGED countersVars
    <2>1. UNCHANGED <<cur, stage, exits, missed, nonLookups, batchExtra, rpc, rop, rmap>>
      BY <1>6 DEF LoadRetired, LoadCur, LoadExits, LoadNonLookups, LoadBatchExtra,
         Window, countersVars, mapVars, statVars, readVars
    <2> QED
      BY <2>1 DEF LifeInv
  <1> QED
    BY <1>1, <1>2, <1>3, <1>4, <1>5, <1>6 DEF CountersNext, Finished

LEMMA ObserverStep ==
    ASSUME CounterSizes, CountersTypeOK, ObserverInv, [CountersNext]_countersVars
    PROVE  ObserverInv'
  <1>1. CASE LoadRetired
    BY <1>1 DEF LoadRetired, ObserverInv
  <1>2. CASE LoadCur
    <2>1. cur # 0 => cur \in Mapped
      BY DEF CountersTypeOK, Mapped, CounterSizes
    <2> QED
      BY <1>2, <2>1 DEF LoadCur, ObserverInv
  <1>3. CASE LoadExits \/ LoadNonLookups \/ LoadBatchExtra
    BY <1>3 DEF LoadExits, LoadNonLookups, LoadBatchExtra, ObserverInv
  <1>4. CASE Window
    <2>1. on \in Nat /\ lastLookups \in Nat /\ reported \in Int
      BY CounterFacts DEF CountersTypeOK
    <2>2. lastLookups' = on /\ reported' = reported + Delta(on) /\ opc' = "idle"
      BY <1>4 DEF Window
    <2>3. lastLookups' <= reported'
      BY <2>1, <2>2 DEF Delta, ObserverInv
    <2> QED
      BY <2>2, <2>3 DEF ObserverInv
  <1>5. ASSUME UNCHANGED obsVars PROVE ObserverInv'
    BY <1>5 DEF ObserverInv, obsVars
  <1>6. ASSUME NEW r \in Readers, Enter(r) \/ Account(r) \/ NoteMiss(r) \/ Exit(r)
        PROVE  UNCHANGED obsVars
    BY <1>6 DEF Enter, Account, NoteMiss, Exit
  <1>7. ASSUME NEW m \in Maps, AddLookups(m) \/ AddMisses(m) PROVE UNCHANGED obsVars
    BY <1>7 DEF AddLookups, AddMisses
  <1>8. CASE Swap \/ Close \/ UNCHANGED countersVars
    BY <1>5, <1>8 DEF Swap, Close, countersVars
  <1> QED
    BY <1>1, <1>2, <1>3, <1>4, <1>5, <1>6, <1>7, <1>8 DEF CountersNext, Finished

\* A total that follows what it is made of.
LEMMA WrapMoved ==
    ASSUME CounterSizes, NEW x \in Int, NEW y \in Int, NEW d \in Int, Same(y, x + d)
    PROVE  Same(Wrap(y), Wrap(x) + d)
  <1>1. Wrap(x) \in Int /\ Wrap(y) \in Int /\ Same(Wrap(x), x) /\ Same(Wrap(y), y)
    BY WrapSame
  <1>2. Same(x, Wrap(x)) /\ Same(d, d)
    BY <1>1, SameSwapped, SameItself
  <1>3. Same(x + d, Wrap(x) + d)
    BY <1>1, <1>2, SameAdded
  <1>4. x + d \in Int /\ Wrap(x) + d \in Int
    BY <1>1
  <1>5. Same(Wrap(y), x + d)
    BY <1>1, <1>4, SameThrough
  <1> QED
    BY <1>1, <1>3, <1>4, <1>5, SameThrough

\* One step of a counter changes what a mapping adds to the total by as much.
LEMMA ExitMoved ==
    ASSUME CounterSizes, NEW e \in Int, NEW n \in Int, NEW b \in Int
    PROVE  Same(Wrap(Wrap(e + 1) - n + b), Wrap(e - n + b) + 1)
  <1> DEFINE e2 == Wrap(e + 1)
  <1>1. e + 1 \in Int
    OBVIOUS
  <1>2. e2 \in Int /\ Same(e2, e + 1)
    BY <1>1, WrapSame
  <1> HIDE DEF e2
  <1>3. PICK k \in Int : e2 = e + 1 + k * Words
    BY <1>2 DEF Same
  <1>4. e2 - n + b = (e - n + b) + 1 + k * Words
    BY <1>2, <1>3, WordsPositive
  <1>5. Same(e2 - n + b, (e - n + b) + 1)
    BY <1>4 DEF Same
  <1>6. e2 - n + b \in Int /\ e - n + b \in Int
    BY <1>2
  <1> QED
    BY <1>5, <1>6, WrapMoved DEF e2

LEMMA BatchMoved ==
    ASSUME CounterSizes, NEW e \in Int, NEW n \in Int, NEW b \in Int
    PROVE  Same(Wrap(e - n + Wrap(b + BatchLen - 1)), Wrap(e - n + b) + (BatchLen - 1))
  <1> DEFINE b2 == Wrap(b + BatchLen - 1)
  <1>1. b + BatchLen - 1 \in Int /\ BatchLen \in Int
    BY DEF CounterSizes
  <1>2. b2 \in Int /\ Same(b2, b + BatchLen - 1)
    BY <1>1, WrapSame
  <1> HIDE DEF b2
  <1>3. PICK k \in Int : b2 = b + BatchLen - 1 + k * Words
    BY <1>2 DEF Same
  <1>4. e - n + b2 = (e - n + b) + (BatchLen - 1) + k * Words
    BY <1>1, <1>2, <1>3, WordsPositive
  <1>5. Same(e - n + b2, (e - n + b) + (BatchLen - 1))
    BY <1>4 DEF Same
  <1>6. e - n + b2 \in Int /\ e - n + b \in Int /\ BatchLen - 1 \in Int
    BY <1>1, <1>2
  <1> QED
    BY <1>5, <1>6, WrapMoved DEF b2

LEMMA OtherMoved ==
    ASSUME CounterSizes, NEW e \in Int, NEW n \in Int, NEW b \in Int
    PROVE  Same(Wrap(e - Wrap(n + 1) + b), Wrap(e - n + b) + (Words - 1))
  <1> DEFINE n2 == Wrap(n + 1)
  <1>1. n + 1 \in Int /\ Words \in Int
    BY WordsPositive
  <1>2. n2 \in Int /\ Same(n2, n + 1)
    BY <1>1, WrapSame
  <1> HIDE DEF n2
  <1>3. PICK k \in Int : n2 = n + 1 + k * Words
    BY <1>2 DEF Same
  <1>4. e - n2 + b = (e - n + b) + (Words - 1) + (-k - 1) * Words
    BY <1>1, <1>2, <1>3
  <1>5. -k - 1 \in Int
    OBVIOUS
  <1>6. Same(e - n2 + b, (e - n + b) + (Words - 1))
    BY <1>4, <1>5 DEF Same
  <1>7. e - n2 + b \in Int /\ e - n + b \in Int /\ Words - 1 \in Int
    BY <1>1, <1>2
  <1> QED
    BY <1>6, <1>7, WrapMoved DEF n2

\* The books are sums of numbers.
BooksTyped ==
    /\ Held \in [Mapped -> Nat] /\ Kept \in [Mapped -> Nat]
    /\ Ahead \in [Readers -> Nat] /\ Busy \in [Readers -> Nat]
    /\ \A m \in Mapped : /\ exits[m] \in Int /\ nonLookups[m] \in Int /\ batchExtra[m] \in Int
                         /\ missed[m] \in Int /\ LookupsOf(m) \in Int
    /\ retiredLookups \in Int /\ retiredMisses \in Int /\ served \in Int /\ servedMisses \in Int

LEMMA BooksType == ASSUME CounterSizes, CountersTypeOK PROVE BooksTyped
  <1>w. \A a \in Int : Wrap(a) \in Counter
    BY CounterFacts
  <1>n. \A a \in Counter : a \in Nat /\ a \in Int
    BY CounterFacts
  <1>m. Maps = Mapped
    BY DEF Maps, Mapped
  <1>1. \A m \in Mapped : /\ exits[m] \in Int /\ nonLookups[m] \in Int /\ batchExtra[m] \in Int
                          /\ missed[m] \in Int /\ missed[m] \in Nat
    BY <1>n, <1>m DEF CountersTypeOK
  <1>2. \A m \in Mapped : LookupsOf(m) \in Nat /\ LookupsOf(m) \in Int
    BY <1>1, <1>w, <1>n DEF LookupsOf
  <1>3. Held \in [Mapped -> Nat] /\ Kept \in [Mapped -> Nat]
    BY <1>1, <1>2 DEF Held, Kept
  <1>4. BatchLen \in Nat /\ BatchLen - 1 \in Nat /\ Words - 1 \in Nat
    BY WordsPositive DEF CounterSizes
  <1>5. Ahead \in [Readers -> Nat] /\ Busy \in [Readers -> Nat]
    BY <1>4 DEF Ahead, AheadOf, Busy
  <1>6. retiredLookups \in Int /\ retiredMisses \in Int /\ served \in Int /\ servedMisses \in Int
    BY <1>n DEF CountersTypeOK
  <1> QED
    BY <1>1, <1>2, <1>3, <1>5, <1>6 DEF BooksTyped

LEMMA BooksTypeNext == CounterSizes /\ CountersTypeOK' => BooksTyped'
  <1>1. CounterSizes /\ CountersTypeOK => BooksTyped
    BY BooksType
  <1>2. CounterSizes <=> CounterSizes'
    BY DEF CounterSizes
  <1> QED
    BY <1>1, <1>2, PTL


LEMMA SameMoved ==
    ASSUME CounterSizes, NEW a \in Int, NEW b \in Int, NEW x \in Int, NEW y \in Int,
           NEW p \in Int, NEW q \in Int, Same(a, b), Same(x, y), p - q = (a - b) + (x - y)
    PROVE  Same(p, q)
  <1> DEFINE w == Words
  <1>1. PICK k \in Int : a = b + k * w
    BY DEF Same
  <1>2. PICK l \in Int : x = y + l * w
    BY DEF Same
  <1>3. w \in Int
    BY WordsPositive
  <1> HIDE DEF w
  <1>4. (k + l) * w = k * w + l * w /\ k * w \in Int /\ l * w \in Int /\ k + l \in Int
    BY <1>3
  <1>5. p = q + (k + l) * w
    BY <1>1, <1>2, <1>4
  <1> QED
    BY <1>4, <1>5 DEF Same, w

\* The books of lookups are kept by a step that moves what one mapping holds and what one
\* read is ahead, if the two moves and those of the totals make up for each other.
LEMMA LookupsKept ==
    ASSUME CounterSizes, CountersTypeOK, CountersTypeOK', LookupBooks,
           NEW m \in Mapped, NEW r \in Readers,
           \A n \in Mapped : n # m => Held'[n] = Held[n],
           \A q \in Readers : q # r => Ahead'[q] = Ahead[q],
           Same(retiredLookups' + Held'[m] + (served + Ahead[r]),
                retiredLookups + Held[m] + (served' + Ahead'[r]))
    PROVE  LookupBooks'
  <1>1. BooksTyped /\ BooksTyped'
    BY BooksType, BooksTypeNext
  <1>2. IsFiniteSet(Mapped) /\ IsFiniteSet(Readers)
    BY FS_Interval DEF Mapped, CounterSizes
  <1>3. /\ SumOf(Held) \in Nat /\ SumOf(Held') \in Nat
        /\ SumOf(Ahead) \in Nat /\ SumOf(Ahead') \in Nat
    BY <1>1, <1>2, SumNat DEF BooksTyped
  <1>4. SumOf(Held') + Held[m] = SumOf(Held) + Held'[m]
    BY <1>1, <1>2, SumChange DEF BooksTyped
  <1>5. SumOf(Ahead') + Ahead[r] = SumOf(Ahead) + Ahead'[r]
    BY <1>1, <1>2, SumChange DEF BooksTyped
  <1> DEFINE R1 == retiredLookups   R2 == retiredLookups'
             S1 == served           S2 == served'
             H1 == SumOf(Held)      H2 == SumOf(Held')
             A1 == SumOf(Ahead)     A2 == SumOf(Ahead')
             h1 == Held[m]          h2 == Held'[m]
             a1 == Ahead[r]         a2 == Ahead'[r]
  <1>6. /\ H1 \in Int /\ H2 \in Int /\ A1 \in Int /\ A2 \in Int
        /\ h1 \in Int /\ h2 \in Int /\ a1 \in Int /\ a2 \in Int
        /\ R1 \in Int /\ R2 \in Int /\ S1 \in Int /\ S2 \in Int
    BY <1>1, <1>3 DEF BooksTyped
  <1>7. H2 + h1 = H1 + h2 /\ A2 + a1 = A1 + a2
    BY <1>4, <1>5
  <1>8. Same(R1 + H1, S1 + A1) /\ Same(R2 + h2 + (S1 + a1), R1 + h1 + (S2 + a2))
    BY DEF LookupBooks
  <1>9. LookupBooks' <=> Same(R2 + H2, S2 + A2)
    BY DEF LookupBooks
  <1> HIDE DEF R1, R2, S1, S2, H1, H2, A1, A2, h1, h2, a1, a2
  <1>10. (R2 + H2) - (S2 + A2)
            = ((R1 + H1) - (S1 + A1)) + ((R2 + h2 + (S1 + a1)) - (R1 + h1 + (S2 + a2)))
    BY <1>6, <1>7
  <1>11. /\ R1 + H1 \in Int /\ S1 + A1 \in Int /\ R2 + h2 + (S1 + a1) \in Int
         /\ R1 + h1 + (S2 + a2) \in Int /\ R2 + H2 \in Int /\ S2 + A2 \in Int
    BY <1>6
  <1>12. Same(R2 + H2, S2 + A2)
    BY <1>8, <1>10, <1>11, SameMoved
  <1> QED
    BY <1>9, <1>12

\* The same with no read at work, and for misses.
LEMMA LookupsTaken ==
    ASSUME CounterSizes, CountersTypeOK, CountersTypeOK', LookupBooks,
           NEW m \in Mapped, UNCHANGED <<served, Ahead>>,
           \A n \in Mapped : n # m => Held'[n] = Held[n],
           Same(retiredLookups' + Held'[m], retiredLookups + Held[m])
    PROVE  LookupBooks'
  <1>1. BooksTyped /\ BooksTyped'
    BY BooksType, BooksTypeNext
  <1>2. IsFiniteSet(Mapped) /\ IsFiniteSet(Readers)
    BY FS_Interval DEF Mapped, CounterSizes
  <1>3. SumOf(Held) \in Nat /\ SumOf(Held') \in Nat /\ SumOf(Ahead) \in Nat
    BY <1>1, <1>2, SumNat DEF BooksTyped
  <1>4. SumOf(Held') + Held[m] = SumOf(Held) + Held'[m]
    BY <1>1, <1>2, SumChange DEF BooksTyped
  <1> DEFINE R1 == retiredLookups   R2 == retiredLookups'
             H1 == SumOf(Held)      H2 == SumOf(Held')
             h1 == Held[m]          h2 == Held'[m]
             A == SumOf(Ahead)      S == served
  <1>6. /\ H1 \in Int /\ H2 \in Int /\ A \in Int /\ h1 \in Int /\ h2 \in Int
        /\ R1 \in Int /\ R2 \in Int /\ S \in Int
    BY <1>1, <1>3 DEF BooksTyped
  <1>7. H2 + h1 = H1 + h2
    BY <1>4
  <1>8. Same(R1 + H1, S + A) /\ Same(R2 + h2, R1 + h1)
    BY DEF LookupBooks
  <1>9. LookupBooks' <=> Same(R2 + H2, S + A)
    BY DEF LookupBooks
  <1> HIDE DEF R1, R2, S, H1, H2, A, h1, h2
  <1>10. (R2 + H2) - (S + A) = ((R1 + H1) - (S + A)) + ((R2 + h2) - (R1 + h1))
    BY <1>6, <1>7
  <1>11. /\ R1 + H1 \in Int /\ S + A \in Int /\ R2 + h2 \in Int
         /\ R1 + h1 \in Int /\ R2 + H2 \in Int /\ S + A \in Int
    BY <1>6
  <1>12. Same(R2 + H2, S + A)
    BY <1>8, <1>10, <1>11, SameMoved
  <1> QED
    BY <1>9, <1>12

LEMMA MissesMoved ==
    ASSUME CounterSizes, CountersTypeOK, CountersTypeOK', MissBooks, NEW m \in Mapped,
           \A n \in Mapped : n # m => Kept'[n] = Kept[n],
           Same(retiredMisses' + Kept'[m] + servedMisses, retiredMisses + Kept[m] + servedMisses')
    PROVE  MissBooks'
  <1>1. BooksTyped /\ BooksTyped'
    BY BooksType, BooksTypeNext
  <1>2. IsFiniteSet(Mapped)
    BY FS_Interval DEF Mapped, CounterSizes
  <1>3. SumOf(Kept) \in Nat /\ SumOf(Kept') \in Nat
    BY <1>1, <1>2, SumNat DEF BooksTyped
  <1>4. SumOf(Kept') + Kept[m] = SumOf(Kept) + Kept'[m]
    BY <1>1, <1>2, SumChange DEF BooksTyped
  <1> DEFINE R1 == retiredMisses   R2 == retiredMisses'
             S1 == servedMisses    S2 == servedMisses'
             H1 == SumOf(Kept)     H2 == SumOf(Kept')
             h1 == Kept[m]         h2 == Kept'[m]
  <1>6. /\ H1 \in Int /\ H2 \in Int /\ h1 \in Int /\ h2 \in Int
        /\ R1 \in Int /\ R2 \in Int /\ S1 \in Int /\ S2 \in Int
    BY <1>1, <1>3 DEF BooksTyped
  <1>7. H2 + h1 = H1 + h2
    BY <1>4
  <1>8. Same(R1 + H1, S1) /\ Same(R2 + h2 + S1, R1 + h1 + S2)
    BY DEF MissBooks
  <1>9. MissBooks' <=> Same(R2 + H2, S2)
    BY DEF MissBooks
  <1> HIDE DEF R1, R2, S1, S2, H1, H2, h1, h2
  <1>10. (R2 + H2) - (S2) = ((R1 + H1) - (S1)) + ((R2 + h2 + S1) - (R1 + h1 + S2))
    BY <1>6, <1>7
  <1>11. /\ R1 + H1 \in Int /\ S1 \in Int /\ R2 + h2 + S1 \in Int
         /\ R1 + h1 + S2 \in Int /\ R2 + H2 \in Int /\ S2 \in Int
    BY <1>6
  <1>12. Same(R2 + H2, S2)
    BY <1>8, <1>10, <1>11, SameMoved
  <1> QED
    BY <1>9, <1>12

\* The bound on the lookups served moves with one read.
LEMMA ServedMoved ==
    ASSUME CounterSizes, CountersTypeOK, CountersTypeOK', ServedInv, NEW r \in Readers,
           \A q \in Readers : q # r => Busy'[q] = Busy[q],
           served' + Busy'[r] + BatchLen * opsDone <= served + Busy[r] + BatchLen * opsDone'
    PROVE  ServedInv'
  <1>1. BooksTyped /\ BooksTyped'
    BY BooksType, BooksTypeNext
  <1>2. IsFiniteSet(Readers)
    BY DEF CounterSizes
  <1>3. SumOf(Busy) \in Nat /\ SumOf(Busy') \in Nat
    BY <1>1, <1>2, SumNat DEF BooksTyped
  <1>4. SumOf(Busy') + Busy[r] = SumOf(Busy) + Busy'[r]
    BY <1>1, <1>2, SumChange DEF BooksTyped
  <1>5. BatchLen * opsDone \in Int /\ BatchLen * opsDone' \in Int
    BY DEF CounterSizes, CountersTypeOK
  <1> DEFINE S1 == served        S2 == served'
             H1 == SumOf(Busy)   H2 == SumOf(Busy')
             h1 == Busy[r]       h2 == Busy'[r]
             E1 == BatchLen * opsDone   E2 == BatchLen * opsDone'
  <1>6. /\ H1 \in Int /\ H2 \in Int /\ h1 \in Int /\ h2 \in Int
        /\ E1 \in Int /\ E2 \in Int /\ S1 \in Int /\ S2 \in Int
    BY <1>1, <1>3, <1>5 DEF BooksTyped
  <1>7. H2 + h1 = H1 + h2 /\ S1 + H1 <= E1 /\ S2 + h2 + E1 <= S1 + h1 + E2
    BY <1>4 DEF ServedInv
  <1>8. ServedInv' <=> S2 + H2 <= E2
    BY DEF ServedInv
  <1> HIDE DEF S1, S2, H1, H2, h1, h2, E1, E2
  <1>9. S2 + H2 <= E2
    BY <1>6, <1>7
  <1> QED
    BY <1>8, <1>9

\* A read that exits has been counted ahead of its exit by all its keys but one.
LEMMA AheadFacts ==
    ASSUME CounterSizes, NEW op \in {"get", "batch", "other"}
    PROVE  /\ AheadOf(op) \in Int /\ Keys(op) \in Int /\ Keys(op) <= BatchLen
           /\ Same(AheadOf(op) + 1, Keys(op))
  <1>1. BatchLen \in Int /\ BatchLen >= 1 /\ Words \in Int /\ 0 \in Int
    BY WordsPositive DEF CounterSizes
  <1>2. CASE op = "get"
    <2>1. AheadOf(op) = 0 /\ Keys(op) = 1
      BY <1>2 DEF AheadOf, Keys
    <2>2. Same(1, 1)
      BY SameItself
    <2> QED
      BY <1>1, <2>1, <2>2
  <1>3. CASE op = "batch"
    <2>1. AheadOf(op) = BatchLen - 1 /\ Keys(op) = BatchLen
      BY <1>3 DEF AheadOf, Keys
    <2>2. AheadOf(op) + 1 = BatchLen
      BY <1>1, <2>1
    <2>3. Same(BatchLen, BatchLen)
      BY <1>1, SameItself
    <2> QED
      BY <1>1, <2>1, <2>2, <2>3
  <1>4. CASE op = "other"
    <2>1. AheadOf(op) = Words - 1 /\ Keys(op) = 0
      BY <1>4 DEF AheadOf, Keys
    <2>2. AheadOf(op) + 1 = 0 + 1 * Words
      BY <1>1, <2>1
    <2>3. Same(AheadOf(op) + 1, 0)
      BY <2>2 DEF Same
    <2> QED
      BY <1>1, <2>1, <2>3
  <1> QED
    BY <1>2, <1>3, <1>4

\* What the steps leave alone.
LEMMA HeldUnmoved ==
    ASSUME UNCHANGED <<stage, exits, nonLookups, batchExtra>> PROVE Held' = Held
  BY DEF Held, LookupsOf

LEMMA KeptUnmoved == ASSUME UNCHANGED <<stage, missed>> PROVE Kept' = Kept
  BY DEF Kept

LEMMA ReadsUnmoved ==
    ASSUME UNCHANGED <<rpc, rop>> PROVE Ahead' = Ahead /\ Busy' = Busy
  BY DEF Ahead, Busy, AheadOf, Words

LEMMA EnterBooks ==
    ASSUME CounterSizes, CountersTypeOK, CountersTypeOK', LookupBooks, MissBooks, ServedInv,
           NEW r \in Readers, Enter(r)
    PROVE  LookupBooks' /\ MissBooks' /\ ServedInv'
  <1>1. PICK op \in Ops :
            /\ rop' = [rop EXCEPT ![r] = op]
            /\ rpc' = [rpc EXCEPT ![r] = IF op = "get" THEN "lookup" ELSE "account"]
    BY DEF Enter
  <1>2. /\ rpc[r] = "idle" /\ opsDone' = opsDone + 1
        /\ UNCHANGED <<stage, exits, missed, nonLookups, batchExtra, retiredLookups,
                       retiredMisses, served, servedMisses>>
    BY DEF Enter, mapVars, statVars, retVars, trueVars
  <1>3. Held' = Held /\ Kept' = Kept
    BY <1>2, HeldUnmoved, KeptUnmoved
  <1>4. \A q \in Readers : q # r => rpc'[q] = rpc[q] /\ rop'[q] = rop[q]
    BY <1>1 DEF CountersTypeOK
  <1>5. /\ Ahead[r] = 0 /\ Busy[r] = 0
        /\ Ahead'[r] = 0 /\ Busy'[r] = BatchLen
    BY <1>1, <1>2 DEF Ahead, Busy, AheadOf, CountersTypeOK
  <1>6. \A q \in Readers : q # r => Ahead'[q] = Ahead[q] /\ Busy'[q] = Busy[q]
    BY <1>4 DEF Ahead, Busy, AheadOf, Words
  <1>7. Ahead' = Ahead
    <2>1. \A q \in Readers : Ahead'[q] = Ahead[q]
      BY <1>5, <1>6
    <2> QED
      BY <2>1 DEF Ahead
  <1>8. LookupBooks' /\ MissBooks'
    BY <1>2, <1>3, <1>7 DEF LookupBooks, MissBooks, Same, Words
  <1>9. served' + Busy'[r] + BatchLen * opsDone <= served + Busy[r] + BatchLen * opsDone'
    <2>1. served \in Int /\ BatchLen \in Int /\ opsDone \in Int
      BY DEF CountersTypeOK, CounterSizes
    <2>2. BatchLen * (opsDone + 1) = BatchLen * opsDone + BatchLen /\ BatchLen * opsDone \in Int
      BY <2>1
    <2>3. served + BatchLen + BatchLen * opsDone <= served + 0 + (BatchLen * opsDone + BatchLen)
      BY <2>1, <2>2
    <2> QED
      BY <1>2, <1>5, <2>2, <2>3
  <1>10. ServedInv'
    BY <1>6, <1>9, ServedMoved
  <1> QED
    BY <1>8, <1>10

\* What a mapping holds moves when a read of it counts, and nothing else does.
LEMMA AccountBooks ==
    ASSUME CounterSizes, CountersTypeOK, CountersTypeOK', LifeInv,
           LookupBooks, MissBooks, ServedInv,
           NEW r \in Readers, Account(r)
    PROVE  LookupBooks' /\ MissBooks' /\ ServedInv'
  <1>0. PICK m \in Mapped : m = rmap[r]
    BY DEF Account, LifeInv
  <1>1. /\ rpc[r] = "account" /\ m \in Mapped /\ stage[m] \in {"live", "old"}
        /\ rop[r] \in {"batch", "other"}
    BY <1>0 DEF Account, LifeInv, CountersTypeOK
  <1>2. /\ rpc' = [rpc EXCEPT ![r] = "lookup"]
        /\ UNCHANGED <<stage, exits, missed, retiredLookups, retiredMisses, rop, opsDone,
                       served, servedMisses>>
    BY DEF Account, mapVars, retVars, trueVars
  <1>3. BooksTyped /\ BooksTyped'
    BY BooksType, BooksTypeNext
  <1>4. Maps = Mapped
    BY DEF Maps, Mapped
  <1>5. Same(LookupsOf(m)', LookupsOf(m) + AheadOf(rop[r]))
    <2>1. /\ exits[m] \in Int /\ nonLookups[m] \in Int /\ batchExtra[m] \in Int
      BY <1>1, <1>3 DEF BooksTyped
    <2>2. CASE rop[r] = "batch"
      <3>1. /\ batchExtra'[m] = Wrap(batchExtra[m] + BatchLen - 1)
            /\ nonLookups'[m] = nonLookups[m] /\ exits'[m] = exits[m]
        BY <1>0, <1>1, <1>2, <1>4, <2>2 DEF Account, CountersTypeOK
      <3>2. AheadOf(rop[r]) = BatchLen - 1
        BY <2>2 DEF AheadOf
      <3>3. LookupsOf(m)' = Wrap(exits[m] - nonLookups[m]
                                     + Wrap(batchExtra[m] + BatchLen - 1))
        BY <1>2, <3>1 DEF LookupsOf
      <3> QED
        BY <2>1, <3>2, <3>3, BatchMoved DEF LookupsOf
    <2>3. CASE rop[r] = "other"
      <3>1. /\ nonLookups'[m] = Wrap(nonLookups[m] + 1)
            /\ batchExtra'[m] = batchExtra[m] /\ exits'[m] = exits[m]
        BY <1>0, <1>1, <1>2, <1>4, <2>3 DEF Account, CountersTypeOK, OtherExcluded
      <3>2. AheadOf(rop[r]) = Words - 1
        BY <2>3 DEF AheadOf
      <3>3. LookupsOf(m)' = Wrap(exits[m] - Wrap(nonLookups[m] + 1) + batchExtra[m])
        BY <1>2, <3>1 DEF LookupsOf
      <3> QED
        BY <2>1, <3>2, <3>3, OtherMoved DEF LookupsOf
    <2> QED
      BY <1>1, <2>2, <2>3
  <1>6. /\ Held[m] = LookupsOf(m) /\ Held'[m] = LookupsOf(m)'
        /\ Ahead[r] = 0 /\ Ahead'[r] = AheadOf(rop[r])
    <2>1. Held[m] = LookupsOf(m)
      BY <1>1 DEF Held
    <2>2. Held'[m] = LookupsOf(m)'
      BY <1>1, <1>2 DEF Held, LookupsOf
    <2>3. Ahead[r] = 0
      BY <1>1 DEF Ahead
    <2>4. Ahead'[r] = AheadOf(rop[r])
      BY <1>2 DEF Ahead, AheadOf, Words, CountersTypeOK
    <2> QED
      BY <2>1, <2>2, <2>3, <2>4
  <1>7. \A n \in Mapped : n # m => Held'[n] = Held[n]
    BY <1>0, <1>1, <1>2, <1>4 DEF Account, Held, LookupsOf, CountersTypeOK
  <1>8. \A q \in Readers : q # r => Ahead'[q] = Ahead[q]
    BY <1>2 DEF Ahead, AheadOf, Words, CountersTypeOK
  <1>9. Same(retiredLookups' + Held'[m] + (served + Ahead[r]),
             retiredLookups + Held[m] + (served' + Ahead'[r]))
    <2> DEFINE R == retiredLookups   S == served   x == LookupsOf(m)'
               y == LookupsOf(m)   d == AheadOf(rop[r])
    <2>1. R \in Int /\ S \in Int /\ x \in Int /\ y \in Int /\ d \in Int
      BY <1>1, <1>3, AheadFacts DEF BooksTyped
    <2>2. Same(x, y + d)
      BY <1>5
    <2> HIDE DEF R, S, x, y, d
    <2>3. Same(0, 0)
      BY SameItself
    <2>4. R + x + (S + 0) \in Int /\ R + y + (S + d) \in Int /\ y + d \in Int /\ 0 \in Int
      BY <2>1
    <2>5. (R + x + (S + 0)) - (R + y + (S + d)) = (0 - 0) + (x - (y + d))
      BY <2>1
    <2>6. Same(R + x + (S + 0), R + y + (S + d))
      BY <2>1, <2>2, <2>3, <2>4, <2>5, SameMoved
    <2> QED
      BY <1>2, <1>6, <2>6 DEF R, S, x, y, d
  <1>10. LookupBooks'
    BY <1>1, <1>7, <1>8, <1>9, LookupsKept
  <1>11. Kept' = Kept /\ Busy' = Busy
    <2>1. Kept' = Kept
      BY <1>2, KeptUnmoved
    <2>2. Busy' = Busy
      BY <1>1, <1>2 DEF Busy, CountersTypeOK
    <2> QED
      BY <2>1, <2>2
  <1> QED
    BY <1>2, <1>10, <1>11 DEF MissBooks, ServedInv, Same, Words

LEMMA ExitBooks ==
    ASSUME CounterSizes, CountersTypeOK, CountersTypeOK', LifeInv,
           LookupBooks, MissBooks, ServedInv,
           NEW r \in Readers, Exit(r)
    PROVE  LookupBooks' /\ MissBooks' /\ ServedInv'
  <1>0. PICK m \in Mapped : m = rmap[r]
    BY DEF Exit, LifeInv
  <1>a. PICK op \in {"get", "batch", "other"} : op = rop[r]
    BY DEF CountersTypeOK
  <1>1. rpc[r] = "lookup" /\ stage[m] \in {"live", "old"}
    BY <1>0 DEF Exit, LifeInv, CountersTypeOK
  <1>2. /\ rpc' = [rpc EXCEPT ![r] = "idle"] /\ rop' = [rop EXCEPT ![r] = "get"]
        /\ served' = served + Keys(op)
        /\ UNCHANGED <<stage, missed, nonLookups, batchExtra, retiredLookups, retiredMisses,
                       opsDone, servedMisses>>
    BY <1>a DEF Exit, mapVars, retVars
  <1>3. BooksTyped /\ BooksTyped'
    BY BooksType, BooksTypeNext
  <1>4. Maps = Mapped
    BY DEF Maps, Mapped
  <1>5. Same(LookupsOf(m)', LookupsOf(m) + 1)
    <2>1. /\ exits[m] \in Int /\ nonLookups[m] \in Int /\ batchExtra[m] \in Int
      BY <1>1, <1>3 DEF BooksTyped
    <2>2. /\ exits'[m] = Wrap(exits[m] + 1)
          /\ nonLookups'[m] = nonLookups[m] /\ batchExtra'[m] = batchExtra[m]
      BY <1>0, <1>1, <1>2, <1>4 DEF Exit, CountersTypeOK
    <2>3. LookupsOf(m)' = Wrap(Wrap(exits[m] + 1) - nonLookups[m] + batchExtra[m])
      BY <1>2, <2>2 DEF LookupsOf
    <2> QED
      BY <2>1, <2>3, ExitMoved DEF LookupsOf
  <1>6. /\ Held[m] = LookupsOf(m) /\ Held'[m] = LookupsOf(m)'
        /\ Ahead[r] = AheadOf(op) /\ Ahead'[r] = 0
    <2>1. Held[m] = LookupsOf(m)
      BY <1>1 DEF Held
    <2>2. Held'[m] = LookupsOf(m)'
      BY <1>1, <1>2 DEF Held, LookupsOf
    <2>3. Ahead[r] = AheadOf(op)
      BY <1>1, <1>a DEF Ahead
    <2>4. Ahead'[r] = 0
      BY <1>2 DEF Ahead, CountersTypeOK
    <2> QED
      BY <2>1, <2>2, <2>3, <2>4
  <1>7. \A n \in Mapped : n # m => Held'[n] = Held[n]
    BY <1>0, <1>1, <1>2, <1>4 DEF Exit, Held, LookupsOf, CountersTypeOK
  <1>8. \A q \in Readers : q # r => Ahead'[q] = Ahead[q] /\ Busy'[q] = Busy[q]
    BY <1>2 DEF Ahead, Busy, AheadOf, Words, CountersTypeOK
  <1>9. Same(retiredLookups' + Held'[m] + (served + Ahead[r]),
             retiredLookups + Held[m] + (served' + Ahead'[r]))
    <2> DEFINE R == retiredLookups   S == served   x == LookupsOf(m)'
               y == LookupsOf(m)   d == AheadOf(op)   k == Keys(op)
    <2>1. R \in Int /\ S \in Int /\ x \in Int /\ y \in Int /\ d \in Int /\ k \in Int
      BY <1>1, <1>3, AheadFacts DEF BooksTyped
    <2>2. Same(x, y + 1) /\ Same(d + 1, k)
      BY <1>1, <1>5, AheadFacts
    <2> HIDE DEF R, S, x, y, d, k
    <2>4. /\ R + x + (S + d) \in Int /\ R + y + ((S + k) + 0) \in Int
          /\ y + 1 \in Int /\ d + 1 \in Int
      BY <2>1
    <2>5. (R + x + (S + d)) - (R + y + ((S + k) + 0)) = (x - (y + 1)) + ((d + 1) - k)
      BY <2>1
    <2>6. Same(R + x + (S + d), R + y + ((S + k) + 0))
      BY <2>1, <2>2, <2>4, <2>5, SameMoved
    <2> QED
      BY <1>2, <1>6, <2>6 DEF R, S, x, y, d, k
  <1>10. LookupBooks'
    BY <1>1, <1>7, <1>8, <1>9, LookupsKept
  <1>11. MissBooks'
    BY <1>2, KeptUnmoved DEF MissBooks, Same, Words
  <1>12. ServedInv'
    <2>1. Busy[r] = BatchLen /\ Busy'[r] = 0
      BY <1>1, <1>2 DEF Busy, CountersTypeOK
    <2>2. /\ Keys(op) \in Int /\ Keys(op) <= BatchLen /\ served \in Int
          /\ BatchLen \in Int /\ BatchLen * opsDone \in Int
      BY <1>1, <1>3, AheadFacts DEF BooksTyped, CountersTypeOK, CounterSizes
    <2>3. served' + Busy'[r] + BatchLen * opsDone <= served + Busy[r] + BatchLen * opsDone'
      <3> DEFINE k == Keys(op)   E == BatchLen * opsDone
      <3>1. k \in Int /\ k <= BatchLen /\ E \in Int
        BY <2>2
      <3> HIDE DEF k, E
      <3>2. (served + k) + 0 + E <= served + BatchLen + E
        BY <2>2, <3>1
      <3> QED
        BY <1>2, <2>1, <3>2 DEF k, E
    <2> QED
      BY <1>8, <2>3, ServedMoved
  <1> QED
    BY <1>10, <1>11, <1>12

LEMMA MissBooked ==
    ASSUME CounterSizes, CountersTypeOK, CountersTypeOK', LifeInv,
           LookupBooks, MissBooks, ServedInv,
           NEW r \in Readers, NoteMiss(r)
    PROVE  LookupBooks' /\ MissBooks' /\ ServedInv'
  <1>0. PICK m \in Mapped : m = rmap[r]
    BY DEF NoteMiss, LifeInv
  <1>1. rpc[r] = "lookup" /\ stage[m] \in {"live", "old"}
    BY <1>0 DEF NoteMiss, LifeInv
  <1>2. /\ servedMisses' = servedMisses + 1
        /\ UNCHANGED <<stage, exits, nonLookups, batchExtra, retiredLookups, retiredMisses,
                       rpc, rop, opsDone, served>>
    BY DEF NoteMiss, mapVars, retVars
  <1>3. BooksTyped /\ BooksTyped' /\ Maps = Mapped
    BY BooksType, BooksTypeNext DEF Maps, Mapped
  <1>4. LookupBooks' /\ ServedInv'
    BY <1>2, HeldUnmoved, ReadsUnmoved DEF LookupBooks, ServedInv, Same, Words
  <1>5. missed' = [missed EXCEPT ![m] = Wrap(missed[m] + 1)] /\ missed[m] \in Int
    BY <1>0, <1>1, <1>3 DEF NoteMiss, BooksTyped
  <1>6. \A n \in Mapped : n # m => Kept'[n] = Kept[n]
    BY <1>2, <1>3, <1>5 DEF Kept, CountersTypeOK
  <1>7. Kept[m] = missed[m] /\ Kept'[m] = Wrap(missed[m] + 1)
    BY <1>1, <1>2, <1>3, <1>5 DEF Kept, CountersTypeOK
  <1>8. Same(retiredMisses' + Kept'[m] + servedMisses, retiredMisses + Kept[m] + servedMisses')
    <2> DEFINE R == retiredMisses   S == servedMisses   y == missed[m]   x == Wrap(y + 1)
    <2>1. R \in Int /\ S \in Int /\ y \in Int /\ y + 1 \in Int
      BY <1>3, <1>5 DEF BooksTyped
    <2>2. x \in Int /\ Same(x, y + 1)
      BY <2>1, WrapSame
    <2> HIDE DEF R, S, x, y
    <2>3. Same(0, 0)
      BY SameItself
    <2>4. R + x + S \in Int /\ R + y + (S + 1) \in Int /\ 0 \in Int
      BY <2>1, <2>2
    <2>5. (R + x + S) - (R + y + (S + 1)) = (0 - 0) + (x - (y + 1))
      BY <2>1, <2>2
    <2>6. Same(R + x + S, R + y + (S + 1))
      BY <2>1, <2>2, <2>3, <2>4, <2>5, SameMoved
    <2> QED
      BY <1>2, <1>7, <2>6 DEF R, S, x, y
  <1>9. MissBooks'
    BY <1>1, <1>6, <1>8, MissesMoved
  <1> QED
    BY <1>4, <1>9

\* A swap and Close move nothing: the mapping installed has counted nothing yet.
LEMMA SwapBooks ==
    ASSUME CounterSizes, CountersTypeOK, LifeInv, LookupBooks, MissBooks, ServedInv,
           Swap \/ Close
    PROVE  LookupBooks' /\ MissBooks' /\ ServedInv'
  <1>1. /\ UNCHANGED <<exits, missed, nonLookups, batchExtra, retiredLookups, retiredMisses,
                       rpc, rop, opsDone, served, servedMisses>>
    BY DEF Swap, Close, statVars, retVars, readVars, trueVars
  <1>2. Maps = Mapped /\ cur \in 0 .. NumMaps /\ NumMaps \in Nat
    BY DEF Maps, Mapped, CountersTypeOK, CounterSizes
  <1>3. \A m \in Mapped : LookupsOf(m)' = LookupsOf(m)
    BY <1>1 DEF LookupsOf
  <1>4. \A m \in Mapped : (stage'[m] = "gone" <=> stage[m] = "gone")
                          /\ (stage'[m] \in {"fresh", "live", "old"}
                              <=> stage[m] \in {"fresh", "live", "old"})
    <2>1. CASE Swap
      <3>1. cur \in Mapped /\ cur + 1 \in Mapped /\ cur < cur + 1 /\ cur # 0
        BY <1>2, <2>1 DEF Swap, Mapped
      <3>2. stage[cur] = "live" /\ stage[cur + 1] = "fresh"
        BY <3>1 DEF LifeInv
      <3>3. stage' = [stage EXCEPT ![cur] = "old", ![cur + 1] = "live"]
        BY <2>1 DEF Swap
      <3> QED
        BY <1>2, <3>1, <3>2, <3>3 DEF CountersTypeOK
    <2>2. CASE Close
      <3>1. cur \in Mapped
        BY <1>2, <2>2 DEF Close, Mapped
      <3>2. stage[cur] = "live"
        BY <3>1 DEF LifeInv
      <3> QED
        BY <1>2, <2>2, <3>1, <3>2 DEF Close, CountersTypeOK
    <2> QED
      BY <2>1, <2>2
  <1>5. Held' = Held
    <2>1. \A m \in Mapped : Held'[m] = Held[m]
      BY <1>3, <1>4 DEF Held
    <2> QED
      BY <2>1 DEF Held
  <1>6. Kept' = Kept
    <2>1. \A m \in Mapped : Kept'[m] = Kept[m]
      BY <1>1, <1>4 DEF Kept
    <2> QED
      BY <2>1 DEF Kept
  <1> QED
    BY <1>1, <1>5, <1>6, ReadsUnmoved DEF LookupBooks, MissBooks, ServedInv, Same, Words

\* A transfer moves to the Map's totals what the mapping held.
LEMMA RetireBooks ==
    ASSUME CounterSizes, CountersTypeOK, CountersTypeOK', LookupBooks, MissBooks, ServedInv,
           NEW m \in Mapped, AddLookups(m) \/ AddMisses(m)
    PROVE  LookupBooks' /\ MissBooks' /\ ServedInv'
  <1>1. /\ UNCHANGED <<exits, missed, nonLookups, batchExtra, rpc, rop, opsDone,
                       served, servedMisses>>
    BY DEF AddLookups, AddMisses, statVars, readVars, trueVars
  <1>2. Maps = Mapped /\ BooksTyped /\ BooksTyped'
    BY BooksType, BooksTypeNext DEF Maps, Mapped
  <1>3. Ahead' = Ahead /\ Busy' = Busy
    BY <1>1, ReadsUnmoved
  <1>4. ServedInv'
    BY <1>1, <1>3 DEF ServedInv
  <1>5. \A n \in Mapped : LookupsOf(n)' = LookupsOf(n)
    BY <1>1 DEF LookupsOf
  <1>6. CASE AddLookups(m)
    <2>1. /\ stage[m] = "old" /\ stage'[m] = "half" /\ UNCHANGED retiredMisses
          /\ \A n \in Mapped : n # m => stage'[n] = stage[n]
          /\ retiredLookups' = Wrap(retiredLookups + LookupsOf(m))
      BY <1>2, <1>6 DEF AddLookups, CountersTypeOK
    <2>2. Held[m] = LookupsOf(m) /\ Held'[m] = 0
      BY <2>1 DEF Held
    <2>3. \A n \in Mapped : n # m => Held'[n] = Held[n]
      BY <1>5, <2>1 DEF Held
    <2>4. Kept' = Kept
      <3>1. \A n \in Mapped : Kept'[n] = Kept[n]
        BY <1>1, <2>1 DEF Kept
      <3> QED
        BY <3>1 DEF Kept
    <2>5. Same(retiredLookups' + Held'[m], retiredLookups + Held[m])
      <3> DEFINE a == retiredLookups + LookupsOf(m)
      <3>1. a \in Int
        BY <1>2 DEF BooksTyped
      <3>2. Wrap(a) \in Int /\ Same(Wrap(a), a)
        BY <3>1, WrapSame
      <3>3. Wrap(a) + 0 = Wrap(a)
        BY <3>2
      <3>4. retiredLookups' = Wrap(a)
        BY <2>1
      <3>5. retiredLookups + Held[m] = a
        BY <2>2
      <3>6. retiredLookups' + Held'[m] = Wrap(a)
        BY <2>2, <3>3, <3>4
      <3> QED
        BY <3>2, <3>5, <3>6
    <2>6. LookupBooks'
      BY <1>1, <1>3, <2>3, <2>5, LookupsTaken
    <2> QED
      BY <1>1, <1>4, <2>1, <2>4, <2>6 DEF MissBooks, Same, Words
  <1>7. CASE AddMisses(m)
    <2>1. /\ stage[m] = "half" /\ stage'[m] = "gone" /\ UNCHANGED retiredLookups
          /\ \A n \in Mapped : n # m => stage'[n] = stage[n]
          /\ retiredMisses' = Wrap(retiredMisses + missed[m])
      BY <1>2, <1>7 DEF AddMisses, CountersTypeOK
    <2>2. Kept[m] = missed[m] /\ Kept'[m] = 0
      BY <2>1 DEF Kept
    <2>3. \A n \in Mapped : n # m => Kept'[n] = Kept[n]
      BY <1>1, <2>1 DEF Kept
    <2>4. Held' = Held
      <3>1. \A n \in Mapped : Held'[n] = Held[n]
        BY <1>5, <2>1 DEF Held
      <3> QED
        BY <3>1 DEF Held
    <2>5. Same(retiredMisses' + Kept'[m] + servedMisses,
               retiredMisses + Kept[m] + servedMisses')
      <3> DEFINE a == retiredMisses + missed[m]   s == servedMisses
      <3>1. a \in Int /\ s \in Int
        BY <1>2 DEF BooksTyped
      <3>2. Wrap(a) \in Int /\ Same(Wrap(a), a)
        BY <3>1, WrapSame
      <3>3. Same(Wrap(a) + s, a + s)
        BY <3>1, <3>2, SameItself, SameAdded
      <3>4. retiredMisses' + Kept'[m] = Wrap(a)
        <4>1. Wrap(a) + 0 = Wrap(a)
          BY <3>2
        <4> QED
          BY <2>1, <2>2, <4>1
      <3>5. retiredMisses + Kept[m] = a
        BY <2>2
      <3> QED
        BY <1>1, <3>3, <3>4, <3>5
    <2>6. MissBooks'
      BY <2>3, <2>5, MissesMoved
    <2> QED
      BY <1>1, <1>3, <1>4, <2>1, <2>4, <2>6 DEF LookupBooks, Same, Words
  <1> QED
    BY <1>6, <1>7

LEMMA CounterBooksStep ==
    ASSUME CounterSizes, CountersTypeOK, CountersTypeOK', LifeInv,
           LookupBooks, MissBooks, ServedInv,
           [CountersNext]_countersVars
    PROVE  LookupBooks' /\ MissBooks' /\ ServedInv'
  <1>1. ASSUME NEW r \in Readers, Enter(r) \/ Account(r) \/ NoteMiss(r) \/ Exit(r)
        PROVE  LookupBooks' /\ MissBooks' /\ ServedInv'
    BY <1>1, EnterBooks, AccountBooks, MissBooked, ExitBooks
  <1>2. ASSUME NEW m \in Maps, AddLookups(m) \/ AddMisses(m)
        PROVE  LookupBooks' /\ MissBooks' /\ ServedInv'
    <2>1. m \in Mapped
      BY DEF Maps, Mapped
    <2> QED
      BY <1>2, <2>1, RetireBooks
  <1>3. CASE Swap \/ Close
    BY <1>3, SwapBooks
  <1>4. CASE \/ LoadRetired \/ LoadCur \/ LoadExits \/ LoadNonLookups
             \/ LoadBatchExtra \/ Window \/ UNCHANGED countersVars
    <2>1. UNCHANGED <<stage, exits, missed, nonLookups, batchExtra, retiredLookups,
                      retiredMisses, rpc, rop, opsDone, served, servedMisses>>
      BY <1>4 DEF LoadRetired, LoadCur, LoadExits, LoadNonLookups, LoadBatchExtra,
         Window, countersVars, mapVars, statVars, retVars, readVars, trueVars
    <2> QED
      BY <2>1, HeldUnmoved, KeptUnmoved, ReadsUnmoved
         DEF LookupBooks, MissBooks, ServedInv, Same, Words
  <1> QED
    BY <1>1, <1>2, <1>3, <1>4 DEF CountersNext, Finished

LEMMA InitCounters == ASSUME CounterSizes, CountersInit PROVE CountersInv
  <1>1. CountersTypeOK
    BY CounterFacts DEF CountersInit, CountersTypeOK, Maps, CounterSizes
  <1>2. LifeInv /\ ObserverInv
    BY DEF CountersInit, LifeInv, ObserverInv, Maps, Mapped, CounterSizes
  <1>3. LookupsOf(1) = 0 /\ \A m \in Mapped : LookupsOf(m) = 0
    <2>1. \A m \in Mapped : exits[m] = 0 /\ nonLookups[m] = 0 /\ batchExtra[m] = 0
      BY DEF CountersInit, Maps, Mapped
    <2>2. Wrap(0) = 0
      BY WordsPositive, WrapSmall
    <2>3. \A m \in Mapped : LookupsOf(m) = Wrap(0)
      BY <2>1 DEF LookupsOf
    <2>4. 1 \in Mapped
      BY DEF Mapped, CounterSizes
    <2> QED
      BY <2>2, <2>3, <2>4
  <1>4. \A m \in Mapped : Held[m] = 0 /\ Kept[m] = 0
    BY <1>3 DEF CountersInit, Maps, Mapped, Held, Kept
  <1>5. \A r \in Readers : Ahead[r] = 0 /\ Busy[r] = 0
    BY DEF CountersInit, Ahead, Busy
  <1>6. SumOf(Held) = 0 /\ SumOf(Kept) = 0 /\ SumOf(Ahead) = 0 /\ SumOf(Busy) = 0
    <2>1. BooksTyped
      BY <1>1, BooksType
    <2> QED
      BY <1>4, <1>5, <2>1, SumZero DEF BooksTyped
  <1>7. Same(0, 0)
    BY SameItself
  <1>8. LookupBooks /\ MissBooks /\ ServedInv
    BY <1>6, <1>7 DEF CountersInit, LookupBooks, MissBooks, ServedInv, CounterSizes
  <1> QED
    BY <1>1, <1>2, <1>8 DEF CountersInv

LEMMA CountersInvStep ==
    ASSUME CounterSizes, CountersInv, [CountersNext]_countersVars PROVE CountersInv'
  <1>1. /\ CountersTypeOK /\ LifeInv /\ ObserverInv /\ LookupBooks /\ MissBooks /\ ServedInv
    BY DEF CountersInv
  <1>2. CountersTypeOK'
    BY <1>1, CountersType
  <1>3. LifeInv' /\ ObserverInv'
    BY <1>1, LifeStep, ObserverStep
  <1>4. LookupBooks' /\ MissBooks' /\ ServedInv'
    BY <1>1, <1>2, CounterBooksStep
  <1> QED
    BY <1>2, <1>3, <1>4 DEF CountersInv

\* Every behaviour keeps the books of the counters: what the Map has taken over and what
\* its mappings still hold is what was served, up to a multiple of the words and to what
\* the reads that are not over have counted ahead.
THEOREM CountersInvariance == ASSUME CounterSizes PROVE CountersSpec => []CountersInv
  <1>1. CountersInit => CountersInv
    BY InitCounters
  <1>2. CountersInv /\ [CountersNext]_countersVars => CountersInv'
    BY CountersInvStep
  <1> QED
    BY <1>1, <1>2, PTL DEF CountersSpec

\* At rest only the current mapping holds counts, and no read is ahead.
LEMMA RestBooks ==
    ASSUME CounterSizes, CountersTypeOK, LifeInv, AtRest
    PROVE  /\ SumOf(Held) = IF cur = 0 THEN 0 ELSE LookupsOf(cur)
           /\ SumOf(Kept) = IF cur = 0 THEN 0 ELSE missed[cur]
           /\ SumOf(Ahead) = 0 /\ SumOf(Busy) = 0
  <1>1. BooksTyped
    BY BooksType
  <1>2. IsFiniteSet(Mapped) /\ Maps = Mapped
    BY FS_Interval DEF Mapped, Maps, CounterSizes
  <1>3. SumOf(Ahead) = 0 /\ SumOf(Busy) = 0
    <2>1. \A r \in Readers : Ahead[r] = 0 /\ Busy[r] = 0
      BY DEF AtRest, Ahead, Busy
    <2> QED
      BY <1>1, <2>1, SumZero DEF BooksTyped
  <1>4. ASSUME NEW m \in Mapped, m # cur PROVE Held[m] = 0 /\ Kept[m] = 0
    <2>1. stage[m] \in {"fresh", "gone"}
      BY <1>2, <1>4 DEF AtRest, CountersTypeOK, LifeInv
    <2>2. CASE stage[m] = "gone"
      BY <2>2 DEF Held, Kept
    <2>3. CASE stage[m] = "fresh"
      <3>1. exits[m] = 0 /\ nonLookups[m] = 0 /\ batchExtra[m] = 0 /\ missed[m] = 0
        BY <2>3 DEF LifeInv
      <3>2. LookupsOf(m) = Wrap(0)
        BY <3>1 DEF LookupsOf
      <3>3. Wrap(0) = 0
        BY WordsPositive, WrapSmall
      <3> QED
        BY <2>3, <3>1, <3>2, <3>3 DEF Held, Kept
    <2> QED
      BY <2>1, <2>2, <2>3
  <1>5. CASE cur = 0
    <2>1. \A m \in Mapped : m # cur
      BY <1>5 DEF Mapped
    <2>2. \A m \in Mapped : Held[m] = 0 /\ Kept[m] = 0
      BY <1>4, <2>1
    <2>3. SumOf(Held) = 0 /\ SumOf(Kept) = 0
      BY <1>1, <2>2, SumZero DEF BooksTyped
    <2> QED
      BY <1>3, <1>5, <2>3
  <1>6. CASE cur # 0
    <2>1. cur \in Mapped
      BY <1>6 DEF CountersTypeOK, Mapped, CounterSizes
    <2>2. stage[cur] = "live"
      BY <2>1 DEF LifeInv
    <2>3. Held[cur] = LookupsOf(cur) /\ Kept[cur] = missed[cur]
      BY <2>1, <2>2 DEF Held, Kept
    <2>4. SumOf(Held) = Held[cur] /\ SumOf(Kept) = Kept[cur]
      BY <1>1, <1>2, <1>4, <2>1, SumSingle DEF BooksTyped
    <2> QED
      BY <1>3, <1>6, <2>3, <2>4
  <1> QED
    BY <1>5, <1>6

LEMMA RestExact ==
    ASSUME CounterSizes, CountersInv PROVE ExactAtRest
  <1> SUFFICES ASSUME AtRest
               PROVE  /\ LookupsNow = Wrap(served)
                      /\ MissesNow = Wrap(servedMisses)
    BY DEF ExactAtRest
  <1> DEFINE H == IF cur = 0 THEN 0 ELSE LookupsOf(cur)
             K == IF cur = 0 THEN 0 ELSE missed[cur]
  <1>1. CountersTypeOK /\ LifeInv /\ LookupBooks /\ MissBooks
    BY DEF CountersInv
  <1>2. SumOf(Held) = H /\ SumOf(Kept) = K /\ SumOf(Ahead) = 0
    BY <1>1, RestBooks
  <1>3. BooksTyped
    BY <1>1, BooksType
  <1>4. H \in Int /\ K \in Int
    <2>1. cur # 0 => cur \in Mapped
      BY <1>1 DEF CountersTypeOK, Mapped, CounterSizes
    <2> QED
      BY <1>3, <2>1 DEF BooksTyped
  <1>5. LookupsNow = Wrap(retiredLookups + H) /\ MissesNow = Wrap(retiredMisses + K)
    BY DEF LookupsNow, MissesNow
  <1>6. served + 0 = served
    BY <1>3 DEF BooksTyped
  <1>7. Same(retiredLookups + H, served) /\ Same(retiredMisses + K, servedMisses)
    <2> HIDE DEF H, K
    <2> QED
      BY <1>1, <1>2, <1>6 DEF LookupBooks, MissBooks
  <1>8. /\ retiredLookups + H \in Int /\ retiredMisses + K \in Int
        /\ served \in Int /\ servedMisses \in Int
    <2> HIDE DEF H, K
    <2> QED
      BY <1>3, <1>4 DEF BooksTyped
  <1> HIDE DEF H, K
  <1> QED
    BY <1>5, <1>7, <1>8, WrapEqual

\* The counters are exact at rest: with no read under way and no retirement pending,
\* Lookups and Misses are what was served, across any number of swaps and Close, and
\* however often the words of the counters wrapped on the way.
THEOREM TotalsExact == ASSUME CounterSizes PROVE CountersSpec => []CountersSound
  <1>1. CountersInv => CountersSound
    BY RestExact DEF CountersInv, CountersSound
  <1> QED
    BY <1>1, CountersInvariance, PTL

\* A window taken at rest leaves no lookup unreported, in a process that serves fewer
\* lookups than a counter counts to.
THEOREM AllReported ==
    ASSUME CounterSizes, BatchLen * MaxOps < 2 ^ Width
    PROVE  CountersSpec => []NothingUnreported
  <1>1. CountersInv => NothingUnreported
    <2> SUFFICES ASSUME CountersInv, AtRest, lastLookups = LookupsNow
                 PROVE  reported >= served
      BY DEF NothingUnreported
    <2>1. CountersTypeOK /\ LifeInv /\ ObserverInv /\ ServedInv /\ ExactAtRest
      BY RestExact DEF CountersInv
    <2>2. LookupsNow = Wrap(served)
      BY <2>1 DEF ExactAtRest
    <2>3. SumOf(Busy) = 0 /\ BooksTyped
      BY <2>1, RestBooks, BooksType
    <2>4. served \in Nat /\ reported \in Int /\ opsDone \in Nat /\ opsDone <= MaxOps
      BY <2>1 DEF CountersTypeOK, CounterSizes
    <2>5. served <= BatchLen * opsDone
      <3>1. served + 0 = served
        BY <2>4
      <3> QED
        BY <2>1, <2>3, <3>1 DEF ServedInv
    <2>6. /\ BatchLen \in Nat /\ MaxOps \in Nat
          /\ BatchLen * opsDone \in Int /\ BatchLen * MaxOps \in Int
      BY <2>4 DEF CounterSizes
    <2>7. BatchLen * opsDone <= BatchLen * MaxOps
      BY <2>4, <2>6
    <2>8. served \in 0 .. Words - 1
      BY <2>4, <2>5, <2>6, <2>7, WordsPositive DEF Words
    <2>9. LookupsNow = served
      BY <2>2, <2>8, WrapSmall
    <2>10. lastLookups <= reported
      BY <2>1 DEF ObserverInv
    <2> QED
      BY <2>4, <2>9, <2>10
  <1> QED
    BY <1>1, CountersInvariance, PTL

\* The counters behave so beside the histogram too.
THEOREM CountersWithin == StatisticsSpec => CountersSpec
  <1>1. StatisticsInit => CountersInit
    BY DEF StatisticsInit
  <1>2. [StatisticsNext]_<<part, histogramVars, countersVars>> => [CountersNext]_countersVars
    BY DEF StatisticsNext
  <1> QED
    BY <1>1, <1>2, PTL DEF StatisticsSpec, CountersSpec
=============================================================================
