--------------------------- MODULE PollLoopProofs ---------------------------
(****************************************************************************)
(* Proofs about the poll loop: for all limits, intervals and headers its    *)
(* waits are bounded, follow the failures, and honour the server's answer.  *)
(****************************************************************************)
EXTENDS PollLoop, FiniteSetTheorems, TLAPS

\* NewSynchronizer is at one of its attempts while it makes them; the history counts what
\* the code counts.
StartInv == pc \in {"start", "pause"} => attempt < Attempts
StreakInv == failures = streak

IInv == LoopSound /\ StartInv /\ StreakInv

----------------------------------------------------------------------------
\* Arithmetic.

LEMMA PowerOfInterval ==
    ASSUME NEW n \in Nat
    PROVE  IsFiniteSet(SUBSET (1 .. n)) /\ Cardinality(SUBSET (1 .. n)) = 2 ^ n
  <1>1. IsFiniteSet(1 .. n) /\ Cardinality(1 .. n) = n
    BY FS_Interval
  <1> QED
    BY <1>1, FS_SUBSET

LEMMA PowerPositive == ASSUME NEW n \in Nat PROVE 2 ^ n \in Nat \ {0}
  <1>2. IsFiniteSet(SUBSET (1 .. n)) /\ Cardinality(SUBSET (1 .. n)) = 2 ^ n
    BY PowerOfInterval
  <1>3. SUBSET (1 .. n) # {}
    OBVIOUS
  <1> QED
    BY <1>2, <1>3, FS_CardinalityType, FS_EmptySet

LEMMA DoublePower == ASSUME NEW n \in Nat \ {0} PROVE 2 ^ (n - 1) <= 2 ^ n
  <1>1. IsFiniteSet(SUBSET (1 .. n)) /\ Cardinality(SUBSET (1 .. n)) = 2 ^ n
    BY PowerOfInterval
  <1>2. /\ IsFiniteSet(SUBSET (1 .. n - 1))
        /\ Cardinality(SUBSET (1 .. n - 1)) = 2 ^ (n - 1)
    BY PowerOfInterval, n - 1 \in Nat
  <1>3. SUBSET (1 .. n - 1) \subseteq SUBSET (1 .. n)
    OBVIOUS
  <1> QED
    BY <1>1, <1>2, <1>3, FS_Subset

LEMMA MinOfTwo ==
    ASSUME NEW m \in Int, NEW n \in Int
    PROVE  Min({m, n}) \in {m, n} /\ Min({m, n}) <= m /\ Min({m, n}) <= n
  <1>1. \E x \in {m, n} : \A y \in {m, n} : x <= y
    OBVIOUS
  <1> QED
    BY <1>1 DEF Min

LEMMA MaxOfTwo ==
    ASSUME NEW m \in Int, NEW n \in Int
    PROVE  Max({m, n}) \in {m, n}
  <1>1. \E x \in {m, n} : \A y \in {m, n} : x >= y
    OBVIOUS
  <1> QED
    BY <1>1 DEF Max

LEMMA MaxOfFour ==
    ASSUME NEW a \in Int, NEW b \in Int, NEW c \in Int, NEW d \in Int
    PROVE  LET m == Max({a, b, c, d}) IN m \in Int /\ a <= m /\ b <= m /\ c <= m /\ d <= m
  <1>1. \E x \in {a, b, c, d} : \A y \in {a, b, c, d} : x >= y
    <2>1. PICK p \in {a, b} : a <= p /\ b <= p
      OBVIOUS
    <2>2. PICK q \in {c, d} : c <= q /\ d <= q
      OBVIOUS
    <2>3. CASE p <= q
      BY <2>1, <2>2, <2>3
    <2>4. CASE q <= p
      BY <2>1, <2>2, <2>4
    <2> QED
      BY <2>1, <2>2, <2>3, <2>4
  <1> QED
    BY <1>1 DEF Max

LEMMA SmallRemainder ==
    ASSUME NEW m \in Nat, NEW w \in Nat, m < w
    PROVE  m % w = m
  OBVIOUS

LEMMA RemainderInt == ASSUME NEW m \in Int, NEW w \in Nat \ {0} PROVE m % w \in 0 .. w - 1
  OBVIOUS

LEMMA ProductPositive ==
    ASSUME NEW m \in Nat \ {0}, NEW n \in Nat \ {0} PROVE m * n \in Nat \ {0}
  OBVIOUS

----------------------------------------------------------------------------
\* Waits.

LEMMA Constants ==
    /\ Second \in Nat \ {0} /\ QuotaPause \in Nat \ {0}
    /\ MaxRetryAfter \in Nat \ {0} /\ MaxTransientBackoff \in Nat \ {0}
    /\ MaxShift \in Nat /\ Attempts \in Nat \ {0} /\ Intervals \subseteq Nat
    /\ 2 ^ Width \in Nat \ {0} /\ 2 ^ (Width - 1) \in Nat \ {0}
    /\ FailuresCap \in Nat /\ 2 <= FailuresCap
  BY TimesAssumption, SizesAssumption, PowerPositive DEF FailuresCap

LEMMA SignedInt == ASSUME NEW n \in Int PROVE Signed(n) \in Int
  <1> DEFINE m == n % 2 ^ Width
  <1>1. 2 ^ Width \in Nat \ {0} /\ 2 ^ (Width - 1) \in Int
    BY Constants
  <1>2. m \in 0 .. 2 ^ Width - 1
    BY <1>1, RemainderInt, Zenon
  <1>3. m \in Int
    BY <1>1, <1>2
  <1>4. Signed(n) = m \/ Signed(n) = m - 2 ^ (Width)
    BY DEF Signed
  <1> HIDE DEF m
  <1> QED
    BY <1>1, <1>3, <1>4

LEMMA SecondsNat == \A s \in Seconds : s \in Nat /\ s \in Int
  BY SecondsAssumption

\* What a header asks for, whatever it holds.
LEMMA HeaderWait ==
    ASSUME NEW h \in Headers
    PROVE  /\ ParseRetryAfter(h) \in Int
           /\ h.kind = "seconds" => h.n \in Seconds /\ ParseRetryAfter(h) = Signed(h.n * Second)
           /\ h.kind \in {"none", "seconds", "date"}
  <1>1. CASE h \in {[kind |-> "none", n |-> 0]}
    BY <1>1 DEF ParseRetryAfter
  <1>2. CASE h \in {[kind |-> "seconds", n |-> s] : s \in Seconds}
    <2>1. h.kind = "seconds" /\ h.n \in Seconds
      BY <1>2
    <2>2. h.n * Second \in Int
      <3>1. h.n \in Int /\ Second \in Int
        <4>1. Second \in Nat
          BY TimesAssumption
        <4> QED
          BY <2>1, <4>1, SecondsNat
      <3> QED
        BY <3>1
    <2>3. Signed(h.n * Second) \in Int
      BY <2>2, SignedInt
    <2> QED
      BY <2>1, <2>3 DEF ParseRetryAfter
  <1>3. CASE h \in {[kind |-> "date", n |-> d] : d \in Dates}
    <2>1. h.kind = "date" /\ h.n \in Int
      BY <1>3, TimesAssumption
    <2>2. Max({h.n, 0}) \in Int
      <3>1. Max({h.n, 0}) \in {h.n, 0}
        BY <2>1, 0 \in Int, MaxOfTwo, Zenon
      <3> QED
        BY <2>1, <3>1
    <2> QED
      BY <2>1, <2>2 DEF ParseRetryAfter
  <1> QED
    BY <1>1, <1>2, <1>3 DEF Headers

LongestWait == Max({interval, QuotaPause, MaxRetryAfter, (12 * BackoffLimit) \div 10})

LEMMA Limits ==
    ASSUME interval \in Nat
    PROVE  /\ BackoffLimit \in Nat
           /\ LongestWait \in Int /\ interval <= LongestWait /\ QuotaPause <= LongestWait
           /\ MaxRetryAfter <= LongestWait /\ (12 * BackoffLimit) \div 10 <= LongestWait
  <1>1. BackoffLimit \in Nat
    <2>1. interval \in Int /\ MaxTransientBackoff \in Int /\ MaxTransientBackoff \in Nat
      BY TimesAssumption
    <2>2. Min({interval, MaxTransientBackoff}) \in {interval, MaxTransientBackoff}
      BY <2>1, MinOfTwo, Zenon
    <2> QED
      BY <2>1, <2>2 DEF BackoffLimit
  <1>2. (12 * BackoffLimit) \div 10 \in Int
    BY <1>1
  <1>3. interval \in Int /\ QuotaPause \in Int /\ MaxRetryAfter \in Int
    BY TimesAssumption
  <1> QED
    BY <1>1, <1>2, <1>3, MaxOfFour, Zenon DEF LongestWait

\* A wait after a quota answer.
LEMMA QuotaWait ==
    ASSUME interval \in Nat, NEW d \in Int
    PROVE  /\ QuotaDelay(d) \in Int /\ QuotaDelay(d) <= LongestWait
           /\ d > 0 => QuotaDelay(d) = Min({d, MaxRetryAfter})
  <1>1. CASE d > 0
    <2>1. QuotaDelay(d) = Min({d, MaxRetryAfter})
      BY <1>1 DEF QuotaDelay
    <2>2. MaxRetryAfter \in Int
      BY TimesAssumption
    <2>3. /\ Min({d, MaxRetryAfter}) \in {d, MaxRetryAfter}
          /\ Min({d, MaxRetryAfter}) <= MaxRetryAfter
      BY <2>2, MinOfTwo, Zenon
    <2>4. LongestWait \in Int /\ MaxRetryAfter <= LongestWait
      BY Limits
    <2> HIDE DEF LongestWait
    <2> QED
      BY <2>1, <2>2, <2>3, <2>4
  <1>2. CASE ~(d > 0)
    BY <1>2, Limits, TimesAssumption DEF QuotaDelay
  <1> QED
    BY <1>1, <1>2

\* A wait after a transient failure.
LEMMA BackoffWait ==
    ASSUME interval \in Nat, NEW k \in Nat, NEW d \in Jittered(Backoff(k))
    PROVE  d \in Int /\ d <= LongestWait
  <1>1. Min({k, MaxShift}) \in Nat
    <2>1. k \in Int /\ MaxShift \in Int /\ MaxShift \in Nat
      BY SizesAssumption
    <2>2. Min({k, MaxShift}) \in {k, MaxShift}
      BY <2>1, MinOfTwo, Zenon
    <2> QED
      BY <2>1, <2>2
  <1>2. Second * 2 ^ Min({k, MaxShift}) \in Int
    <2>1. 2 ^ Min({k, MaxShift}) \in Nat \ {0}
      BY <1>1, PowerPositive, Zenon
    <2> QED
      BY <2>1, TimesAssumption
  <1>3. Backoff(k) \in Int /\ Backoff(k) <= BackoffLimit
    <2> DEFINE unlimited == Second * 2 ^ Min({k, MaxShift})
    <2>1. unlimited \in Int /\ BackoffLimit \in Int
      BY <1>2, Limits
    <2>2. Backoff(k) = Min({unlimited, BackoffLimit})
      BY DEF Backoff
    <2> HIDE DEF unlimited
    <2>3. Backoff(k) \in {unlimited, BackoffLimit} /\ Backoff(k) <= BackoffLimit
      BY <2>1, <2>2, MinOfTwo, Zenon
    <2> QED
      BY <2>1, <2>3
  <1>4. d \in Int /\ d <= (12 * Backoff(k)) \div 10
    BY <1>3 DEF Jittered
  <1>5. (12 * Backoff(k)) \div 10 <= (12 * BackoffLimit) \div 10
    BY <1>3, Limits
  <1>6. (12 * BackoffLimit) \div 10 <= LongestWait /\ LongestWait \in Int
    BY Limits
  <1>7. (12 * Backoff(k)) \div 10 \in Int /\ (12 * BackoffLimit) \div 10 \in Int
    BY <1>3, Limits
  <1> QED
    BY <1>4, <1>5, <1>6, <1>7

\* Whatever a sync brings, the next wait is bounded and the counts stay in step.
Waiting == /\ left \in Int /\ failures \in 0 .. FailuresCap /\ streak \in 0 .. FailuresCap
           /\ asked \in Nat /\ left <= LongestWait /\ failures = streak

LEMMA NextWait ==
    ASSUME TypeOK, StreakInv, UNCHANGED interval, NEW outcome, NEW header \in Headers,
           NextDelay(outcome, header)
    PROVE  Waiting'
  <1> interval \in Nat
    BY Constants DEF TypeOK
  <1>1. LongestWait' = LongestWait
    BY DEF LongestWait, BackoffLimit
  <1>2. /\ failures \in 0 .. FailuresCap /\ streak \in 0 .. FailuresCap /\ asked \in Nat
        /\ failures = streak
    BY DEF TypeOK, StreakInv
  <1>3. CASE outcome \in {"ok", "client"}
    <2>1. failures' = 0 /\ streak' = 0 /\ asked' = 0 /\ left' = interval
      BY <1>3 DEF NextDelay, ResetFailures
    <2> QED
      BY <1>1, <2>1, Limits, Constants DEF Waiting
  <1>4. CASE outcome = "quota"
    <2>1. /\ left' = QuotaDelay(ParseRetryAfter(header)) /\ UNCHANGED <<failures, streak>>
          /\ asked' = IF header.kind = "seconds" THEN header.n ELSE 0
      BY <1>4 DEF NextDelay
    <2>2. asked' \in Nat
      <3>1. header.kind = "seconds" => header.n \in Nat
        BY HeaderWait, SecondsNat
      <3> QED
        BY <2>1, <3>1
    <2>3. left' \in Int /\ left' <= LongestWait
      BY <2>1, HeaderWait, QuotaWait
    <2> QED
      BY <1>1, <1>2, <2>1, <2>2, <2>3 DEF Waiting
  <1>5. CASE outcome \in {"server", "network"}
    <2>1. /\ left' \in Jittered(Backoff(failures)) /\ asked' = 0
          /\ failures' = Min({failures + 1, FailuresCap})
          /\ streak' = Min({streak + 1, FailuresCap})
      BY <1>5 DEF NextDelay
    <2>2. left' \in Int /\ left' <= LongestWait
      BY <1>2, <2>1, BackoffWait
    <2>3. Min({failures + 1, FailuresCap}) \in 0 .. FailuresCap
      <3>1. /\ failures + 1 \in Nat /\ FailuresCap \in Nat
            /\ failures + 1 \in Int /\ FailuresCap \in Int
        BY <1>2, Constants
      <3>2. Min({failures + 1, FailuresCap}) \in {failures + 1, FailuresCap}
            /\ Min({failures + 1, FailuresCap}) <= FailuresCap
        BY <3>1, MinOfTwo, Zenon
      <3> QED
        BY <3>1, <3>2
    <2> QED
      BY <1>1, <1>2, <2>1, <2>2, <2>3 DEF Waiting
  <1> QED
    BY <1>3, <1>4, <1>5 DEF NextDelay

----------------------------------------------------------------------------
\* The loop.

\* What LoopSound says besides the waits.
Control ==
    /\ interval \in Intervals /\ loaded \in BOOLEAN
    /\ pc \in {"start", "pause", "sleep", "sync", "off", "failed"}
    /\ attempt \in 0 .. Attempts
    /\ callerDone \in BOOLEAN /\ cancelled \in BOOLEAN
    /\ closer \in {"open", "waiting", "closed"}
    /\ ClosedAfterLoop /\ ReturnedWithData /\ StartInv

LEMMA Parts == (IInv <=> Control /\ Waiting) /\ (IInv' <=> Control' /\ Waiting')
  BY DEF IInv, LoopSound, TypeOK, WaitBounded, LongestWait, StreakInv, Control, Waiting

LEMMA StartedStep ==
    ASSUME IInv, UNCHANGED <<interval, callerDone, cancelled>>, pc \in {"start", "pause"},
           NEW outcome, NEW header \in Headers, Started(outcome, header),
           loaded' \in BOOLEAN, HasData(outcome) => loaded', attempt' \in 0 .. Attempts
    PROVE  IInv'
  <1> Control /\ Waiting
    BY Parts
  <1>1. Waiting'
    <2>1. CASE NextDelay(outcome, header)
      BY <2>1, NextWait DEF IInv, LoopSound
    <2>2. CASE UNCHANGED <<left, failures, streak, asked>>
      BY <2>2 DEF Waiting, LongestWait, BackoffLimit
    <2> QED
      BY <2>1, <2>2 DEF Started
  <1>2. \/ pc' = "failed" /\ closer' = "closed"
        \/ pc' \in {"sleep", "off"} /\ closer' = closer /\ loaded'
    BY DEF Started
  <1>3. Control'
    BY <1>2 DEF Control, ClosedAfterLoop, ReturnedWithData, StartInv
  <1> QED
    BY <1>1, <1>3, Parts

LEMMA InitIInv == Init => IInv
  <1> SUFFICES ASSUME Init PROVE IInv
    OBVIOUS
  <1>1. Control
    <2>1. 0 < Attempts /\ 0 \in 0 .. Attempts
      BY SizesAssumption
    <2>2. ClosedAfterLoop /\ ReturnedWithData
      BY DEF Init, ClosedAfterLoop, ReturnedWithData
    <2> QED
      BY <2>1, <2>2 DEF Init, Control, StartInv
  <1>2. interval \in Nat
    BY Constants DEF Init
  <1>3. left <= LongestWait
    BY <1>2, Limits DEF Init
  <1>4. Waiting
    BY <1>3, Constants DEF Init, Waiting
  <1> QED
    BY <1>1, <1>4, Parts

LEMMA NextIInv == IInv /\ [Next]_vars => IInv'
  <1> SUFFICES ASSUME IInv, [Next]_vars PROVE IInv'
    OBVIOUS
  <1> Control /\ Waiting
    BY Parts
  <1>1. ASSUME UNCHANGED <<interval, left, failures, streak, asked>> PROVE Waiting'
    BY <1>1 DEF Waiting, LongestWait, BackoffLimit
  <1>2. CASE StartSync
    <2>1. PICK outcome \in {"ok", "quota", "client", "server", "network"}, header \in Headers :
              /\ pc = "start"
              /\ loaded' = (loaded \/ outcome = "ok")
              /\ \/ Started(outcome, header) /\ UNCHANGED attempt
                 \/ /\ pc' = "pause"
                    /\ UNCHANGED <<attempt, left, failures, closer, streak, asked>>
              /\ UNCHANGED <<interval, callerDone, cancelled>>
      BY <1>2 DEF StartSync
    <2>2. loaded' \in BOOLEAN /\ (HasData(outcome) => loaded')
      BY <2>1 DEF HasData, Control
    <2>3. CASE Started(outcome, header) /\ UNCHANGED attempt
      BY <2>1, <2>2, <2>3, StartedStep DEF Control
    <2>4. CASE /\ pc' = "pause"
               /\ UNCHANGED <<attempt, left, failures, closer, streak, asked>>
      <3>1. Control'
        BY <2>1, <2>2, <2>4 DEF Control, ClosedAfterLoop, ReturnedWithData, StartInv
      <3> QED
        BY <1>1, <2>1, <2>4, <3>1, Parts
    <2> QED
      BY <2>1, <2>3, <2>4
  <1>3. CASE StartPause
    <2> DEFINE header == [kind |-> "none", n |-> 0]
    <2>1. /\ pc = "pause" /\ attempt' = attempt + 1
          /\ UNCHANGED <<interval, loaded, callerDone, cancelled>>
      BY <1>3 DEF StartPause, NextAttempt
    <2>2. attempt' \in 0 .. Attempts
      BY <2>1, Constants DEF Control, StartInv
    <2>3. CASE attempt' < Attempts /\ ~callerDone
      <3>1. pc' = "start" /\ UNCHANGED <<left, failures, closer, streak, asked>>
        BY <1>3, <2>3 DEF StartPause
      <3>2. Control'
        BY <2>1, <2>2, <2>3, <3>1 DEF Control, ClosedAfterLoop, ReturnedWithData, StartInv
      <3> QED
        BY <1>1, <2>1, <3>1, <3>2, Parts
    <2>4. CASE ~(attempt' < Attempts /\ ~callerDone)
      <3>1. Started("network", header)
        BY <1>3, <2>4 DEF StartPause
      <3>2. header \in Headers
        BY DEF Headers
      <3>3. loaded' \in BOOLEAN /\ (HasData("network") => loaded')
        BY <2>1 DEF HasData, Control
      <3> HIDE DEF header
      <3> QED
        BY <2>1, <2>2, <3>1, <3>2, <3>3, StartedStep
    <2> QED
      BY <2>3, <2>4
  <1>4. CASE PollSync
    <2>1. PICK outcome \in {"ok", "quota", "client", "server", "network"}, header \in Headers :
              /\ pc = "sync"
              /\ \/ pc' = "off" /\ UNCHANGED <<left, failures, streak, asked>>
                 \/ pc' = "sleep" /\ NextDelay(outcome, header)
              /\ UNCHANGED <<interval, loaded, attempt, callerDone, cancelled, closer>>
      BY <1>4 DEF PollSync
    <2>2. Control'
      BY <2>1 DEF Control, ClosedAfterLoop, ReturnedWithData, StartInv
    <2>3. Waiting'
      <3>1. CASE UNCHANGED <<left, failures, streak, asked>>
        BY <1>1, <2>1, <3>1
      <3>2. CASE NextDelay(outcome, header)
        BY <2>1, <3>2, NextWait DEF IInv, LoopSound
      <3> QED
        BY <2>1, <3>1, <3>2
    <2> QED
      BY <2>2, <2>3, Parts
  <1>5. CASE Tick
    <2>1. left' = left - 1 /\ UNCHANGED <<interval, failures, streak, asked>>
      BY <1>5 DEF Tick
    <2>2. LongestWait' = LongestWait /\ LongestWait \in Int
      BY <2>1, Limits, Constants DEF LongestWait, BackoffLimit, Control
    <2>3. Waiting'
      BY <2>1, <2>2 DEF Waiting
    <2>4. Control'
      BY <1>5 DEF Tick, Control, ClosedAfterLoop, ReturnedWithData, StartInv
    <2> QED
      BY <2>3, <2>4, Parts
  <1>6. ASSUME CallerCancels \/ WakeUp \/ WaitCancelled \/ Close \/ CloseMap \/ UNCHANGED vars
        PROVE  IInv'
    <2>1. UNCHANGED <<interval, left, failures, streak, asked>>
      BY <1>6 DEF CallerCancels, WakeUp, WaitCancelled, Close, CloseMap, vars
    <2>2. Control'
      BY <1>6 DEF CallerCancels, WakeUp, WaitCancelled, Close, CloseMap, LoopEnded, vars,
         Control, ClosedAfterLoop, ReturnedWithData, StartInv
    <2> QED
      BY <1>1, <2>1, <2>2, Parts
  <1> QED
    BY <1>2, <1>3, <1>4, <1>5, <1>6 DEF Next

\* The inductive invariant.
THEOREM Invariance == Spec => []IInv
  BY InitIInv, NextIInv, PTL DEF Spec

\* Whatever the server answers and whenever Close comes, the next sync is no further away
\* than the limits say, none is left when the Map is closed, and none runs without data
\* (nextDelay, poll, Close).
THEOREM LoopIsSound == Spec => []LoopSound
  <1>1. IInv => LoopSound
    BY DEF IInv
  <1> QED
    BY Invariance, <1>1, PTL

\* A step that begins a wait does so by nextDelay.
LEMMA WaitBegins ==
    ASSUME IInv, Next, pc' = "sleep", pc # "sleep"
    PROVE  \E outcome : \E header \in Headers : NextDelay(outcome, header)
  <1>1. CASE StartSync
    <2>1. \E outcome : \E header \in Headers : Started(outcome, header)
      BY <1>1 DEF StartSync
    <2> QED
      BY <2>1 DEF Started
  <1>2. CASE StartPause
    <2>1. Started("network", [kind |-> "none", n |-> 0])
      BY <1>2 DEF StartPause
    <2>2. [kind |-> "none", n |-> 0] \in Headers
      BY DEF Headers
    <2> QED
      BY <2>1, <2>2 DEF Started
  <1>3. CASE PollSync
    BY <1>3 DEF PollSync
  <1> QED
    BY <1>1, <1>2, <1>3
       DEF Next, CallerCancels, Tick, WakeUp, WaitCancelled, Close, CloseMap

\* The wait after a transient failure is the one the failures since the last success call
\* for (transientBackoff, failures).
THEOREM BackoffFollows == Spec => BackoffFits
  <1>1. IInv /\ [Next]_vars =>
            [pc' = "sleep" /\ pc # "sleep" /\ streak' > 0 /\ streak' > streak
                => left' \in Jittered(Backoff(streak' - 1))]_vars
    <2> SUFFICES ASSUME IInv, Next, pc' = "sleep", pc # "sleep", streak' > 0, streak' > streak
                 PROVE  left' \in Jittered(Backoff(streak' - 1))
      OBVIOUS
    <2> PICK outcome : \E header \in Headers : NextDelay(outcome, header)
      BY WaitBegins
    <2>1. PICK header \in Headers : NextDelay(outcome, header)
      OBVIOUS
    <2>2. streak \in 0 .. FailuresCap /\ failures = streak /\ FailuresCap \in Nat
      BY Constants, Parts DEF Waiting
    <2>3. left' \in Jittered(Backoff(failures)) /\ streak' = Min({streak + 1, FailuresCap})
      BY <2>1, <2>2 DEF NextDelay
    <2>4. streak' = streak + 1
      <3>1. streak + 1 \in Int /\ FailuresCap \in Int
        BY <2>2
      <3>2. streak' \in {streak + 1, FailuresCap} /\ streak' <= streak + 1
        BY <2>3, <3>1, MinOfTwo, Zenon
      <3> QED
        BY <2>2, <3>2
    <2>5. streak' - 1 = failures
      BY <2>2, <2>4
    <2> QED
      BY <2>3, <2>5
  <1> QED
    BY Invariance, <1>1, PTL DEF Spec, BackoffFits

\* A quota answer that names seconds is waited out up to MaxRetryAfter, as long as they fit
\* a time.Duration (parseRetryAfter, nextDelay).
THEOREM RetryAfterWaited ==
    ASSUME \A s \in Seconds : s * Second < 2 ^ (Width - 1)
    PROVE  Spec => RetryAfterHonoured
  <1>1. IInv /\ [Next]_vars =>
            [pc' = "sleep" /\ pc # "sleep" /\ asked' > 0
                => left' >= Min({asked' * Second, MaxRetryAfter})]_vars
    <2> SUFFICES ASSUME IInv, Next, pc' = "sleep", pc # "sleep", asked' > 0
                 PROVE  left' >= Min({asked' * Second, MaxRetryAfter})
      OBVIOUS
    <2> PICK outcome : \E header \in Headers : NextDelay(outcome, header)
      BY WaitBegins
    <2>1. PICK header \in Headers : NextDelay(outcome, header)
      OBVIOUS
    <2>2. /\ header.kind = "seconds" /\ asked' = header.n
          /\ left' = QuotaDelay(ParseRetryAfter(header))
      BY <2>1 DEF NextDelay
    <2>3. asked' \in Seconds /\ ParseRetryAfter(header) = Signed(asked' * Second)
      BY <2>2, HeaderWait
    <2> DEFINE d == asked' * Second
    <2>4. asked' \in Nat \ {0} /\ d < 2 ^ (Width - 1)
      BY <2>3, SecondsAssumption, Constants
    <2>5. d \in Nat \ {0}
      BY <2>4, ProductPositive, Constants
    <2> HIDE DEF d
    <2>6. 2 ^ (Width - 1) <= 2 ^ Width
      BY SizesAssumption, DoublePower, Constants
    <2>7. Signed(d) = d
      <3>1. d % 2 ^ Width = d
        BY <2>4, <2>5, <2>6, SmallRemainder, Constants
      <3> QED
        BY <2>4, <3>1 DEF Signed
    <2>8. left' = Min({d, MaxRetryAfter})
      <3>1. left' = QuotaDelay(d)
        BY <2>2, <2>3, <2>7 DEF d
      <3>2. interval \in Nat
        BY Constants, Parts DEF Control
      <3> QED
        BY <2>5, <3>1, <3>2, QuotaWait
    <2>9. Min({d, MaxRetryAfter}) \in Int
      <3>1. d \in Int /\ MaxRetryAfter \in Int
        BY <2>5, TimesAssumption
      <3>2. Min({d, MaxRetryAfter}) \in {d, MaxRetryAfter}
        BY <3>1, MinOfTwo, Zenon
      <3> QED
        BY <3>1, <3>2
    <2> QED
      BY <2>8, <2>9 DEF d
  <1> QED
    BY Invariance, <1>1, PTL DEF Spec, RetryAfterHonoured

\* Each wait is the one the failures and the server's answer call for, as long as the
\* seconds a header names fit a time.Duration (nextDelay).
THEOREM WaitsFollow ==
    ASSUME \A s \in Seconds : s * Second < 2 ^ (Width - 1)
    PROVE  Spec => WaitsHonoured
  BY BackoffFollows, RetryAfterWaited DEF WaitsHonoured
=============================================================================
