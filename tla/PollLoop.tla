------------------------------ MODULE PollLoop ------------------------------
(****************************************************************************)
(* When the Synchronizer asks the server: the attempts of NewSynchronizer,  *)
(* the poll loop with its waits (nextDelay, transientBackoff,               *)
(* parseRetryAfter) and Close.  What a sync does to the file is SyncInstall;*)
(* here it is its outcome.                                                  *)
(*                                                                          *)
(* Times are in ticks, Second of them to a second.  A wait is the time that *)
(* is left of it, so no clock is needed.                                    *)
(****************************************************************************)
EXTENDS Integers, FiniteSetsExt

CONSTANTS
    Second, QuotaPause, MaxRetryAfter, MaxTransientBackoff,  \* in ticks
    MaxShift,      \* the largest exponent of the back-off (20)
    Width,         \* width of a time.Duration in bits (64)
    Attempts,      \* attempts of NewSynchronizer (3)
    Intervals,     \* sync intervals, in ticks; 0 disables polling
    Seconds,       \* numbers a Retry-After header may hold
    Dates          \* how far ahead, in ticks, a Retry-After date may be

ASSUME TimesAssumption ==
    /\ {Second, QuotaPause, MaxRetryAfter, MaxTransientBackoff} \subseteq Nat \ {0}
    /\ Intervals \subseteq Nat /\ Dates \subseteq Int
ASSUME SizesAssumption == MaxShift \in Nat /\ Width \in Nat \ {0} /\ Attempts \in Nat \ {0}
ASSUME SecondsAssumption == Seconds \subseteq 0 .. 2 ^ (Width - 1) - 1

\* failures is an int; what lies above MaxShift makes no difference (bound).
FailuresCap == MaxShift + 2

VARIABLES
    interval,   \* WithSyncInterval
    loaded,     \* a blob is published
    pc,         \* NewSynchronizer: "start", "pause"; poll: "sleep", "sync"; "off", "failed"
    attempt,    \* attempt of NewSynchronizer
    left,       \* what is left of the current wait
    failures,   \* Synchronizer.failures
    callerDone, \* the context given to NewSynchronizer is done
    cancelled,  \* Synchronizer.ctx is done
    closer,     \* Close: "open", "waiting" in wg.Wait, "closed"
    streak,     \* history: transient failures since a success or a rejection
    asked       \* history: Retry-After seconds of the last answer, 0 for none

vars == <<interval, loaded, pc, attempt, left, failures, callerDone, cancelled, closer,
          streak, asked>>

Init ==
    /\ interval \in Intervals
    /\ loaded \in BOOLEAN           \* loadCached
    /\ pc = "start" /\ attempt = 0
    /\ left = 0 /\ failures = 0
    /\ callerDone = FALSE /\ cancelled = FALSE /\ closer = "open"
    /\ streak = 0 /\ asked = 0

----------------------------------------------------------------------------
\* Waits.

\* A time.Duration wraps.
Signed(n) == LET m == n % 2 ^ Width IN IF m < 2 ^ (Width - 1) THEN m ELSE m - 2 ^ Width

\* The Retry-After header: none (or not readable), seconds, or a date.
Headers == {[kind |-> "none", n |-> 0]}
           \cup {[kind |-> "seconds", n |-> s] : s \in Seconds}
           \cup {[kind |-> "date", n |-> d] : d \in Dates}

ParseRetryAfter(h) ==
    CASE h.kind = "none" -> 0
      [] h.kind = "seconds" -> Signed(h.n * Second)
      [] h.kind = "date" -> Max({h.n, 0})

\* mutants: the header is not bounded; it is not looked at.
Unbounded(d) == IF d > 0 THEN d ELSE QuotaPause
FixedPause(d) == QuotaPause
QuotaDelay(d) == IF d > 0 THEN Min({d, MaxRetryAfter}) ELSE QuotaPause

\* The back-off before its jitter.
BackoffLimit == IF interval > 0 THEN Min({interval, MaxTransientBackoff}) ELSE MaxTransientBackoff
Backoff(k) == Min({Second * 2 ^ Min({k, MaxShift}), BackoffLimit})
\* 0.8 to 1.2 times that.
Jittered(d) == (8 * d) \div 10 .. (12 * d) \div 10

\* mutant: a success keeps the failures.
KeptFailures == failures
ResetFailures == 0

\* The outcome of a sync: "ok" (a new version or 304), "quota" (402, 429), "client" (other
\* 4xx), "server" (other statuses), "network" (no answer, a truncated or invalid body).
\* nextDelay: the wait before the next sync.
NextDelay(outcome, header) ==
    \/ /\ outcome \in {"ok", "client"}
       /\ failures' = ResetFailures /\ streak' = 0 /\ asked' = 0
       /\ left' = interval
    \/ /\ outcome = "quota"
       /\ left' = QuotaDelay(ParseRetryAfter(header))
       /\ asked' = IF header.kind = "seconds" THEN header.n ELSE 0
       /\ UNCHANGED <<failures, streak>>
    \/ /\ outcome \in {"server", "network"}
       /\ left' \in Jittered(Backoff(failures))
       /\ failures' = Min({failures + 1, FailuresCap})
       /\ streak' = Min({streak + 1, FailuresCap})
       /\ asked' = 0

----------------------------------------------------------------------------
\* NewSynchronizer

\* mutant: a Synchronizer with no data is returned.
StartAnyway(outcome) == TRUE
HasData(outcome) == outcome = "ok" \/ loaded

\* The attempts are over: an error without data, else the poll loop starts.
Started(outcome, header) ==
    IF ~HasData(outcome)
    THEN /\ pc' = "failed" /\ closer' = "closed"
         /\ UNCHANGED <<left, failures, streak, asked>>
    ELSE /\ UNCHANGED closer
         /\ IF interval > 0
            THEN pc' = "sleep" /\ NextDelay(outcome, header)
            ELSE pc' = "off" /\ UNCHANGED <<left, failures, streak, asked>>

\* An attempt ends; a status, or the caller's context, ends the attempts with it.
StartSync ==
    \E outcome \in {"ok", "quota", "client", "server", "network"}, header \in Headers :
        /\ pc = "start"
        /\ outcome = "quota" \/ header.kind = "none"
        /\ loaded' = (loaded \/ outcome = "ok")
        /\ IF outcome # "network" \/ callerDone
           THEN Started(outcome, header) /\ UNCHANGED attempt
           ELSE /\ pc' = "pause"
                /\ UNCHANGED <<attempt, left, failures, closer, streak, asked>>
        /\ UNCHANGED <<interval, callerDone, cancelled>>

NextAttempt(n) == n + 1

\* sleep(ctx, 100 ms << attempt) returns.
StartPause ==
    /\ pc = "pause"
    /\ attempt' = NextAttempt(attempt)
    /\ IF attempt' < Attempts /\ ~callerDone
       THEN pc' = "start" /\ UNCHANGED <<left, failures, closer, streak, asked>>
       ELSE Started("network", [kind |-> "none", n |-> 0])
    /\ UNCHANGED <<interval, loaded, callerDone, cancelled>>

CallerCancels ==
    /\ ~callerDone
    /\ callerDone' = TRUE
    /\ UNCHANGED <<interval, loaded, pc, attempt, left, failures, cancelled, closer, streak, asked>>

----------------------------------------------------------------------------
\* The poll loop.

Tick ==
    /\ pc = "sleep" /\ left > 0
    /\ left' = left - 1
    /\ UNCHANGED <<interval, loaded, pc, attempt, failures, callerDone, cancelled, closer,
                   streak, asked>>

\* mutant: a wait that is over does not end.
NeverOver == left < 0
WaitOver == left <= 0

\* sleepCtx returns true.
WakeUp ==
    /\ pc = "sleep" /\ WaitOver
    /\ pc' = "sync"
    /\ UNCHANGED <<interval, loaded, attempt, left, failures, callerDone, cancelled, closer,
                   streak, asked>>

\* sleepCtx returns false.
WaitCancelled ==
    /\ pc = "sleep" /\ cancelled
    /\ pc' = "off"
    /\ UNCHANGED <<interval, loaded, attempt, left, failures, callerDone, cancelled, closer,
                   streak, asked>>

\* mutant: only a wait looks at the context.
IgnoresContext == FALSE
ContextDone == cancelled

\* Sync returns; the loop ends if the context is done, else waits.
PollSync ==
    \E outcome \in {"ok", "quota", "client", "server", "network"}, header \in Headers :
        /\ pc = "sync"
        /\ outcome = "quota" \/ header.kind = "none"
        /\ IF ContextDone
           THEN pc' = "off" /\ UNCHANGED <<left, failures, streak, asked>>
           ELSE pc' = "sleep" /\ NextDelay(outcome, header)
        /\ UNCHANGED <<interval, loaded, attempt, callerDone, cancelled, closer>>

\* Close: cancel, wg.Wait, then the Map is closed.
Close ==
    /\ closer = "open" /\ pc \in {"sleep", "sync", "off"}
    /\ cancelled' = TRUE
    /\ closer' = "waiting"
    /\ UNCHANGED <<interval, loaded, pc, attempt, left, failures, callerDone, streak, asked>>

\* mutant: the loop is not waited for.
NotWaited == TRUE
LoopEnded == pc = "off"

CloseMap ==
    /\ closer = "waiting" /\ LoopEnded
    /\ closer' = "closed"
    /\ UNCHANGED <<interval, loaded, pc, attempt, left, failures, callerDone, cancelled,
                   streak, asked>>

----------------------------------------------------------------------------
Next == \/ StartSync \/ StartPause \/ CallerCancels
        \/ Tick \/ WakeUp \/ WaitCancelled \/ PollSync
        \/ Close \/ CloseMap

Spec == Init /\ [][Next]_vars

\* Timers fire, requests end (the http.Client has a timeout), goroutines run.
FairSpec == /\ Spec
            /\ WF_vars(StartSync) /\ WF_vars(StartPause)
            /\ WF_vars(Tick) /\ WF_vars(WakeUp) /\ WF_vars(WaitCancelled) /\ WF_vars(PollSync)
            /\ WF_vars(CloseMap)

----------------------------------------------------------------------------
\* Properties.

TypeOK ==
    /\ interval \in Intervals /\ loaded \in BOOLEAN
    /\ pc \in {"start", "pause", "sleep", "sync", "off", "failed"}
    /\ attempt \in 0 .. Attempts
    /\ left \in Int /\ failures \in 0 .. FailuresCap
    /\ callerDone \in BOOLEAN /\ cancelled \in BOOLEAN
    /\ closer \in {"open", "waiting", "closed"}
    /\ streak \in 0 .. FailuresCap /\ asked \in Nat

\* Whatever the server answers, the next sync is at most an hour, a quota pause or an
\* interval away: no header and no run of failures stops the polling (nextDelay).
WaitBounded == left <= Max({interval, QuotaPause, MaxRetryAfter, (12 * BackoffLimit) \div 10})

\* After Close has closed the Map no sync of the loop is left to publish into it; a
\* Synchronizer is handed out only with data to serve.
ClosedAfterLoop == closer = "closed" => pc \in {"off", "failed"}
ReturnedWithData == pc \in {"sleep", "sync", "off"} => loaded

\* The loop never outlives its Map, never runs without data, and never waits for longer
\* than the code's limits allow, whatever the answers and whenever Close comes.
LoopSound == TypeOK /\ WaitBounded /\ ClosedAfterLoop /\ ReturnedWithData

\* A wait after a transient failure fits the failures since the last success: the back-off
\* starts over at about a second, and does not shrink while the failures go on (failures,
\* transientBackoff).
BackoffFits ==
    [][pc' = "sleep" /\ pc # "sleep" /\ streak' > 0 /\ streak' > streak
          => left' \in Jittered(Backoff(streak' - 1))]_vars

\* A quota answer that names seconds is waited out, up to MaxRetryAfter ("parsed
\* Retry-After for 402/429").
RetryAfterHonoured ==
    [][pc' = "sleep" /\ pc # "sleep" /\ asked' > 0
          => left' >= Min({asked' * Second, MaxRetryAfter})]_vars

\* Each wait is the one the failures and the server's answer call for.
WaitsHonoured == BackoffFits /\ RetryAfterHonoured

\* The polling goes on until Close, whatever the answers.
KeepsPolling == pc = "sleep" ~> pc = "sync" \/ cancelled

\* NewSynchronizer returns, and Close does (wg.Wait): a wait is cut short.
StartEnds == <>(pc \notin {"start", "pause"})
CloseReturns == cancelled ~> closer = "closed"

\* Nothing in the life of a Synchronizer stalls: its start, its polling, its Close.
LoopLives == StartEnds /\ KeepsPolling /\ CloseReturns
=============================================================================
