------------------------------ MODULE Telemetry ------------------------------
(****************************************************************************)
(* The telemetry emitter of the Synchronizer (telemetry.go): the collect    *)
(* goroutine and FlushTelemetry build reports and enqueue them without      *)
(* blocking, the send goroutine delivers them with retries and honours the  *)
(* server's 429 pauses, and every report that is given up is counted and    *)
(* announced by a later one.                                                *)
(*                                                                          *)
(* A report is the number of drops it announces; what else is in its body   *)
(* (LookupCounters) plays no part here.                                     *)
(****************************************************************************)
EXTENDS Integers, Sequences, FiniteSets, Totals

CONSTANTS
    Builders,     \* collect and the callers of FlushTelemetry
    QueueSize,    \* telemetryQueueSize
    Retries,      \* len(retryDelays)
    MaxReports,   \* bound: reports built
    MaxTime,      \* bound: ticks of the clock
    Pauses        \* lengths, in ticks, a 429 answer may ask for

ASSUME SizesAssumption == QueueSize \in Nat \ {0} /\ Retries \in Nat
ASSUME PausesAssumption == Pauses \subseteq Nat \ {0}
ASSUME BoundsAssumption == MaxReports \in Nat /\ MaxTime \in Nat \ {0}
ASSUME BuildersAssumption == IsFiniteSet(Builders)

VARIABLES
    enabled,     \* TelemetryEnabled: the last X-Attos-Config
    queue,       \* the channel: droppedCarried of each queued report
    dropped,     \* telemetryEmitter.dropped
    sent,        \* telemetryEmitter.sent
    attempts,    \* telemetryEmitter.attempts
    pauseUntil,  \* telemetryEmitter.pauseUntil, 0 before the first 429
    bpc, bcarry, \* a builder: control, droppedCarried of the report it has built
    spc,         \* the send goroutine
    scarry,      \* droppedCarried of the report it holds
    attempt,     \* deliver's attempt
    cancelled,   \* the Synchronizer's ctx is done
    now,         \* the clock
    taken,       \* history: reports the send goroutine has taken
    built,       \* history: reports built
    told         \* history: drops announced by delivered reports

sendVars == <<spc, scarry, attempt>>
histVars == <<built, told, taken>>
vars == <<enabled, queue, dropped, sent, attempts, pauseUntil, bpc, bcarry, sendVars,
          cancelled, now, histVars>>

Init ==
    /\ enabled = TRUE
    /\ queue = <<>>
    /\ dropped = 0 /\ sent = 0 /\ attempts = 0 /\ pauseUntil = 0
    /\ bpc = [b \in Builders |-> "idle"] /\ bcarry = [b \in Builders |-> 0]
    /\ spc = "idle" /\ scarry = 0 /\ attempt = 0
    /\ cancelled = FALSE /\ now = 1
    /\ built = 0 /\ told = 0 /\ taken = 0

----------------------------------------------------------------------------
\* Environment.

\* A sync stores the configuration header (applyConfigHeader).
Configure ==
    /\ enabled' \in BOOLEAN \ {enabled}
    /\ UNCHANGED <<queue, dropped, sent, attempts, pauseUntil, bpc, bcarry, sendVars,
                   cancelled, now, histVars>>

\* Synchronizer.Close cancels the context.
Cancel ==
    /\ ~cancelled
    /\ cancelled' = TRUE
    /\ UNCHANGED <<enabled, queue, dropped, sent, attempts, pauseUntil, bpc, bcarry, sendVars,
                   now, histVars>>

Tick ==
    /\ now < MaxTime
    /\ now' = now + 1
    /\ UNCHANGED <<enabled, queue, dropped, sent, attempts, pauseUntil, bpc, bcarry, sendVars,
                   cancelled, histVars>>

----------------------------------------------------------------------------
\* Building and enqueueing.

\* build returns nil when telemetry is disabled and takes the pending drops otherwise.
Build(b) ==
    /\ bpc[b] = "idle" /\ built < MaxReports
    /\ IF enabled
       THEN /\ bcarry' = [bcarry EXCEPT ![b] = dropped]
            /\ dropped' = 0
            /\ built' = built + 1
            /\ bpc' = [bpc EXCEPT ![b] = "enqueue"]
       ELSE UNCHANGED <<dropped, bcarry, built, bpc>>
    /\ UNCHANGED <<enabled, queue, sent, attempts, pauseUntil, sendVars, cancelled, now, told,
                   taken>>

\* mutant: a dropped report forgets the drops it carried.
OnlyItself(n) == 1
WithCarried(n) == 1 + n

HasRoom == Len(queue) < QueueSize

\* Drop-newest on a full queue.
Enqueue(b) ==
    /\ bpc[b] = "enqueue"
    /\ IF HasRoom
       THEN queue' = Append(queue, bcarry[b]) /\ UNCHANGED dropped
       ELSE dropped' = dropped + WithCarried(bcarry[b]) /\ UNCHANGED queue
    /\ bpc' = [bpc EXCEPT ![b] = "idle"]
    /\ bcarry' = [bcarry EXCEPT ![b] = 0]
    /\ UNCHANGED <<enabled, sent, attempts, pauseUntil, sendVars, cancelled, now, histVars>>

----------------------------------------------------------------------------
\* The send goroutine.

\* r = <-t.queue, then the look at pauseUntil.
Take ==
    /\ spc = "idle" /\ queue # <<>>
    /\ scarry' = Head(queue)
    /\ queue' = Tail(queue)
    /\ attempt' = 0
    /\ taken' = taken + 1
    /\ spc' = IF pauseUntil > 0 THEN "pause" ELSE "post"
    /\ UNCHANGED <<enabled, dropped, sent, attempts, pauseUntil, bpc, bcarry, cancelled, now,
                   built, told>>

\* mutant: the send loop does not select on the context.
NoSelect == FALSE
CtxDone == cancelled

\* select may choose ctx.Done although reports are queued.
Stop ==
    /\ spc = "idle" /\ CtxDone
    /\ spc' = "off"
    /\ UNCHANGED <<enabled, queue, dropped, sent, attempts, pauseUntil, bpc, bcarry, scarry,
                   attempt, cancelled, now, histVars>>

\* mutants: the pause is not slept out, or never ends.
PauseSkipped == TRUE
PauseForEver == FALSE
PauseIsOver == now >= pauseUntil

PauseOver ==
    /\ spc = "pause" /\ PauseIsOver
    /\ spc' = "post"
    /\ UNCHANGED <<enabled, queue, dropped, sent, attempts, pauseUntil, bpc, bcarry, scarry,
                   attempt, cancelled, now, histVars>>

\* The cancelled sleep makes send return with the report in hand, counted nowhere.
PauseCancelled ==
    /\ spc = "pause" /\ cancelled
    /\ spc' = "off"
    /\ scarry' = 0
    /\ UNCHANGED <<enabled, queue, dropped, sent, attempts, pauseUntil, bpc, bcarry, attempt,
                   cancelled, now, histVars>>

\* t.attempts.Add(1); the request leaves.
Post ==
    /\ spc = "post"
    /\ attempts' = attempts + 1
    /\ spc' = "wait"
    /\ UNCHANGED <<enabled, queue, dropped, sent, pauseUntil, bpc, bcarry, scarry, attempt,
                   cancelled, now, histVars>>

Dropped ==
    /\ dropped' = dropped + WithCarried(scarry)
    /\ spc' = "idle" /\ scarry' = 0 /\ attempt' = 0

\* 2xx
Accepted ==
    /\ spc = "wait"
    /\ sent' = sent + 1
    /\ told' = told + scarry
    /\ spc' = "idle" /\ scarry' = 0 /\ attempt' = 0
    /\ UNCHANGED <<enabled, queue, dropped, attempts, pauseUntil, bpc, bcarry, cancelled, now,
                   built, taken>>

\* 429 drops the report and pauses the next one.
TooMany ==
    /\ spc = "wait"
    /\ \E d \in Pauses : now + d <= MaxTime /\ pauseUntil' = now + d
    /\ Dropped
    /\ UNCHANGED <<enabled, queue, sent, attempts, bpc, bcarry, cancelled, now, histVars>>

\* Any other 4xx.
Rejected ==
    /\ spc = "wait"
    /\ Dropped
    /\ UNCHANGED <<enabled, queue, sent, attempts, pauseUntil, bpc, bcarry, cancelled, now,
                   histVars>>

\* mutant: one retry too many.
NotYetOutOfRetries == attempt > Retries
OutOfRetries == attempt >= Retries

\* 5xx, a network error, or the 30 s timeout: the report is given up ...
GiveUp ==
    /\ spc = "wait" /\ (OutOfRetries \/ cancelled)
    /\ Dropped
    /\ UNCHANGED <<enabled, queue, sent, attempts, pauseUntil, bpc, bcarry, cancelled, now,
                   histVars>>

\* ... or tried again after a delay ...
Retry ==
    /\ spc = "wait" /\ ~OutOfRetries /\ ~cancelled
    /\ spc' = "delay"
    /\ UNCHANGED <<enabled, queue, dropped, sent, attempts, pauseUntil, bpc, bcarry, scarry,
                   attempt, cancelled, now, histVars>>

DelayOver ==
    /\ spc = "delay"
    /\ attempt' = attempt + 1
    /\ spc' = "post"
    /\ UNCHANGED <<enabled, queue, dropped, sent, attempts, pauseUntil, bpc, bcarry, scarry,
                   cancelled, now, histVars>>

\* ... that Close interrupts: deliver returns false.
DelayCancelled ==
    /\ spc = "delay" /\ cancelled
    /\ Dropped
    /\ UNCHANGED <<enabled, queue, sent, attempts, pauseUntil, bpc, bcarry, cancelled, now,
                   histVars>>

Sender == \/ Take \/ Stop \/ PauseOver \/ PauseCancelled \/ Post \/ Accepted \/ TooMany
          \/ Rejected \/ GiveUp \/ Retry \/ DelayOver \/ DelayCancelled

----------------------------------------------------------------------------
Next == \/ Configure \/ Cancel \/ Tick
        \/ \E b \in Builders : Build(b) \/ Enqueue(b)
        \/ Sender

Spec == Init /\ [][Next]_vars

\* The goroutines run, requests end (http.Client with a 30 s timeout), sleeps end.
FairSpec == /\ Spec
            /\ WF_vars(Tick)
            /\ WF_vars(Sender)
            /\ \A b \in Builders : WF_vars(Enqueue(b))

----------------------------------------------------------------------------
\* Properties.

TypeOK ==
    /\ enabled \in BOOLEAN /\ cancelled \in BOOLEAN
    /\ queue \in Seq(Nat) /\ Len(queue) <= QueueSize
    /\ dropped \in Nat /\ sent \in Nat /\ attempts \in Nat /\ pauseUntil \in Nat
    /\ bpc \in [Builders -> {"idle", "enqueue"}] /\ bcarry \in [Builders -> Nat]
    /\ spc \in {"idle", "pause", "post", "wait", "delay", "off"}
    /\ scarry \in Nat /\ attempt \in 0 .. Retries
    /\ now \in 1 .. MaxTime
    /\ built \in 0 .. MaxReports /\ told \in Nat /\ taken \in Nat

Reports == Len(queue) + Cardinality({b \in Builders : bpc[b] = "enqueue"})
           + IF spc \in {"pause", "post", "wait", "delay"} THEN 1 ELSE 0
Announced == SumOf(queue) + SumOf(bcarry) + scarry

\* Every report ever built is waiting, in hand or delivered, or its loss is known: to the
\* counter, to a report that will announce it, or to the server.  Only Close may lose
\* reports uncounted: the one whose pause it interrupts (enqueue, send, build).
DropsAccounted == LET known == sent + Reports + dropped + Announced + told
                  IN IF cancelled THEN known <= built ELSE known = built

\* A report is posted at most once and Retries times again (deliver).
AttemptsBounded == attempts <= taken * (Retries + 1)

\* The books of the emitter balance: no loss goes unannounced and no report is posted
\* more often than it may be (enqueue, deliver).
Accounted == TypeOK /\ DropsAccounted /\ AttemptsBounded

\* No request leaves before a 429 pause is over (send, deliver).
PauseHonoured == [][attempts' > attempts => now >= pauseUntil]_vars

\* A report the send goroutine has taken is eventually delivered or given up.
ReportSettled == spc \in {"pause", "post", "wait", "delay"} ~> spc \in {"idle", "off"}

\* After Close the send goroutine ends, which wg.Wait relies on.
SenderStops == cancelled ~> spc = "off"
=============================================================================
