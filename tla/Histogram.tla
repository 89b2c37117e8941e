----------------------------- MODULE Histogram -----------------------------
(****************************************************************************)
(* The latency histogram of attos.Map (stats.go): sampled lookups record    *)
(* into counts, telemetry builds drain it bucket by bucket while they move  *)
(* what they took to total, and exporters read total and counts without a   *)
(* lock.  Several drains may run at once: the reporting loop and any caller *)
(* of FlushTelemetry or DrainLatency.                                       *)
(*                                                                          *)
(* The bucket arithmetic is the code's with its widths as constants:        *)
(* 2^SubBits sub-buckets per power of two, words of Width bits.             *)
(****************************************************************************)
EXTENDS Integers, FiniteSetsExt, Totals

CONSTANTS
    Drainers,     \* goroutines that drain
    SubBits,      \* log2 of the sub-buckets of a power of two (3 in the code)
    Width,        \* width of a word in bits (64)
    NumBuckets,   \* len(counts) (64 * 8)
    Durations,    \* the durations time.Since may return
    MaxSamples, MaxDrains, MaxScrapes   \* bounds

Sub == 2 ^ SubBits
Word == 2 ^ Width
Index == 0 .. NumBuckets - 1

VARIABLES
    counts, total,    \* the two arrays of counters
    dpos,             \* drain: the bucket it is at, NumBuckets when all are taken, -1 for none
    adding,           \* drain: it holds a bucket that total does not have yet
    c,                \* drain: what it took
    spos, loaded,     \* exporter: its bucket (-1 for none), and the total it has loaded there
    seen,             \* what the exporter last read of each bucket
    drains, scrapes,  \* begun so far
    recorded,         \* history: samples ever recorded, per bucket
    reported,         \* history: samples in the snapshots returned, per bucket
    held, taken,      \* history: the true latencies behind counts, and behind c
    base, quiet       \* history: recorded when the scrape began, no drain ran since

drainVars == <<dpos, adding, c, drains, reported, taken>>
scrapeVars == <<spos, loaded, seen, scrapes, base>>
vars == <<counts, total, recorded, held, quiet, drainVars, scrapeVars>>

Zero == [i \in Index |-> 0]
Ns(d) == IF d > 0 THEN d ELSE 0
Latencies == {Ns(d) : d \in Durations}
NoLatency == [v \in Latencies |-> 0]

Init ==
    /\ counts = Zero /\ total = Zero
    /\ dpos = [w \in Drainers |-> -1] /\ adding = [w \in Drainers |-> FALSE]
    /\ c = [w \in Drainers |-> Zero]
    /\ spos = -1 /\ loaded = -1 /\ seen = Zero
    /\ drains = 0 /\ scrapes = 0
    /\ recorded = Zero /\ reported = Zero
    /\ held = NoLatency /\ taken = [w \in Drainers |-> NoLatency]
    /\ base = Zero /\ quiet = TRUE

----------------------------------------------------------------------------
\* Bucket arithmetic.

\* 63 - bits.LeadingZeros64(ns)
Exponent(ns) == CHOOSE e \in 0 .. Width - 1 : 2 ^ e <= ns /\ ns < 2 ^ (e + 1)

HistIndex(ns) ==
    IF ns < Sub THEN ns
    ELSE LET e == Exponent(ns)
         IN ((e - SubBits + 1) * Sub) + ((ns \div 2 ^ (e - SubBits)) % Sub)

HistUpper(i) ==
    IF i < Sub THEN i ELSE ((Sub + (i % Sub) + 1) * 2 ^ (i \div Sub - 1) - 1) % Word

BucketOf(ns) == IF HistIndex(ns) >= NumBuckets THEN NumBuckets - 1 ELSE HistIndex(ns)

----------------------------------------------------------------------------
\* record: one atomic add.

Record(d) ==
    LET ns == Ns(d)
        i == BucketOf(ns)
    IN /\ SumOf(recorded) < MaxSamples
       /\ counts' = [counts EXCEPT ![i] = @ + 1]
       /\ recorded' = [recorded EXCEPT ![i] = @ + 1]
       /\ held' = [held EXCEPT ![ns] = @ + 1]
       /\ UNCHANGED <<total, quiet, drainVars, scrapeVars>>

----------------------------------------------------------------------------
\* drain

DrainBegin(w) ==
    /\ dpos[w] = -1 /\ drains < MaxDrains
    /\ dpos' = [dpos EXCEPT ![w] = 0]
    /\ drains' = drains + 1
    /\ quiet' = FALSE
    /\ UNCHANGED <<counts, total, recorded, held, adding, c, reported, taken, scrapeVars>>

\* mutant: a load and no reset.
LeftLoaded(n) == n
LeftSwapped(n) == 0

\* counts[i].Swap(0)
SwapBucket(w) ==
    LET i == dpos[w]
        Moved(v) == BucketOf(v) = i
    IN /\ i \in Index /\ ~adding[w]
       /\ c' = [c EXCEPT ![w][i] = counts[i]]
       /\ counts' = [counts EXCEPT ![i] = LeftSwapped(@)]
       /\ taken' = [taken EXCEPT ![w] = [v \in Latencies |-> IF Moved(v) THEN held[v] ELSE @[v]]]
       /\ held' = [v \in Latencies |-> IF Moved(v) THEN 0 ELSE held[v]]
       /\ IF counts[i] # 0
          THEN adding' = [adding EXCEPT ![w] = TRUE] /\ UNCHANGED dpos
          ELSE dpos' = [dpos EXCEPT ![w] = i + 1] /\ UNCHANGED adding
       /\ UNCHANGED <<total, recorded, quiet, drains, reported, scrapeVars>>

\* mutant: the total is set to what this drain took.
StoreTotal(t, n) == n
AddTotal(t, n) == t + n

\* total[i].Add(c[i])
KeepBucket(w) ==
    LET i == dpos[w]
    IN /\ adding[w]
       /\ total' = [total EXCEPT ![i] = AddTotal(@, c[w][i])]
       /\ adding' = [adding EXCEPT ![w] = FALSE]
       /\ dpos' = [dpos EXCEPT ![w] = i + 1]
       /\ UNCHANGED <<counts, recorded, held, quiet, c, drains, reported, taken, scrapeVars>>

\* The snapshot is returned.
DrainEnd(w) ==
    /\ dpos[w] = NumBuckets
    /\ dpos' = [dpos EXCEPT ![w] = -1]
    /\ reported' = [i \in Index |-> reported[i] + c[w][i]]
    /\ c' = [c EXCEPT ![w] = Zero]
    /\ taken' = [taken EXCEPT ![w] = NoLatency]
    /\ UNCHANGED <<counts, total, recorded, held, quiet, adding, drains, scrapeVars>>

SumUpTo(f, i) == SumOf([j \in 0 .. i |-> f[j]])
Samples(f) == SumUpTo(f, NumBuckets - 1)

\* mutant: the rank is rounded down.
RankDown(p, n) == (p * n) \div 100
RankNear(p, n) == (p * n + 50) \div 100

\* uint64(p * float64(total) + 0.5), at least 1; p in percent.
Rank(p, n) == Max({1, RankNear(p, n)})

\* The first bucket at which the samples so far reach the rank.
Quantile(f, p) ==
    HistUpper(Min({i \in Index : SumUpTo(f, i) >= Rank(p, Samples(f))}))

Snapshot(f) ==
    [p50 |-> Quantile(f, 50), p95 |-> Quantile(f, 95), p99 |-> Quantile(f, 99),
     max |-> HistUpper(Max({i \in Index : f[i] > 0}))]

----------------------------------------------------------------------------
\* LatencyBuckets, by an exporter.

NoDrain == \A w \in Drainers : dpos[w] \in {-1, NumBuckets}

ScrapeBegin ==
    /\ spos = -1 /\ scrapes < MaxScrapes
    /\ spos' = 0 /\ loaded' = -1
    /\ scrapes' = scrapes + 1
    /\ base' = recorded
    /\ quiet' = NoDrain
    /\ UNCHANGED <<counts, total, recorded, held, drainVars, seen>>

\* The two loads in program order; mutant: counts is read first.
CountsThenTotal(i) == <<counts[i], total[i]>>
TotalThenCounts(i) == <<total[i], counts[i]>>

\* total[i].Load()
LoadFirst ==
    /\ spos \in Index /\ loaded = -1
    /\ loaded' = TotalThenCounts(spos)[1]
    /\ UNCHANGED <<counts, total, recorded, held, quiet, drainVars, spos, seen, scrapes, base>>

\* + counts[i].Load()
LoadSecond ==
    /\ spos \in Index /\ loaded # -1
    /\ seen' = [seen EXCEPT ![spos] = loaded + TotalThenCounts(spos)[2]]
    /\ loaded' = -1
    /\ spos' = IF spos + 1 = NumBuckets THEN -1 ELSE spos + 1
    /\ UNCHANGED <<counts, total, recorded, held, quiet, drainVars, scrapes, base>>

----------------------------------------------------------------------------
Next ==
    \/ \E d \in Durations : Record(d)
    \/ \E w \in Drainers : DrainBegin(w) \/ SwapBucket(w) \/ KeepBucket(w) \/ DrainEnd(w)
    \/ ScrapeBegin \/ LoadFirst \/ LoadSecond

Spec == Init /\ [][Next]_vars

----------------------------------------------------------------------------
\* Properties.

Counters == [Index -> Nat]
TypeOK ==
    /\ counts \in Counters /\ total \in Counters /\ seen \in Counters
    /\ recorded \in Counters /\ reported \in Counters /\ base \in Counters
    /\ dpos \in [Drainers -> -1 .. NumBuckets] /\ adding \in [Drainers -> BOOLEAN]
    /\ c \in [Drainers -> Counters]
    /\ spos \in {-1} \cup Index /\ loaded \in Nat \cup {-1}
    /\ drains \in 0 .. MaxDrains /\ scrapes \in 0 .. MaxScrapes
    /\ held \in [Latencies -> Nat] /\ taken \in [Drainers -> [Latencies -> Nat]]
    /\ quiet \in BOOLEAN

InHand(i) == SumOf([w \in Drainers |-> c[w][i]])
NotAdded(i) == SumOf([w \in Drainers |-> IF adding[w] /\ dpos[w] = i THEN c[w][i] ELSE 0])

\* Every sample is in the snapshot of exactly one drain, however drains and recordings
\* overlap ("atomically takes and resets the histogram"; drain's Swap).
ReportedOnce == \A i \in Index : reported[i] + InHand(i) + counts[i] = recorded[i]

\* The exporters' histogram loses nothing: outside the window between a drain's Swap and
\* its Add, total and counts together hold every sample ever recorded.
CumulativeExact == \A i \in Index : total[i] + counts[i] + NotAdded(i) = recorded[i]

\* Drains and recordings lose no sample and count none twice, neither in the snapshots nor
\* in the histogram of the exporters.
CountsExact == TypeOK /\ ReportedOnce /\ CumulativeExact

\* An exporter never counts a sample twice, although a drain moves it from counts to total
\* between the two loads of LatencyBuckets; and with no drain running it misses none.
ScrapeSound ==
    \A i \in Index :
        /\ seen[i] <= recorded[i]
        /\ quiet /\ i < spos => seen[i] >= base[i]

\* A reading below a percentile holds for enough of the true latencies, and a true latency
\* lies within one sub-bucket (12.5 % in the code) below each percentile and the maximum;
\* the percentiles are in order (histIndex, histUpper, q).
Close(bound, sample) == sample <= bound /\ (bound - sample) * Sub <= sample
AtMost(f, bound) == SumOf([v \in {v \in Latencies : v <= bound} |-> f[v]])
SoundQuantile(f, n, p, bound) ==
    /\ AtMost(f, bound) * 100 >= p * n - 50
    /\ \E v \in Latencies : f[v] > 0 /\ Close(bound, v)
QuantilesSound ==
    \A w \in Drainers :
        LET n == Samples(c[w])
            s == Snapshot(c[w])
            Most == Max({v \in Latencies : taken[w][v] > 0})
        IN dpos[w] = NumBuckets /\ n > 0 =>
             /\ SoundQuantile(taken[w], n, 50, s.p50) /\ SoundQuantile(taken[w], n, 95, s.p95)
             /\ SoundQuantile(taken[w], n, 99, s.p99) /\ Close(s.max, Most)
             /\ s.p50 <= s.p95 /\ s.p95 <= s.p99 /\ s.p99 <= s.max
============================================================================
