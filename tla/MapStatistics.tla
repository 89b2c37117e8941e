--------------------------- MODULE MapStatistics ---------------------------
(****************************************************************************)
(* The statistics a Map keeps: the lookup counters and the latency          *)
(* histogram.  They share no state, so a behaviour is about one of them; a  *)
(* third part takes the histogram with many latencies and a single drain.   *)
(****************************************************************************)
EXTENDS LookupCounters, FiniteSets

CONSTANTS
    Drainers, SubBits, TimeWidth, NumBuckets, Durations,  \* of the histogram; TimeWidth is
    MaxSamples, MaxDrains, MaxScrapes,                    \* its Width
    ManyDurations, ManyTimeWidth, ManyBuckets, ManySamples  \* of the third part

\* The buckets go up to the largest word, and the latencies fit one.
ASSUME ManyAssumption ==
    /\ SubBits \in Nat /\ ManyTimeWidth \in Nat /\ SubBits < ManyTimeWidth
    /\ ManyBuckets \in Nat /\ (ManyTimeWidth - SubBits + 1) * 2 ^ SubBits <= ManyBuckets
    /\ IsFiniteSet(ManyDurations)
    /\ \A d \in ManyDurations : d \in Int /\ d < 2 ^ ManyTimeWidth

VARIABLES part, counts, total, dpos, adding, c, spos, loaded, seen, drains, scrapes,
          recorded, drained, held, moved, base, quiet

Latency == INSTANCE Histogram WITH Width <- TimeWidth, reported <- drained, taken <- moved

Drainer == CHOOSE w \in Drainers : TRUE
Many == INSTANCE Histogram WITH
    Width <- ManyTimeWidth, NumBuckets <- ManyBuckets, Durations <- ManyDurations,
    MaxSamples <- ManySamples, MaxDrains <- 1, MaxScrapes <- 0, Drainers <- {Drainer},
    reported <- drained, taken <- moved

histogramVars == <<counts, total, dpos, adding, c, spos, loaded, seen, drains, scrapes,
                   recorded, drained, held, moved, base, quiet>>

StatisticsInit ==
    /\ CountersInit
    /\ \/ part \in {"counters", "latency"} /\ Latency!Init
       \/ part = "many" /\ Many!Init

StatisticsNext ==
    /\ UNCHANGED part
    /\ \/ part = "counters" /\ CountersNext /\ UNCHANGED histogramVars
       \/ part = "latency" /\ Latency!Next /\ UNCHANGED countersVars
       \/ part = "many" /\ Many!Next /\ UNCHANGED countersVars
       \/ part # "counters" /\ UNCHANGED <<histogramVars, countersVars>>

StatisticsSpec == StatisticsInit /\ [][StatisticsNext]_<<part, histogramVars, countersVars>>

\* Drains and recordings lose no sample and count none twice (Histogram!CountsExact).
CountsExact == part = "latency" => Latency!CountsExact

\* LatencyBuckets counts no sample twice although a drain moves it, and with no drain
\* running misses none (Histogram!ScrapeSound).
ScrapeSound == part = "latency" => Latency!ScrapeSound

\* Every reported percentile covers its share of the true latencies, and one of them lies
\* within one sub-bucket below it (Histogram!QuantilesSound).
QuantilesSound == part = "many" => Many!QuantilesSound
=============================================================================
