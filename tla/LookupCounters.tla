--------------------------- MODULE LookupCounters ---------------------------
(****************************************************************************)
(* The statistics of attos.Map across hot swaps: the per-mapping counters   *)
(* a read updates, their transfer to the Map when a mapping is retired or   *)
(* the Map closed, the readers of the totals (Lookups, Misses), and the     *)
(* telemetry window built on them.                                          *)
(*                                                                          *)
(* The swap protocol is HotSwap's, taken here as one step per event: a      *)
(* mapping is drained when no read holds it.  The stripes of a mapping are  *)
(* one counter, and counters wrap at 2^Width.                               *)
(****************************************************************************)
EXTENDS Integers

CONSTANTS
    Readers,    \* goroutines that read the Map
    NumMaps,    \* bound: mappings installed one after the other
    Ops,        \* the operations readers perform
    BatchLen,   \* keys of a GetMany
    Width,      \* width of a counter in bits (64 in the code)
    MaxOps,     \* bound: operations performed
    MaxBuilds   \* bound: telemetry windows

ASSUME OpsAssumption == Ops \subseteq {"get", "batch", "other"}
ASSUME CounterSizesAssumption == BatchLen \in Nat \ {0} /\ Width \in Nat /\ NumMaps \in Nat \ {0}

Maps == 1 .. NumMaps

Wrap(n) == n % (2 ^ Width)

VARIABLES
    cur,          \* the current mapping, 0 for nil
    stage,        \* "fresh", "live", "old", "half" (lookups transferred) or "gone"
    exits,        \* sum of the exit counters of a mapping's stripes
    missed,       \* sum of its miss counters
    nonLookups, batchExtra,
    retiredLookups, retiredMisses,
    rpc, rop, rmap, rmiss,  \* a read: control, operation, mapping, misses to count
    opsDone,      \* operations begun
    opc, on, omap,          \* Lookups() in progress: control, n, mp
    lastLookups,  \* telemetryEmitter.lastLookups
    builds,       \* windows built
    reported,     \* history: the lookups_count of all windows together
    served, servedMisses    \* history: the true totals

mapVars  == <<cur, stage>>
statVars == <<exits, missed, nonLookups, batchExtra>>
retVars  == <<retiredLookups, retiredMisses>>
readVars == <<rpc, rop, rmap, rmiss, opsDone>>
obsVars  == <<opc, on, omap, lastLookups, builds, reported>>
trueVars == <<served, servedMisses>>
countersVars == <<mapVars, statVars, retVars, readVars, obsVars, trueVars>>

CountersInit ==
    /\ cur = 1
    /\ stage = [m \in Maps |-> IF m = 1 THEN "live" ELSE "fresh"]
    /\ exits = [m \in Maps |-> 0] /\ missed = [m \in Maps |-> 0]
    /\ nonLookups = [m \in Maps |-> 0] /\ batchExtra = [m \in Maps |-> 0]
    /\ retiredLookups = 0 /\ retiredMisses = 0
    /\ rpc = [r \in Readers |-> "idle"] /\ rop = [r \in Readers |-> "get"]
    /\ rmap = [r \in Readers |-> 0] /\ rmiss = [r \in Readers |-> 0]
    /\ opsDone = 0
    /\ opc = "idle" /\ on = 0 /\ omap = 0
    /\ lastLookups = 0 /\ builds = 0 /\ reported = 0
    /\ served = 0 /\ servedMisses = 0

----------------------------------------------------------------------------
\* Reads.

Keys(op) == CASE op = "get" -> 1 [] op = "batch" -> BatchLen [] op = "other" -> 0

\* The read is pinned by enter; which of its keys are absent is the data's choice.
Enter(r) ==
    /\ rpc[r] = "idle" /\ cur # 0 /\ opsDone < MaxOps
    /\ \E op \in Ops : \E k \in 0 .. Keys(op) :
          /\ rop' = [rop EXCEPT ![r] = op]
          /\ rmiss' = [rmiss EXCEPT ![r] = k]
          /\ rpc' = [rpc EXCEPT ![r] = IF op = "get" THEN "lookup" ELSE "account"]
    /\ rmap' = [rmap EXCEPT ![r] = cur]
    /\ opsDone' = opsDone + 1
    /\ UNCHANGED <<mapVars, statVars, retVars, obsVars, trueVars>>

\* mutant: Len and Scan count as lookups.
OtherCounted == 0
OtherExcluded == 1

\* Len and Scan add to nonLookups, GetMany to batchExtra, before they touch the data.
Account(r) ==
    /\ rpc[r] = "account"
    /\ IF rop[r] = "batch"
       THEN /\ batchExtra' = [batchExtra EXCEPT ![rmap[r]] = Wrap(@ + BatchLen - 1)]
            /\ UNCHANGED nonLookups
       ELSE /\ nonLookups' = [nonLookups EXCEPT ![rmap[r]] = Wrap(@ + OtherExcluded)]
            /\ UNCHANGED batchExtra
    /\ rpc' = [rpc EXCEPT ![r] = "lookup"]
    /\ UNCHANGED <<mapVars, exits, missed, retVars, rop, rmap, rmiss, opsDone, obsVars, trueVars>>

\* s.miss.Add(1) for one absent key.
NoteMiss(r) ==
    /\ rpc[r] = "lookup" /\ rmiss[r] > 0
    /\ missed' = [missed EXCEPT ![rmap[r]] = Wrap(@ + 1)]
    /\ rmiss' = [rmiss EXCEPT ![r] = @ - 1]
    /\ servedMisses' = servedMisses + 1
    /\ UNCHANGED <<mapVars, exits, nonLookups, batchExtra, retVars, rpc, rop, rmap, opsDone,
                   obsVars, served>>

\* s.exit.Add(1)
Exit(r) ==
    /\ rpc[r] = "lookup" /\ rmiss[r] = 0
    /\ exits' = [exits EXCEPT ![rmap[r]] = Wrap(@ + 1)]
    /\ served' = served + Keys(rop[r])
    /\ rpc' = [rpc EXCEPT ![r] = "idle"]
    /\ rmap' = [rmap EXCEPT ![r] = 0]
    /\ rop' = [rop EXCEPT ![r] = "get"]
    /\ UNCHANGED <<mapVars, missed, nonLookups, batchExtra, retVars, rmiss, opsDone,
                   obsVars, servedMisses>>

----------------------------------------------------------------------------
\* Swaps and Close.

Swap ==
    /\ cur # 0 /\ cur < NumMaps
    /\ cur' = cur + 1
    /\ stage' = [stage EXCEPT ![cur] = "old", ![cur + 1] = "live"]
    /\ UNCHANGED <<statVars, retVars, readVars, obsVars, trueVars>>

Close ==
    /\ cur # 0
    /\ cur' = 0
    /\ stage' = [stage EXCEPT ![cur] = "old"]
    /\ UNCHANGED <<statVars, retVars, readVars, obsVars, trueVars>>

\* mutant: the totals are taken before the mapping has drained.
TakenAtOnce(m) == TRUE
Drained(m) == \A r \in Readers : rpc[r] # "idle" => rmap[r] # m

\* mapping.lookups()
LookupsOf(m) == Wrap(exits[m] - nonLookups[m] + batchExtra[m])

\* m.retiredLookups.Add(old.lookups())
AddLookups(m) ==
    /\ stage[m] = "old" /\ Drained(m)
    /\ retiredLookups' = Wrap(retiredLookups + LookupsOf(m))
    /\ stage' = [stage EXCEPT ![m] = "half"]
    /\ UNCHANGED <<cur, statVars, retiredMisses, readVars, obsVars, trueVars>>

\* m.retiredMisses.Add(old.misses()), then the mapping is unmapped.
AddMisses(m) ==
    /\ stage[m] = "half"
    /\ retiredMisses' = Wrap(retiredMisses + missed[m])
    /\ stage' = [stage EXCEPT ![m] = "gone"]
    /\ UNCHANGED <<cur, statVars, retiredLookups, readVars, obsVars, trueVars>>

----------------------------------------------------------------------------
\* Map.Lookups, one load at a time, called by the telemetry build.

LoadRetired ==
    /\ opc = "idle" /\ builds < MaxBuilds
    /\ on' = retiredLookups
    /\ opc' = "cur"
    /\ UNCHANGED <<mapVars, statVars, retVars, readVars, omap, lastLookups, builds, reported,
                   trueVars>>

LoadCur ==
    /\ opc = "cur"
    /\ omap' = cur
    /\ opc' = IF cur = 0 THEN "window" ELSE "exits"
    /\ UNCHANGED <<mapVars, statVars, retVars, readVars, on, lastLookups, builds, reported,
                   trueVars>>

LoadExits ==
    /\ opc = "exits"
    /\ on' = Wrap(on + exits[omap])
    /\ opc' = "nonLookups"
    /\ UNCHANGED <<mapVars, statVars, retVars, readVars, omap, lastLookups, builds, reported,
                   trueVars>>

LoadNonLookups ==
    /\ opc = "nonLookups"
    /\ on' = Wrap(on - nonLookups[omap])
    /\ opc' = "batchExtra"
    /\ UNCHANGED <<mapVars, statVars, retVars, readVars, omap, lastLookups, builds, reported,
                   trueVars>>

LoadBatchExtra ==
    /\ opc = "batchExtra"
    /\ on' = Wrap(on + batchExtra[omap])
    /\ opc' = "window"
    /\ UNCHANGED <<mapVars, statVars, retVars, readVars, omap, lastLookups, builds, reported,
                   trueVars>>

\* The window's lookups_count; a total that went down counts as none.
Delta(n) == IF n < lastLookups THEN 0 ELSE n - lastLookups

\* The window advances whether or not a report is built.
Window ==
    /\ opc = "window"
    /\ reported' = reported + Delta(on)
    /\ lastLookups' = on
    /\ builds' = builds + 1
    /\ opc' = "idle" /\ on' = 0 /\ omap' = 0
    /\ UNCHANGED <<mapVars, statVars, retVars, readVars, trueVars>>

----------------------------------------------------------------------------
Finished ==
    /\ \A r \in Readers : rpc[r] = "idle"
    /\ cur = 0 /\ opc = "idle" /\ builds = MaxBuilds
    /\ \A m \in Maps : stage[m] \in {"fresh", "gone"}
    /\ UNCHANGED countersVars

CountersNext ==
    \/ \E r \in Readers : Enter(r) \/ Account(r) \/ NoteMiss(r) \/ Exit(r)
    \/ \E m \in Maps : AddLookups(m) \/ AddMisses(m)
    \/ Swap \/ Close
    \/ LoadRetired \/ LoadCur \/ LoadExits \/ LoadNonLookups \/ LoadBatchExtra \/ Window
    \/ Finished

CountersSpec == CountersInit /\ [][CountersNext]_countersVars

----------------------------------------------------------------------------
\* Properties.

Counter == 0 .. 2 ^ Width - 1
CountersTypeOK ==
    /\ cur \in 0 .. NumMaps
    /\ stage \in [Maps -> {"fresh", "live", "old", "half", "gone"}]
    /\ exits \in [Maps -> Counter] /\ missed \in [Maps -> Counter]
    /\ nonLookups \in [Maps -> Counter] /\ batchExtra \in [Maps -> Counter]
    /\ retiredLookups \in Counter /\ retiredMisses \in Counter
    /\ rpc \in [Readers -> {"idle", "account", "lookup"}]
    /\ rop \in [Readers -> {"get", "batch", "other"}]
    /\ rmap \in [Readers -> 0 .. NumMaps]
    /\ rmiss \in [Readers -> 0 .. BatchLen]
    /\ opsDone \in 0 .. MaxOps
    /\ opc \in {"idle", "cur", "exits", "nonLookups", "batchExtra", "window"}
    /\ on \in Counter /\ omap \in 0 .. NumMaps /\ lastLookups \in Counter
    /\ builds \in 0 .. MaxBuilds /\ reported \in Int
    /\ served \in Nat /\ servedMisses \in Nat

AtRest == /\ \A r \in Readers : rpc[r] = "idle"
          /\ \A m \in Maps : stage[m] \notin {"old", "half"}
LookupsNow == Wrap(retiredLookups + IF cur = 0 THEN 0 ELSE LookupsOf(cur))
MissesNow == Wrap(retiredMisses + IF cur = 0 THEN 0 ELSE missed[cur])

\* With no read in progress and no retirement pending, Lookups and Misses are exact
\* across swaps and Close: each lookup is counted once, batches by their keys, Len and
\* Scan not at all (mapping.lookups, retire, Close, GetMany).
ExactAtRest == AtRest => LookupsNow = Wrap(served) /\ MissesNow = Wrap(servedMisses)

\* The counters are exact at rest, and stay words however often they wrap in between: the
\* moment at which exit - nonLookups is negative does no harm (mapping.lookups).
CountersSound == CountersTypeOK /\ ExactAtRest

\* No lookup stays unreported: after a window taken at rest, the reports together hold
\* at least the lookups served, although a swap can make Lookups dip in between.
NothingUnreported ==
    AtRest /\ opc = "idle" /\ lastLookups = LookupsNow => reported >= served
=============================================================================
