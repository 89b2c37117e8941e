------------------------------- MODULE HotSwap -------------------------------
(****************************************************************************)
(* The hot-swap and reclamation protocol of attos.Map (reader.go): lookups  *)
(* pin the current mapping through striped enter/exit counters, publish     *)
(* swaps a new mapping in and hands the old one to a retire goroutine,      *)
(* and Close tears everything down.  Every step below is one atomic access  *)
(* to shared memory, or one critical section of retireMu.                   *)
(*                                                                          *)
(* Left out: the blob's contents and the counters no step here reads        *)
(* (lookups, misses, latency), which LookupCounters models.                 *)
(****************************************************************************)
EXTENDS Integers, FiniteSets

CONSTANTS
    Readers,      \* goroutines that call Get, GetCopy, View, Scan, Len, GetMany
    Publishers,   \* goroutines that call Reload or the Synchronizer's install
    Closers,      \* goroutines that call Close
    Mappings,     \* the mappings that may ever be opened (bound)
    NoMap,        \* the nil *mapping
    NumStripes,   \* readerStripes
    MaxRetired,   \* maxRetired
    MaxReads,     \* bound: reads all readers together perform
    HasGrace,     \* RetireGrace > 0
    QuietClose    \* TRUE: Close is called only while no publish is running

ASSUME NoMapAssumption == NoMap \notin Mappings
ASSUME StripesAssumption == NumStripes \in Nat \ {0}
ASSUME RetiredAssumption == MaxRetired \in Nat \ {0}
ASSUME ReadsAssumption == MaxReads \in Nat
ASSUME FiniteAssumption == IsFiniteSet(Readers) /\ IsFiniteSet(Mappings)
ASSUME FlagsAssumption == HasGrace \in BOOLEAN /\ QuietClose \in BOOLEAN

Stripes == 0 .. NumStripes - 1

VARIABLES
    cur,        \* Map.cur
    closed,     \* Map.closed, and the closed Map.shutdown channel
    muHeld,     \* retireMu is held across steps (only Close does)
    pending,    \* Map.pending
    swaps,      \* Map.swaps
    opened,     \* mappings openMapping has returned
    mapped,     \* mappings whose data is mapped: opened and not yet unmapped
    retired,    \* mappings whose retired flag is set
    enter,      \* mapping.readers[s].enter
    exit,       \* mapping.readers[s].exit
    rpc, rmap, rstripe,         \* a reader: control, mp, stripe
    reads,      \* reads begun
    rres,       \* what the reader's last finished read returned
    ppc, pnew, pold,            \* a publisher: control, mp, old
    dpc, di, exSum, en,         \* the drain of a mapping: control, loop index,
                                \* ex after each iteration, en
    wg,         \* the counter of retireWG
    once,       \* closeOnce
    cpc,        \* control of a closer
    closeOld,   \* old in Close
    version,    \* history: the order in which mappings were installed, 0 if never
    rfloor      \* history: the version that was current when the read began

readerVars  == <<rpc, rmap, rstripe, reads, rres, rfloor>>
counterVars == <<enter, exit>>
pubVars     == <<ppc, pnew, pold>>
drainVars   == <<dpc, di, exSum, en>>
closeVars   == <<closed, muHeld, once, cpc, closeOld>>
vars == <<cur, pending, swaps, opened, mapped, retired, wg, version,
          readerVars, counterVars, pubVars, drainVars, closeVars>>

Installed(m) == version[m] > 0
Installs == Cardinality({m \in Mappings : Installed(m)})

\* The oldest version a read called now may return; none once Close emptied the Map.
Floor == IF closed /\ cur = NoMap THEN Installs + 1 ELSE Installs

NoSums == [i \in 0 .. NumStripes |-> 0]

----------------------------------------------------------------------------
\* OpenWithConfig returns a Map with a mapping, newEmptyMap one without.
Init ==
    /\ cur \in Mappings \cup {NoMap}
    /\ opened = {cur} \cap Mappings
    /\ mapped = opened
    /\ version = [m \in Mappings |-> IF m = cur THEN 1 ELSE 0]
    /\ closed = FALSE /\ muHeld = FALSE /\ once = "new"
    /\ pending = 0 /\ swaps = 0 /\ wg = 0
    /\ retired = {}
    /\ enter = [m \in Mappings |-> [s \in Stripes |-> 0]]
    /\ exit  = [m \in Mappings |-> [s \in Stripes |-> 0]]
    /\ rpc = [r \in Readers |-> "idle"]
    /\ rmap = [r \in Readers |-> NoMap]
    /\ rstripe = [r \in Readers |-> 0]
    /\ reads = 0
    /\ rres = [r \in Readers |-> "none"]
    /\ rfloor = [r \in Readers |-> 0]
    /\ ppc = [p \in Publishers |-> "idle"]
    /\ pnew = [p \in Publishers |-> NoMap]
    /\ pold = [p \in Publishers |-> NoMap]
    /\ dpc = [m \in Mappings |-> "none"]
    /\ di = [m \in Mappings |-> 0]
    /\ exSum = [m \in Mappings |-> NoSums]
    /\ en = [m \in Mappings |-> 0]
    /\ cpc = [c \in Closers |-> "idle"]
    /\ closeOld = NoMap

----------------------------------------------------------------------------
\* Readers: Map.enter, the lookup, and exit.

\* A method is called with a key whose hash selects stripe s.
Call(r) ==
    /\ rpc[r] = "idle" /\ reads < MaxReads
    /\ \E s \in Stripes : rstripe' = [rstripe EXCEPT ![r] = s]
    /\ reads' = reads + 1
    /\ rfloor' = [rfloor EXCEPT ![r] = Floor]
    /\ rpc' = [rpc EXCEPT ![r] = "load"]
    /\ UNCHANGED <<rmap, rres, cur, pending, swaps, opened, mapped, retired, wg,
                   version, counterVars, pubVars, drainVars, closeVars>>

\* mp := m.cur.Load()
Load(r) ==
    /\ rpc[r] = "load"
    /\ rmap' = [rmap EXCEPT ![r] = cur]
    /\ rpc' = [rpc EXCEPT ![r] = IF cur = NoMap THEN "nomap" ELSE "enter"]
    /\ UNCHANGED <<rstripe, reads, rres, rfloor, cur, pending, swaps, opened, mapped,
                   retired, wg, version, counterVars, pubVars, drainVars, closeVars>>

\* The method returns and its locals are gone.
Returned(r) ==
    /\ rpc' = [rpc EXCEPT ![r] = "idle"]
    /\ rmap' = [rmap EXCEPT ![r] = NoMap]
    /\ rstripe' = [rstripe EXCEPT ![r] = 0]
    /\ rfloor' = [rfloor EXCEPT ![r] = 0]

\* enter returned nil: noMapErr tells a closed Map from one without a mapping.
NoMapErr(r) ==
    /\ rpc[r] = "nomap"
    /\ rres' = [rres EXCEPT ![r] = IF closed THEN "ErrMapClosed" ELSE "ErrNoMap"]
    /\ Returned(r)
    /\ UNCHANGED <<reads, cur, pending, swaps, opened, mapped,
                   retired, wg, version, counterVars, pubVars, drainVars, closeVars>>

\* n := s.enter.Add(1)
Enter(r) ==
    /\ rpc[r] = "enter"
    /\ enter' = [enter EXCEPT ![rmap[r]][rstripe[r]] = @ + 1]
    /\ rpc' = [rpc EXCEPT ![r] = "check"]
    /\ UNCHANGED <<rmap, rstripe, reads, rres, rfloor, cur, pending, swaps, opened,
                   mapped, retired, wg, version, exit, pubVars, drainVars, closeVars>>

\* mutant: the retired flag is not looked at.
PinAlways(m) == TRUE
MayPin(m) == m \notin retired

\* if !mp.retired.Load() the mapping is pinned, otherwise the reader backs off.
Check(r) ==
    /\ rpc[r] = "check"
    /\ rpc' = [rpc EXCEPT ![r] = IF MayPin(rmap[r]) THEN "pinned" ELSE "backoff"]
    /\ UNCHANGED <<rmap, rstripe, reads, rres, rfloor, cur, pending, swaps, opened, mapped,
                   retired, wg, version, counterVars, pubVars, drainVars, closeVars>>

\* mutant: the reader retries without taking its entry back.
EntryKept(n) == n
AddMinusOne(n) == n - 1

\* s.enter.Add(^uint64(0)), then the loop of enter starts over.
BackOff(r) ==
    /\ rpc[r] = "backoff"
    /\ enter' = [enter EXCEPT ![rmap[r]][rstripe[r]] = AddMinusOne(@)]
    /\ rmap' = [rmap EXCEPT ![r] = NoMap]
    /\ rpc' = [rpc EXCEPT ![r] = "load"]
    /\ UNCHANGED <<rstripe, reads, rres, rfloor, cur, pending, swaps, opened,
                   mapped, retired, wg, version, exit, pubVars, drainVars, closeVars>>

\* s.exit.Add(1), after the lookup or the callback has used mp.data.
Exit(r) ==
    /\ rpc[r] = "pinned"
    /\ exit' = [exit EXCEPT ![rmap[r]][rstripe[r]] = @ + 1]
    /\ rres' = [rres EXCEPT ![r] = "ok"]
    /\ Returned(r)
    /\ UNCHANGED <<reads, cur, pending, swaps, opened, mapped,
                   retired, wg, version, enter, pubVars, drainVars, closeVars>>

Reader(r) == \/ Call(r) \/ Load(r) \/ NoMapErr(r) \/ Enter(r)
             \/ Check(r) \/ BackOff(r) \/ Exit(r)

----------------------------------------------------------------------------
\* Publishers: openMapping, publish, and the caller's unmap when it fails.

\* openMapping succeeded; a failed one changes nothing.
OpenMapping(p) ==
    /\ ppc[p] = "idle"
    /\ \E m \in Mappings \ opened :
          /\ opened' = opened \cup {m}
          /\ mapped' = mapped \cup {m}
          /\ pnew' = [pnew EXCEPT ![p] = m]
    /\ ppc' = [ppc EXCEPT ![p] = "lock"]
    /\ UNCHANGED <<cur, pending, swaps, retired, wg, version, pold, readerVars,
                   counterVars, drainVars, closeVars>>

\* mutant: one retired mapping too many.
BlockedLate == pending > MaxRetired /\ ~closed
Blocked == pending >= MaxRetired /\ ~closed

\* mutant: closed is not looked at again after the wait.
NeverRefused == FALSE
Refused == closed

\* pending >= maxRetired && !closed: retireCond.Wait releases retireMu.
PublishWait(p) ==
    /\ ppc[p] = "lock" /\ ~muHeld /\ Blocked
    /\ ppc' = [ppc EXCEPT ![p] = "wait"]
    /\ UNCHANGED <<cur, pending, swaps, opened, mapped, retired, wg, version, pnew, pold,
                   readerVars, counterVars, drainVars, closeVars>>

\* publish returns ErrMapClosed.
PublishClosed(p) ==
    /\ ppc[p] = "lock" /\ ~muHeld /\ ~Blocked /\ Refused
    /\ ppc' = [ppc EXCEPT ![p] = "discard"]
    /\ UNCHANGED <<cur, pending, swaps, opened, mapped, retired, wg, version, pnew, pold,
                   readerVars, counterVars, drainVars, closeVars>>

\* The caller unmaps the mapping publish refused.
Discard(p) ==
    /\ ppc[p] = "discard"
    /\ mapped' = mapped \ {pnew[p]}
    /\ ppc' = [ppc EXCEPT ![p] = "idle"]
    /\ pnew' = [pnew EXCEPT ![p] = NoMap]
    /\ UNCHANGED <<cur, pending, swaps, opened, retired, wg, version, pold, readerVars,
                   counterVars, drainVars, closeVars>>

\* old := m.cur.Swap(mp) and its accounting, up to retireMu.Unlock.
PublishSwap(p) ==
    /\ ppc[p] = "lock" /\ ~muHeld /\ ~Blocked /\ ~Refused
    /\ cur' = pnew[p]
    /\ version' = [version EXCEPT ![pnew[p]] = Installs + 1]
    /\ pold' = [pold EXCEPT ![p] = cur]
    /\ pnew' = [pnew EXCEPT ![p] = NoMap]
    /\ IF cur = NoMap
       THEN /\ ppc' = [ppc EXCEPT ![p] = "idle"]
            /\ UNCHANGED <<pending, swaps>>
       ELSE /\ ppc' = [ppc EXCEPT ![p] = "mark"]
            /\ pending' = pending + 1
            /\ swaps' = swaps + 1
    /\ UNCHANGED <<opened, mapped, retired, wg, readerVars, counterVars, drainVars,
                   closeVars>>

\* old.retired.Store(true), after retireMu was released.
MarkRetired(p) ==
    /\ ppc[p] = "mark"
    /\ retired' = retired \cup {pold[p]}
    /\ ppc' = [ppc EXCEPT ![p] = "spawn"]
    /\ UNCHANGED <<cur, pending, swaps, opened, mapped, wg, version, pnew, pold,
                   readerVars, counterVars, drainVars, closeVars>>

\* m.retireWG.Add(1); go m.retire(old, grace)
SpawnRetire(p) ==
    /\ ppc[p] = "spawn"
    /\ wg' = wg + 1
    /\ dpc' = [dpc EXCEPT ![pold[p]] = "exits"]
    /\ ppc' = [ppc EXCEPT ![p] = "idle"]
    /\ pold' = [pold EXCEPT ![p] = NoMap]
    /\ UNCHANGED <<cur, pending, swaps, opened, mapped, retired, version, pnew,
                   di, exSum, en, readerVars, counterVars, closeVars>>

Publisher(p) == \/ OpenMapping(p) \/ PublishWait(p) \/ PublishClosed(p) \/ Discard(p)
                \/ PublishSwap(p) \/ MarkRetired(p) \/ SpawnRetire(p)

----------------------------------------------------------------------------
\* The drain of a mapping: waitDrained, run by its retire goroutine or by Close.

\* mutant: the loops stop one stripe early.
ScanShort == NumStripes - 1
\* How many stripes the two loops of inFlight visit.
ScanEnd == NumStripes

\* One iteration of inFlight's first loop: ex += exit.Load().
ScanExit(m) ==
    /\ dpc[m] = "exits"
    /\ exSum' = [exSum EXCEPT ![m][di[m] + 1] = exSum[m][di[m]] + exit[m][di[m]]]
    /\ IF di[m] + 1 < ScanEnd
       THEN /\ di' = [di EXCEPT ![m] = @ + 1]
            /\ UNCHANGED dpc
       ELSE /\ di' = [di EXCEPT ![m] = 0]
            /\ dpc' = [dpc EXCEPT ![m] = "enters"]
    /\ UNCHANGED <<cur, pending, swaps, opened, mapped, retired, wg, version, en,
                   readerVars, counterVars, pubVars, closeVars>>

\* What waitDrained's caller does next: Close unmaps at once, retire waits out the
\* grace period first.
AfterDrain(m) == IF HasGrace /\ m # closeOld THEN "grace" ELSE "unmap"

\* One iteration of the second loop, en += enter.Load(); the last one returns en != ex
\* and waitDrained sleeps and scans again, or is done.
ScanEnter(m) ==
    /\ dpc[m] = "enters"
    /\ LET sum == en[m] + enter[m][di[m]]
       IN IF di[m] + 1 < ScanEnd
          THEN /\ di' = [di EXCEPT ![m] = @ + 1]
               /\ en' = [en EXCEPT ![m] = sum]
               /\ UNCHANGED <<dpc, exSum>>
          ELSE /\ di' = [di EXCEPT ![m] = 0]
               /\ en' = [en EXCEPT ![m] = 0]
               /\ exSum' = [exSum EXCEPT ![m] = NoSums]
               /\ dpc' = [dpc EXCEPT ![m] = IF sum = exSum[m][ScanEnd]
                                            THEN AfterDrain(m) ELSE "exits"]
    /\ UNCHANGED <<cur, pending, swaps, opened, mapped, retired, wg, version,
                   readerVars, counterVars, pubVars, closeVars>>

\* The timer fires, or shutdown is closed.
GraceOver(m) ==
    /\ dpc[m] = "grace"
    /\ dpc' = [dpc EXCEPT ![m] = "unmap"]
    /\ UNCHANGED <<cur, pending, swaps, opened, mapped, retired, wg, version, di, exSum,
                   en, readerVars, counterVars, pubVars, closeVars>>

Unmap(m) ==
    /\ dpc[m] = "unmap"
    /\ mapped' = mapped \ {m}
    /\ dpc' = [dpc EXCEPT ![m] = IF m = closeOld THEN "end" ELSE "release"]
    /\ UNCHANGED <<cur, pending, swaps, opened, retired, wg, version, di, exSum, en,
                   readerVars, counterVars, pubVars, closeVars>>

\* mutant: no Broadcast.
NoneWoken == ppc
\* Broadcast moves every waiting publisher back to acquiring retireMu.
Woken == [p \in Publishers |-> IF ppc[p] = "wait" THEN "lock" ELSE ppc[p]]

\* pending-- and Broadcast under retireMu.
Release(m) ==
    /\ dpc[m] = "release" /\ ~muHeld
    /\ pending' = pending - 1
    /\ ppc' = Woken
    /\ dpc' = [dpc EXCEPT ![m] = "wgdone"]
    /\ UNCHANGED <<cur, swaps, opened, mapped, retired, wg, version, pnew, pold, di,
                   exSum, en, readerVars, counterVars, closeVars>>

\* The deferred retireWG.Done(); the last one readies the goroutine inside Wait.
WGDone(m) ==
    /\ dpc[m] = "wgdone"
    /\ wg' = wg - 1
    /\ cpc' = [c \in Closers |-> IF cpc[c] = "parked" /\ wg = 1 THEN "ready" ELSE cpc[c]]
    /\ dpc' = [dpc EXCEPT ![m] = "end"]
    /\ UNCHANGED <<cur, pending, swaps, opened, mapped, retired, version, di, exSum, en,
                   closed, muHeld, once, closeOld, readerVars, counterVars, pubVars>>

Drainer(m) == \/ ScanExit(m) \/ ScanEnter(m) \/ GraceOver(m) \/ Unmap(m)
              \/ Release(m) \/ WGDone(m)

----------------------------------------------------------------------------
\* Close, run once by closeOnce; later callers wait for the first one to return.

\* retireMu.Lock(); closed.Store(true); close(shutdown)
CloseMark(c) ==
    /\ cpc[c] = "idle" /\ once = "new" /\ ~muHeld
    /\ QuietClose => \A p \in Publishers : ppc[p] = "idle"
    /\ once' = "running"
    /\ closed' = TRUE
    /\ muHeld' = TRUE
    /\ cpc' = [cpc EXCEPT ![c] = "swap"]
    /\ UNCHANGED <<cur, pending, swaps, opened, mapped, retired, wg, version, closeOld,
                   readerVars, counterVars, pubVars, drainVars>>

CurAfterClose == NoMap

\* old := m.cur.Swap(nil); Broadcast; retireMu.Unlock()
CloseSwap(c) ==
    /\ cpc[c] = "swap"
    /\ closeOld' = cur
    /\ cur' = CurAfterClose
    /\ ppc' = Woken
    /\ muHeld' = FALSE
    /\ cpc' = [cpc EXCEPT ![c] = IF cur = NoMap THEN "wait" ELSE "mark"]
    /\ UNCHANGED <<closed, once, pending, swaps, opened, mapped, retired, wg, version,
                   pnew, pold, readerVars, counterVars, drainVars>>

\* old.retired.Store(true), then waitDrained starts.
CloseRetire(c) ==
    /\ cpc[c] = "mark"
    /\ retired' = retired \cup {closeOld}
    /\ dpc' = [dpc EXCEPT ![closeOld] = "exits"]
    /\ cpc' = [cpc EXCEPT ![c] = "drain"]
    /\ UNCHANGED <<cur, pending, swaps, opened, mapped, wg, version, closed, muHeld, once,
                   closeOld, di, exSum, en, readerVars, counterVars, pubVars>>

CloseUnmapped(c) ==
    /\ cpc[c] = "drain" /\ dpc[closeOld] = "end"
    /\ cpc' = [cpc EXCEPT ![c] = "wait"]
    /\ UNCHANGED <<cur, pending, swaps, opened, mapped, retired, wg, version, closed,
                   muHeld, once, closeOld, readerVars, counterVars, pubVars, drainVars>>

\* mutant: Close does not wait for the retire goroutines.
WGIgnored == TRUE
WGZero == wg = 0

\* retireWG.Wait(): a zero counter returns at once, otherwise the goroutine parks.
WGWait(c) ==
    /\ cpc[c] = "wait"
    /\ IF WGZero
       THEN cpc' = [cpc EXCEPT ![c] = "done"] /\ once' = "done"
       ELSE cpc' = [cpc EXCEPT ![c] = "parked"] /\ UNCHANGED once
    /\ UNCHANGED <<cur, pending, swaps, opened, mapped, retired, wg, version, closed,
                   muHeld, closeOld, readerVars, counterVars, pubVars, drainVars>>

\* The readied goroutine runs: a counter that is nonzero again is a reuse of the
\* WaitGroup before Wait returned, and panics.
WGReturn(c) ==
    /\ cpc[c] = "ready"
    /\ cpc' = [cpc EXCEPT ![c] = IF WGZero THEN "done" ELSE "panic"]
    /\ once' = "done"
    /\ UNCHANGED <<cur, pending, swaps, opened, mapped, retired, wg, version, closed,
                   muHeld, closeOld, readerVars, counterVars, pubVars, drainVars>>

\* closeOnce.Do returns to a caller that did not run it.
CloseAgain(c) ==
    /\ cpc[c] = "idle" /\ once = "done"
    /\ cpc' = [cpc EXCEPT ![c] = "done"]
    /\ UNCHANGED <<cur, pending, swaps, opened, mapped, retired, wg, version, closed,
                   muHeld, once, closeOld, readerVars, counterVars, pubVars, drainVars>>

Closer(c) == \/ CloseMark(c) \/ CloseSwap(c) \/ CloseRetire(c) \/ CloseUnmapped(c)
             \/ WGWait(c) \/ WGReturn(c) \/ CloseAgain(c)

----------------------------------------------------------------------------
\* The bounds are used up and every goroutine has returned: not a deadlock.
Finished ==
    /\ \A r \in Readers : rpc[r] = "idle"
    /\ \A p \in Publishers : ppc[p] = "idle"
    /\ reads = MaxReads /\ opened = Mappings
    /\ \A m \in Mappings : dpc[m] \in {"none", "end"}
    /\ \A c \in Closers : cpc[c] \in {"done", "panic"}
    /\ UNCHANGED vars

Next == \/ \E r \in Readers : Reader(r)
        \/ \E p \in Publishers : Publisher(p)
        \/ \E m \in Mappings : Drainer(m)
        \/ \E c \in Closers : Closer(c)
        \/ Finished

Spec == Init /\ [][Next]_vars

\* The Go scheduler runs every goroutine that can run, a callback of View or Scan
\* returns, and timers fire.  A caller need not call: Call, OpenMapping and CloseMark
\* are not fair.
Fairness ==
    /\ \A r \in Readers : WF_vars(Reader(r) /\ rpc[r] # "idle")
    /\ \A p \in Publishers : WF_vars(Publisher(p) /\ ppc[p] # "idle")
    /\ \A m \in Mappings : WF_vars(Drainer(m))
    /\ \A c \in Closers : WF_vars(Closer(c) /\ cpc[c] # "idle")

FairSpec == Spec /\ Fairness
----------------------------------------------------------------------------
\* Properties.

MapTypes ==
    /\ cur \in Mappings \cup {NoMap}
    /\ pending \in Int /\ swaps \in Nat /\ wg \in Int
    /\ opened \subseteq Mappings /\ mapped \subseteq Mappings /\ retired \subseteq Mappings
    /\ version \in [Mappings -> Nat]
CounterTypes ==
    /\ enter \in [Mappings -> [Stripes -> Nat]]
    /\ exit \in [Mappings -> [Stripes -> Nat]]
ReaderTypes ==
    /\ rpc \in [Readers -> {"idle", "load", "nomap", "enter", "check", "backoff", "pinned"}]
    /\ rmap \in [Readers -> Mappings \cup {NoMap}]
    /\ rstripe \in [Readers -> Stripes]
    /\ reads \in 0 .. MaxReads
    /\ rres \in [Readers -> {"none", "ok", "ErrNoMap", "ErrMapClosed"}]
    /\ rfloor \in [Readers -> Nat]
PublisherTypes ==
    /\ ppc \in [Publishers -> {"idle", "lock", "wait", "discard", "mark", "spawn"}]
    /\ pnew \in [Publishers -> Mappings \cup {NoMap}]
    /\ pold \in [Publishers -> Mappings \cup {NoMap}]
DrainTypes ==
    /\ dpc \in [Mappings -> {"none", "exits", "enters", "grace", "unmap", "release",
                             "wgdone", "end"}]
    /\ di \in [Mappings -> Stripes]
    /\ exSum \in [Mappings -> [0 .. NumStripes -> Nat]]
    /\ en \in [Mappings -> Nat]
CloserTypes ==
    /\ closed \in BOOLEAN /\ muHeld \in BOOLEAN
    /\ once \in {"new", "running", "done"}
    /\ cpc \in [Closers -> {"idle", "swap", "mark", "drain", "wait", "parked", "ready",
                            "done", "panic"}]
    /\ closeOld \in Mappings \cup {NoMap}

\* Types; in particular no enter counter is ever decremented below zero.
TypeOK == /\ MapTypes /\ CounterTypes /\ ReaderTypes /\ PublisherTypes /\ DrainTypes
          /\ CloserTypes

\* A lookup, or a callback of View or Scan, never touches a mapping that was unmapped
\* under it, whatever swaps, drains and Close do meanwhile (Map.enter, waitDrained).
NoUseAfterUnmap == \A r \in Readers : rpc[r] = "pinned" => rmap[r] \in mapped

\* At most maxRetired replaced mappings occupy memory beside the current one
\* ("Reload blocks while two retired mappings are still pending").
MappedBound == Cardinality({m \in mapped : Installed(m)}) <= MaxRetired + 1

\* When Close returns, every mapping that was ever installed is unmapped, those in their
\* grace period included (the doc comment of Close).
CloseUnmapsAll == once = "done" => \A m \in mapped : ~Installed(m)

\* Once Close has emptied the Map, a publish that was waiting for a slot or for retireMu
\* never installs a mapping (publish's second look at closed).
ClosedForGood == [][closed /\ cur = NoMap => cur' = NoMap]_vars

\* A replaced mapping is eventually unmapped: drained counters settle although readers
\* with a stale pointer keep entering and backing off.
RetiredUnmapped == \A m \in Mappings : m \in retired ~> m \notin mapped

\* A publish, even one that found maxRetired mappings pending, eventually returns.
PublishReturns == \A p \in Publishers : ppc[p] # "idle" ~> ppc[p] = "idle"

\* A read eventually returns: the loop of enter does not chase swaps for ever.
ReadReturns == \A r \in Readers : rpc[r] # "idle" ~> rpc[r] = "idle"

\* Close eventually returns.
CloseReturns == \A c \in Closers : cpc[c] # "idle" ~> cpc[c] \in {"done", "panic"}

\* No caller of the Map is left waiting for another: reads, publishes and Close return.
CallsReturn == ReadReturns /\ PublishReturns /\ CloseReturns

\* The Map its callers see.
ReaderOp == [r \in Readers |-> CASE rpc[r] = "idle" -> "idle"
                                 [] rpc[r] = "pinned" -> "holding"
                                 [] OTHER -> "calling"]
Abstract == INSTANCE MapSpec WITH
    latest  <- Installs,
    live    <- {version[m] : m \in {x \in mapped : Installed(x)}},
    shut    <- closed,
    emptied <- closed /\ cur = NoMap,
    op      <- ReaderOp,
    since   <- rfloor,
    held    <- [r \in Readers |-> IF rpc[r] = "pinned" THEN version[rmap[r]] ELSE 0],
    res     <- rres

\* Every behaviour of the protocol is one of MapSpec: reads never go back to a version
\* older than their call, hold what they read, and fail only when they may.
ImplementsMapSpec == Abstract!Spec
=============================================================================
