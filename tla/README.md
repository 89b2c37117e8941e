# attos-go in TLA+

Models, model-checking runs and machine-checked proofs for `attos-go`, the Go SDK that
serves a read-only key-value file (a *blob*) from a memory mapping, replaces it while
lookups run, keeps it up to date from a control plane, and builds such files.
`PROJECT.json` lists the components, the runs, the lines of code each definition stands
for, the hazards and the findings.

    tlc -workers 2 -config HotSwap.cfg MCHotSwap     # one run
    tlapm HotSwapProofs.tla                          # the proofs of one module

## 1. Inventory

| component (source) | state | operations | correct when |
|---|---|---|---|
| **Map: hot swap and reclamation** (`reader.go`) | `cur`, per mapping a `retired` flag and 32 stripes of `enter`/`exit` counters, `pending`, `retireMu`, `retireCond`, `retireWG`, `closed` | `Get`, `GetString`, `GetCopy`, `View`, `Scan`, `Len`, `GetMany`; `Reload`/`publish`; the `retire` goroutine; `Close` | no mapping is unmapped under a reader; at most `maxRetired` replaced mappings wait; every replaced one is unmapped; `Close` leaves none and nothing comes back afterwards; a read never returns an older version than the one current when it was called |
| **Map: lookup statistics** (`reader.go`, `batch.go`) | `miss`, `nonLookups`, `batchExtra` per mapping, `retiredLookups`, `retiredMisses` | the reads above, `retire`, `Close`, `Lookups`, `Misses` | totals survive swaps; each lookup is reported |
| **Map: latency histogram** (`stats.go`) | `counts`, `total` | `record`, `drain`, `LatencyBuckets` | each sample is drained once; percentiles bound their share from above; exporters count no sample twice |
| **Opening a blob** (`attos.go`, `internal/mmap`) | none | `openMapping`, `parseHeader`, `parseHeaderV2` | no accepted file makes a load leave the mapping; incomplete files are rejected, complete ones accepted |
| **Record lookup** (`reader.go`, `reader_compressed.go`, `internal/pthash`, `internal/lz4`, `internal/hash`) | a pool of scratch buffers | `entry`, `entryV2`, `recordCompressed`, `scanV2`, `Slot`, `Decompress` | finds exactly the compiled rows |
| **Synchronizer** (`sync.go`, `signature.go`) | cache directory (live blob, signature, ETag), `etag`, `pendingSig`, `syncMu`, context | `NewSynchronizer`, `loadCached`, `poll`, `Sync`, `installFrom`, `persistETag`, `Close` | the live file is never incomplete; nothing unsigned is served; versions do not go back; after any failure the process catches up |
| **Poll back-off** (`sync.go`) | `failures`, the wait in progress | `nextDelay`, `transientBackoff`, `parseRetryAfter`, `sleepCtx` | waits fit the failures and the answers; polling never stops; `Close` is not held up |
| **Telemetry emitter** (`telemetry.go`) | queue of 64, `dropped`, `sent`, `attempts`, `pauseUntil`, window totals | `build`, `enqueue`, `send`, `deliver`, `FlushTelemetry` | losses are announced; retries and pauses are honoured; it stops |
| **Prometheus exposition** (`metrics.go`) | none | `WritePrometheus` | reads the counters above |
| **Builder: rows** (`builder.go`, `spill.go`) | arena or spill file, row index, cached hashes, `checked` | `Add`, `BuildFrom*`, `Compile*`, `Reset` | a failed call changes nothing and names the right error; what is compiled is the accepted rows |
| **Builder: input parsers** (`builder.go`) | `rowSink` | `parseCSV`, `parseNDJSON`, `limitOrDuplicate` | rows are what the source says, in both formats; keys tell rows apart; the earliest violation is reported |
| **Builder: placement** (`builder.go`) | displacements, slots | `tableSizes`, `place`, `prepare`, `write` | every key is found in its slot, no other key is |
| **Builder: file output** (`builder.go`, `builder_v2.go`) | the file at `outPath` | `CompileFile`, `CompileV1`, `Compile`, `CompileWithOptions` | the path never names an incomplete file; a mapped file never changes |
| **Version 2 format** (`builder_v2.go`, `internal/pthash`, `internal/lz4`) | pilots, free slots | `BuildWith`, `compressBlocks`, `writeOffsets`, `Compress` | the hash is minimal and perfect; blocks decode to what was written |
| **Typed values** (`typed.go`) | none | `Schema.Encode`, the accessors | a field is read as it was encoded, or not at all |
| **Size estimator** (`cmd/attos-size`) | the sample | `sampleFile`, `sampleRedis`, `buildVariants` | rows are sampled evenly and once |
| **Node ID, options, errors, examples** | none | | |

How they interact: `Synchronizer.Sync` calls `openMapping` and `Map.publish`; `publish`
may block until `retire` has unmapped an older mapping, and `Close` wakes it.
`Synchronizer.Close` cancels the context, waits for the poll loop and the two telemetry
goroutines, and then closes the Map; a `Sync` called by the application is not waited
for. The telemetry collector reads the Map's totals and drains its histogram. `View` and
`Scan` run callbacks while a mapping is pinned. A Builder is used by one goroutine, but
several may compile to one path that Maps have open.

What is hard here: lock-free reclamation with counters that are summed one stripe at a
time; a condition variable with several waiters against `Close`; totals made of several
counters read one after the other; a histogram that moves between two arrays while it is
read; file, signature and ETag written in an order that a crash or a power loss cuts
anywhere; a sender with retries, pauses and cancellation; rollback of a half-parsed input
over an arena, a spill file and cached hashes; scratch buffers shared by readers; index
arithmetic on words that wrap and loads wider than their element.

## 2. Modules

| module | models | composed with |
|---|---|---|
| `HotSwap` | the swap protocol, one atomic access or one critical section per step | implements `MapSpec` |
| `MapSpec` | what a Map promises its callers | |
| `LookupCounters` | the totals and the telemetry window | takes draining from `HotSwap` as one step |
| `Histogram` | the latency histogram, its drains and its exporters | with `LookupCounters` in `MapStatistics` |
| `MapStatistics` | both, in behaviours of their own | |
| `Telemetry` | the emitter | takes a report's content from `LookupCounters` as given |
| `SyncInstall` | the Synchronizer, its cache directory, crashes | takes `publish` and `Close` from `HotSwap` as one step each |
| `PollLoop` | when the Synchronizer asks: start, waits, `Close` | takes a sync from `SyncInstall` as its outcome |
| `BuilderRows` | the row store of a Builder | implements `RowList` |
| `RowList` | what a Builder promises: a list of rows | |
| `InputRows` | the parsers, from a record or object on | produces the sources of `BuilderRows` |
| `Placement` | the placement, writing and lookups of version 1 | takes distinct rows from `BuilderRows` |
| `SizeSample` | the reservoir of `attos-size` | |
| `PTHash` | the minimal perfect hash of version 2 | |
| `RecordsV2` | records, blocks, offsets and lookups of version 2 | its table is `PTHash`'s |
| `FormatV2` | a version 2 file from its table to its lookups | `PTHash` and `RecordsV2` in sequence |
| `Lz4` | `Compress` and `Decompress` | stands for a block's compressed form in `RecordsV2` |
| `FileSizes` | section sizes and header validation of both versions | |
| `TypedValues` | `Schema.Encode` and the accessors | |
| `CompileFile` | how a compiled file reaches its path | takes the rows from `BuilderRows` as prepared |
| `Totals` | sums over a finite set, as sizes of sets | used by `Telemetry`, `Histogram`, `BuilderRows` and the proofs |
| `*Proofs` | the proofs of a module | extends it; `TelemetryProofs` is about `Telemetry` and `MapStatistics`, `FileProofs` about `Placement`, `FileSizes`, `TypedValues`, `InputRows`, `CompileFile` and `SizeSample`; `PTHashProofs` about `PTHash`, `FormatV2` with `RecordsV2`, and `Lz4`; `TotalsProofs` has the lemmas on sums, powers of two, quotients, recursion and parts of sequences |
| `MC*` | values of constants and symmetry for the runs | |

Four modules run several models at once: `MapStatistics`, `MCRowsToFile`, `MCFormatV2` and
`MCOpening` choose a part in the initial state, and a behaviour is about that part alone, because the
parts share no state. (`FormatV2` itself is a real composition: its parts hand the table over.)

### HotSwap

A reader goes `load` (`cur.Load`), `enter` (`enter.Add(1)`), `check` (`retired.Load`),
then `pinned` or `backoff`; `Exit` is `exit.Add(1)`, and everything a method does with
the data lies between the two. `Get` and `GetString` are the same steps. A publisher
holds a mapping of its own from `OpenMapping` until `PublishSwap` installs it or
`Discard` unmaps it; `MarkRetired` and `SpawnRetire` come after `retireMu` is released, as
in `publish`. `ScanExit` and `ScanEnter` are single iterations of the two loops of
`inFlight`: the model keeps the partial sums, so a reader may move between any two loads.
`retireMu` is held across steps only by `Close`, which stores `closed` and swaps `cur` in
two accesses visible to lock-free readers. `retireWG.Wait` parks, is made ready when the
counter reaches zero, and finds out when it runs whether the counter is zero still; if not
the Go runtime panics.

`version` and `rfloor` are history: the order of installation, and the oldest version a
read that starts now may return. `MapSpec` is stated over them: `latest`, the versions
`live` in memory, and for each reader what it holds.

### LookupCounters and Histogram

The stripes of a mapping are one counter, and a mapping is drained when no read holds it.
`Lookups` is five steps, one per load. Counters are `Width` bits wide and wrap, as
`nonLookups` is raised before the `exit` it compensates. `served` and `servedMisses`
are the true totals.

`Histogram` has the code's bucket arithmetic with its widths as constants. A drain is a step
per bucket for the `Swap` and another for the `Add` to `total`, an exporter a step per
load, so drains, recordings and a scrape interleave between any two accesses. `held` and
`taken` keep the true latencies behind the counts, which the percentiles are compared with.

### Telemetry

A report is the number of earlier losses it announces (`droppedCarried`). `Build` is the
critical section of `buildMu` with the `Swap(0)` of the pending losses, `Enqueue` the
non-blocking send on the channel. The sender's states are its blocking points: `idle`,
`pause`, `wait` (a request), `delay`, `off`. `select` may choose the cancelled context while
reports are queued.

### SyncInstall

A blob is its number; its ETag is the same number, and a signature is the number of the
blob it was made for. The cache directory is what the running system sees (`disk`), and
what is on the medium (`kept`, `liveSynced`): `Rename` changes the first, `SyncDir` copies it
to the second, and `PowerLoss` may fall back to it file by file, with a live file that was
never synced torn. The steps of `installFrom` are separate, so a crash, `Close` or a
second syncer comes between any two. `Failed` is the whole tail of an error: what
`NewSynchronizer` does with it while starting is a retry, the cached blob, or giving up.
The S3 variant differs in the request only.

### PollLoop

A sync is its outcome: success, a quota status with or without a `Retry-After` header, another
client status, a server status or a network error. A wait is the ticks left of it; its jitter is a
choice between the bounds `transientBackoff` draws from (it is applied after the cap, so a
wait may exceed `MaxTransientBackoff` by a fifth, which `WaitBounded` allows). A duration is a signed
word of `Width` bits, so the product of `parseRetryAfter` may wrap. `failures` stops counting
at `FailuresCap`, above which the exponent does not change.

### BuilderRows and RowList

Every call is one step, as a Builder must not be used concurrently; the step's body
follows the code through `mark`, `parse`, `firstDuplicate` and `rollback`. Rows live in arena chunks or in
a spill file with its buffered writer and its mapping; `RowKey` and `RowValue` read the bytes
back from there, so the refinement to `RowList` (the list of rows that the index and the
bytes yield) checks every offset. A source is the rows its parser produces and whether the
input ends well: `InputRows` is about that. `pthash.Build` and `place` are represented by
when they fail; `PTHash` and `Placement` are about them.

### InputRows

One step reads one line: a header, a record, an object, a blank line, or one the standard
library rejects. A name is a number in the order of the names, a cell a short sequence of
characters with NUL among them. `recs` keeps what was read, and the properties compare the stored rows with
`Meaning`, which knows nothing of headers, positions or formats.

### Placement

One step places one bucket, at the first displacement that fits, or fails; then one step
writes one slot word with its record; `Entry` and `Scanned` read a complete file as the readers do. Hashes are
pairs of a bucket half and a slot half, and XOR is a constant that TLC gets as arithmetic on three bits.
`Total` is the sum of record lengths as a constant function, with its recurrence assumed.

### PTHash, RecordsV2 and FormatV2

`PTHash` places one bucket per step, at the first pilot that fits, then remaps the positions at or
above n one by one, then packs the pilots in two halves of their own widths; `Slot` reads the packed
form. The hash of a key and a pilot to a position is any function. `RecordsV2` makes a byte a cell
that says of which record it is, so that a wrong slice, a wrong offset or a buffer overwritten meanwhile shows.
Which blocks LZ4 makes smaller is a choice; a lookup takes a buffer of the pool,
decodes into it, and returns it, as separate steps of concurrent readers. In `FormatV2`, the table `PTHash`
builds becomes the slots of `RecordsV2`, with two keys of one hash making the build fail, and a key that is
no row sharing the slot, the hash or the fingerprint of one.

### Lz4

The constants of the format (minimum match, tail limits, length bytes, chunk width) are
scaled down so that a dozen bytes reach every branch. `Compress` is a step per
byte skipped or match emitted, `Decompress` a step per token with its literals, per match, and per doubling of a pattern.
The buffer holds garbage at first, a wide copy writes past its element, and an offset too large for two
bytes would lose its high part, as in the code. A block `Compress` wrote is told from any other by `written`.

### FileSizes and TypedValues

`FileSizes` opens prefixes of files of both versions, and version 1 files whose counts read as
anything, with and without verifying the checksum; `parseHeader` computes modulo `Word`.
`TypedValues` encodes field by field with the errors of each conversion, cuts the value
at any length, and reads every field back.

### CompileFile

A file is an inode; `out` is the one the path names. `CompileFile` (format 1) creates a
temporary file, writes, syncs and renames; `Compile` (format 2) truncates `outPath` and
writes in place. A write is one step that makes the file whole, and any step may fail.

## 3. Runs

| run | question | bounds | result |
|---|---|---|---|
| `hot_swap` | is a pinned mapping mapped, how many mappings stay, does `Close` unmap all, do reads return allowed versions | 2 readers, 2 reads, 1 publisher, 3 mappings, 2 stripes, `maxRetired` 1, a grace period, 2 closers | holds, 1.8 million states |
| `hot_swap_live` | do reads, publishes, `Close` and retirements end, does `Close` stay final | 1 reader, 2 publishers, 3 mappings, 1 closer, `Close` at any time | holds, 148 000 states |
| `close_race` | does `Close` unmap everything when a publish is running | 1 reader, 1 publisher | **violated**: section 4 |
| `map_statistics` | are totals exact at rest, is any lookup unreported; are samples drained once, what may a scrape see, are percentiles right | counters: 2 readers, 3 operations, 2 mappings, 2 windows, 4 bits. Histogram: 2 drainers, 3 samples, 3 drains, 1 scrape, 4 buckets; and 6 samples of 6 latencies, 12 buckets, 1 drain | holds, 4.6 million states |
| `telemetry` | losses, retries, pauses, end of the sender | 2 builders, 4 reports, queue of 2, 1 retry, 4 ticks | holds, 130 000 states |
| `sync_install` | integrity, signatures, versions, ETags, catching up | 3 versions of which 1 and 3 are signed, 3 starts, 2 faults, a manual syncer | holds, 740 000 states |
| `poll_loop` | do waits fit the failures and the answers, does polling go on, do start and `Close` end | 3 attempts, 3 intervals, 4 exponents, `Retry-After` of 0, 1, 5 and 20 seconds and 2 dates, words of 8 bits | holds, 37 000 states |
| `builder_rows` | does the Builder behave as a list of rows | rows from 5 keys of which two pairs collide in part or in all of the hash, 3 rows, sources of up to 2 rows, chunks of 5 bytes, buffer of 4 | holds, 94 000 states |
| `compile_file` | is the path intact, are mapped files unchanged | 2 compilers, 2 readers, 4 files, 2 faults | holds, 62 000 states |
| `rows_to_file` | are rows what the source says, is the earliest error reported; are lookups and scans exact; is the sample even | sources of 3 lines, 8 headers, keys of 4 characters; up to 4 keys with hashes of 2 x 5 values, on tables of the sizes the code computes; 5 rows, samples of up to 3 | holds, 736 000 states |
| `format_v2` | is the hash minimal and perfect, are lookups and scans exact; does the codec return its input | 3 rows on 4 positions, 3 buckets, 4 pilots, all shifts of positions, 1 key that is no row, 2 readers, 2 buffers, 2 lookups; inputs of 13 bits, blocks of up to 5 arbitrary bytes | holds, 1.1 million states |
| `opening` | does any load leave the mapping, which files are accepted; are fields read as encoded | words of 7 bits, 16 files of version 1 with 15 counts in each place, 32 of version 2, every prefix; schemas of up to 2 fields and some of 3 of 9 types, bytes of 2 bits, every prefix | holds, 481 000 states |

Why the bounds are enough. Two stripes are the least with which a scan can miss a reader
that moves to the other side of it, and three mappings the least with which a mapping is
retired while an older one still is; `maxRetired` 1 instead of 2 makes publishers wait with
three mappings. Two reads let a reader come back after a back-off. Counters have 4
bits, so that the difference of exits and non-lookups wraps below zero when it is read while
a `Len` or `Scan` is in progress; one swap and `Close` retire every mapping. Two drainers and three drains let one
drain start while another holds a bucket, and end before it; latencies are below, in and above the exact
part of the buckets, and one is negative, as a clock that steps back makes it. A queue of two is full with one report in
hand and one being built. In `sync_install` version 2 is unsigned, so an installation must be refused
between two that are accepted; two faults allow a fault during the recovery from another, and
three starts a restart after each. In `poll_loop` a quota answer may ask for less and for more than the
limits, and the back-off reaches its cap. `Seconds` stays below what overflows a
duration, because `WaitsHonoured` does not hold above (section 4). Rows of at most four bytes fill a chunk of five and
overflow the buffer, so arena changes, buffered tails and stale mappings all occur. Four keys and five
slot halves make buckets of two and three members, members with equal halves, which cannot be placed, and files that
fail by size. Three rows on four positions remap one; blocks have one and two records, the last one is
partial, and blobs need both widths of offsets (`OffsetLimit` is 8).
Thirteen bytes hold overlapping matches, and lengths that take several bytes. Words of seven bits make every product
and sum of `parseHeader` wrap for some counts.

`hot_swap` lets `Close` begin only while no publish is running (`QuietClose`), because
`CloseUnmapsAll` fails otherwise, which is the finding. `hot_swap_live` and the proofs do not
make this assumption. Reads and publishes may begin at any time during and after `Close`.
`TypeOK` of `HotSwap`, `SyncInstall`, `CompileFile` (`OutputTypeOK`), `FileSizes` (`SizesTypeOK`), `PTHash` and `Placement` is proved and not run;
in the other modules it is a part of the named invariant that the run checks.

`Telemetry.cfg`, `SyncInstall.cfg`, `PollLoop.cfg`, `RowsToFile.cfg`, `FormatV2.cfg` and `Opening.cfg` switch the deadlock
check off: a stopped sender or loop, a process that was started as often as the bound allows, a file that is
built or refused, and a value that is read really are at their end. In the other models the end of the bounded work, where it
has one, is a step (`Finished`), so every other stop would be reported. (`MapStatistics` lets its histogram parts stop; a drain or a scrape
has no waits.)

### Fairness

Weak fairness of each goroutine that has something to do: the Go scheduler is preemptive
and runs every runnable goroutine. It stands for these facts too: a callback of `View` or `Scan`
returns (the doc of `View` asks for it), timers fire, and requests end, because both HTTP
clients have a timeout. No fairness is assumed of callers (a read, a publish, a `Close`, a
manual `Sync` need not begin), of the control plane, or of faults. Neither strong fairness nor an order
among the waiters of `retireCond` or `syncMu` is assumed; that publishes return (in `CallsReturn`) holds since the
mappings that can be opened are bounded, so with unboundedly many publishers a single one
could be overtaken for ever. Likewise that reads return relies on a bounded number of swaps
during one read.

## 4. Findings

**`Close` does not wait for a publish in progress** (`close_race`). `publish` releases
`retireMu` before it sets `retired` and calls `retireWG.Add(1)` (`reader.go:529-533`). A `Close` in between
returns with the replaced mapping still mapped, against its doc (`reader.go:568-570`). Seen
from `WaitGroup`, the `Add` can also come while `Wait` is returning, which panics (state
`panic` of `WGReturn`; reachable with two retired mappings).

Met while modelling, and described here without a run of its own. The models follow the code in each of them;
the properties that hold are stated so that they do not claim the contrary.

- `Lookups` goes down during a swap, by the lookups of the replaced mapping, until it has drained and its grace
  period is over. The doc calls it the total so far (`reader.go:475`), and `metrics.go:47` exports it as a Prometheus counter.
- `LatencyBuckets` ("never reset", `stats.go:105`) misses the samples a drain has taken from `counts` and not yet
  added to `total` (`stats.go:59-61`), so exported counts go down for a moment. It never counts one twice (`ScrapeSound`).
- `ETag` is not the loaded blob's after a crash between the rename of the blob and the saving of its ETag
  (`sync.go:503`; doc at `sync.go:573`). The consequence is one unnecessary download; `TagNotNewer` shows that the
  dangerous direction does not occur.
- An ignored error of the directory sync followed by a power loss leaves a saved ETag that is newer than the live file
  (`sync.go:514`). `SyncInstall.cfg` and the theorem exclude it by giving no behaviour both kinds of fault (`FaultsApart`).
- `parseRetryAfter` multiplies seconds by `time.Second` without a bound (`sync.go:326`): from 9223372037 seconds on the product
  overflows, and the wait is whatever is left, or `QuotaPause`. `WaitBounded` holds all the same; with such a value in
  `Seconds`, `WaitsHonoured` does not.
- `BuildFrom` marks rows as checked that it never compared, namely rows appended with `Add` before (`builder.go:173`;
  comment at `builder.go:98`). No file comes of them (`ImplementsRowList`): the placement refuses them, with a less telling error.
- Version 2 files are written in place (`builder_v2.go:147`), against the comment at `builder.go:963-965`: an error leaves an
  incomplete file, and mapped readers lose their pages.
- The conversions of `typed.go:252-296` refuse values of other kinds that would fit, such as an `int32` for an unsigned field; the doc of
  `Encode` (`typed.go:187`) says any integer or float kind is accepted.
- `sampleRedis` may sample a key twice, as `SCAN` may return it twice (`cmd/attos-size/redis.go:163`), and the files it then
  builds fail for a duplicate. It also scales the total by the share of strings seen (`redis.go:173`): of four keys, with two
  strings sampled and one other key skipped, the total becomes `int64(4*2/3)` = 2, and the report is called exact although
  the third string was never read.
- `attos_telemetry_reports_dropped_total` is declared a counter and reset by every report built (`metrics.go:82`,
  `telemetry.go:169`); a 304 answer does not apply `X-Attos-Config` (`sync.go:384`).

## 5. Proofs

Eighteen modules are proved about for every value of the constants, from the assumptions the modules name; TLC evaluates
these in the runs. A hypothesis that only one theorem needs is part of its statement.

| theorem | property | of |
|---|---|---|
| `TypeCorrect` | `TypeOK` | `HotSwap`, `SyncInstall`, `Placement` and `PTHash` |
| `OutputTypeCorrect`, `SizesTypeCorrect` | `OutputTypeOK`, `SizesTypeOK` | `CompileFile` and `FileSizes` |
| `NeverUnmappedUnderReader`, `FewMapped`, `StaysClosed` | `NoUseAfterUnmap`, `MappedBound`, `ClosedForGood` | `HotSwap` |
| `CloseLeavesNone` | `CloseUnmapsAll` | `HotSwap`, with no publish running when `Close` begins |
| `Refinement` | `ImplementsMapSpec` | `HotSwap` and `MapSpec` |
| `BooksBalance`, `PausesKept` | `Accounted`, `PauseHonoured` | `Telemetry` |
| `TotalsExact` | `CountersSound` | `LookupCounters`, for a finite set of readers |
| `AllReported` | `NothingUnreported` | `LookupCounters`, for fewer lookups than a counter counts to |
| `SamplesCountedOnce`, `ScrapesSound` | `CountsExact`, `ScrapeSound` | `Histogram` in `MapStatistics`, for a finite set of drains |
| `PercentilesSound` | `QuantilesSound` | `Histogram` in `MapStatistics`, for any widths and latencies `ManyAssumption` allows |
| `StoreIsSound` | `StoreSound` | `BuilderRows` |
| `RefinesRowList` | `ImplementsRowList` | `BuilderRows` and `RowList` |
| `LoopIsSound`, `WaitsFollow` | `LoopSound`, `WaitsHonoured` | `PollLoop`, the second for seconds that fit a duration |
| `LiveStaysIntact`, `OnlySignedServed`, `CacheIsTheServedBlob` | `LiveIntact`, `ServedSigned`, `CacheIsServed` | `SyncInstall` |
| `NeverStepsBack`, `TagsAreNotNewer` | `NoStepBack`, `TagNotNewer` | `SyncInstall`, for a server that does not go back |
| `OutStaysIntact`, `MappingStaysIntact` | `OutIntact`, `MappingIntact` | `CompileFile` |
| `LookupsAreExact`, `ScansAreExact` | `LookupsExact`, `ScanExact` | `Placement` |
| `BuildsMinimalPerfect`, `RemapHasSpare` | `MinimalPerfect`, `SpareSuffices` | `PTHash` |
| `FilesAreExact` | `FileExact` | `FormatV2`, with `PTHash` and `RecordsV2` |
| `CodecIsExact` | `RoundTrip` | `Lz4`, for any inputs, damaged blocks, hash and sizes the format allows |
| `LoadsAreInside`, `AcceptanceIsExact` | `LoadsInside`, `AcceptsExactly` | `FileSizes` |
| `ValuesAreFaithful` | `ValuesFaithful` | `TypedValues`, for any base, schemas and arguments |
| `RowsAreFaithful`, `EarliestIsReported` | `RowsSound`, `EarliestReported` | `InputRows`, for any headers, records, objects and limits |
| `SampleIsFair` | `SampleFair` | `SizeSample`, for any limit and any number of rows |

### HotSwap

For any sets of readers, publishers and closers, any finite set of mappings, any number of stripes and with `Close` at any
time. Assumptions: at least one stripe, `maxRetired` positive, `NoMap` is no mapping, readers and mappings are finite sets.
`NoUseAfterUnmap` is not inductive: that a scan found the sums equal says nothing about a reader
unless one knows what the sums mean. `IInv` adds, in named parts,

- `ReaderRefs`, `NewRefs`, `OldRefs`, `CloserRefs`: who refers to a mapping. Every mapping swapped out has one owner
  until its drain starts, and `closeOnce` lets one closer in; hence no drain starts twice.
- `LifeInv`: the stages of a mapping: opened, installed, retired, drained, unmapped.
- `CountInv`: for every stripe, `enter` = `exit` + the readers inside (checking, pinned or backing off).
- `ScanInv`: the sum of the exit loop is at most what `exit` holds now, stripe by stripe, since exits only grow; in the
  enter loop the sum so far is at least the matching exit sum, and if they are equal no reader is pinned in the
  stripes passed. A reader pinned later would have to enter after `retired` was set, and
  `check` sends it away. At the end of the loop equal sums mean that nobody is pinned.

The proof that a step preserves `IInv` has one lemma per part and one step per action that can disturb it.

`MappedBound` is about a number, `pending`, that several goroutines raise and lower. `SlotInv` says what it is: the
size of the set `Slots` of the replaced mappings whose slot has not been released, at most `maxRetired`; likewise `retireWG` is the
size of `Retiring`. A mapping that is mapped and installed is the current one, or the one `Close` took, or
has a slot, which bounds them. `CloseUnmapsAll` needs three more parts: `ClosingInv` (`Close` begins once, takes the current mapping
for itself and has drained it before it waits for the others), `OwnedInv` (a mapping swapped out whose drain has not
started is in the hands of a publisher or of `Close`), and `QuietInv` (after a `Close` that began with no publish running no
publisher has a replaced mapping, and `retireWG` stays zero once it was found zero). The last rests on the hypothesis
`QuietClose`, without which `close_race` has a counterexample.

The refinement maps the history of installations to `MapSpec`. `VersionInv` orders it: versions are given in the order of
installation, the current mapping has the last, and a reader that has loaded a mapping holds one no older than
`rfloor`, unless it is sent away by `check`. A read's call, `Check` that passes, `NoMapErr` and `Exit` are the abstract `Call`, `Hold`,
`Fail` and `Return`; `PublishSwap` is `Install`, `Unmap` of an installed mapping `Reclaim`, `CloseMark` and `CloseSwap`
are `Shut` and `Empty`. Every other step, among them all loads of the two scans and all of `retireMu`, stutters. That `Reclaim` takes
nothing that is held is `NoUseAfterUnmap`.

### SyncInstall

For any number of versions, starts and faults, and any mix of fault kinds. `IInv` consists of

- `MutexInv`: only the holder of `syncMu` is inside a sync, before the start is over the caller has no Synchronizer to call, and a Map that is closed or not there serves nothing;
- `FileInv`: the temporary file is synced before it is opened and a whole blob afterwards; what is live, now or
  after a power loss, is whole and synced;
- `SignInv`: saved and received signatures are of signed blobs, and so is what was verified against them;
- `CacheInv`: the live file is the served blob except between `Rename` and `Publish` of the one sync in progress.

`NoStepBack` needs `OrderInv` in addition: nothing is newer than what the server has, and a download is no older than
what it replaces, as downloads are serialised. `TagNotNewer` needs `TagInv`: saved tags are no newer than the file they lie
beside, on the medium also where the power may fail, because the directory is synced before the tag is written.
`FaultsApart` is necessary: without it `TagNotNewer` is false (section 4).

### CompileFile

For any numbers of compilers, readers, files and faults; the formats are 1 and 2 and there is at least one file. Neither property is
inductive: a rename could publish a part, and a write could change a file that is named or mapped.
`PrivateInv` says that until the rename no name, no reader and no other compiler refers to a temporary
file, so writing it disturbs nobody; `WrittenInv` that it is whole and synced by the time it is renamed;
`NamedInv` that whatever the path may name, also after a power loss, and whatever is mapped, is whole and
synced. `Modes` says that `Compile`, which writes in place, and `CompileFile` are not mixed in a behaviour;
nothing is claimed, or true, of format 2.

### Placement

For any keys, hashes and XOR. `PlacedInv`: the slots hold the placed rows, each in the slot its bucket's displacement gives it;
`PhaseInv`: writing begins when every row is placed; `WordsInv`: the words written so far name the records of their
slots' rows, by offsets that are sums of lengths. `LookupsExact` follows for rows by their slot, and for other
keys because the record's key is compared. `TablesAssumption` states what the proof needs of `tableSizes` (as many slots as
rows, and three), and TLC evaluates it: that a prime exists between n and 2n is not proved.

### PTHash and FormatV2

For any finite set of rows, any hashes, positions and table sizes. `PlacedInv`: the bitmap holds the positions of
the placed rows, all different; `FreeInv`: what is handed out was spare and goes to one position; `SpareSuffices`, an invariant
itself, counts: the positions still to be remapped are as many as the spare slots left, because the taken positions
are as many as the rows, that is as the slots. `PackingExact` shows that a pilot is read back from its half.

`FileExact` begins where `MinimalPerfect` ends. `FormsAssumption` says that records are not empty and shifts are
naturals. `FillSlotsRows` counts: rows at different slots, as many as slots, leave no
slot without a row, so that `slotEntry` inverts `Slot` on the keys of rows (`RowsOK`). `FormatInv` carries that to the written file, whose readers
keep `BuffersApart` (a buffer belongs to one lookup from `Get` to `Put`, and is not in the pool) and `Decoded` (between decoding
and copying it holds the block of its lookup's slot). What a file holds is the concatenation of its pieces; `ConcatPieces` and `NthIs` say where a
piece of a concatenation is, and that skipping record by record reaches it, by way of `Recursion`: a function defined by recursion
satisfies its equation up to any number, or a least counterexample would. `PieceIsRead` then holds for either
width of offsets, because an offset is not larger than the blob the width is chosen from; `SlotInBlock` divides a slot
into its block and its place there; and `ScanIsExact` adds the blocks up again, the last one short.

### Lz4

For any inputs, any hash, any damaged blocks and any spare capacity. Assumptions: a match leaves room for the last literals
(`MinMatch + LastLits <= MFLimit + 1`), a chunk passes the end of its match by at most `Slack`, and `MaxOffset` fits two bytes.
A position decoded so far says nothing of the bytes to come, so `CodecInv` keeps the set of places (a position in the block, a
number of bytes decoded) where sequences begin: `Growing` says that from each of them, except the end of what is written, a sequence
lies in the block that decodes to what `src` has next, and leads to another place; `Complete`, that the last literals may lie there
instead. The decoder is always at such a place (`PlacesInv`), so it reads what was written (`SequenceRead`, `LiteralsRead`):
it meets no corruption and every match it copies is a repetition in `src`.

A copy is right if each byte is the one `offset` before it in the buffer as it is *after* the copy (`Continues`); for chunks this
composes (`ContinuesFurther`), because a chunk no longer than the offset reads nothing it writes. A pattern keeps its beginning,
so what it repeats doubles with what is there. For blocks `Compress` did not write, the same invariant without the places
says that every write stays inside the buffer. The induction over chunks, and the longest match `MatchLength` chooses, are taken as
least counterexamples.

### FileSizes

`AcceptedV1`: the comparisons of `parseHeader` imply that none of its sums wraps, so what it compares are the true sizes.
`PackedLoads`, `OffsetLoads` and `FreeLoads` bound the widest load of each section by its size. `AcceptanceIsExact` uses that
a file is written from front to back, so that a shorter one lacks the end of its blob.

### TypedValues

For the digits of any base from 2 on, any schemas and any typed arguments. `FieldIsRead` is about one field: what the conversion
accepts is read back as it was given, an `F32` as the half it keeps, and what lies outside the field's range is an error. `Laid`, the
inductive part, says that the fields encoded so far lie one after the other and nowhere overlap. An accessor finds its field by
adding up sizes it reads from the value itself; `PositionIs` shows that the sum is the place where the field was laid, or leaves the
value when that was cut before, and `ReadIs` that a cut value yields the whole field or nothing. `Position` is a function defined
by recursion over the fields: the first field at which the claim fails would contradict the one before it.

### InputRows

For any headers, records, objects, limits and names. `Meaning` says what a record means by rank: a dimension's place is
the number of those that precede it. `InOrder` is a choice among the orderings of a set; `CanBeSorted` shows that there is one, by
turning the rank around, and `SortedRank` that in any such ordering the rank is the position. Hence a row is what its
record means, for a CSV (`RecordOfCells`) and an object (`RecordOfObject`) alike. `KeyTellsCells` is why keys can be told apart: the last NUL of a key
ends all its cells but the last (`SplitAtNul`), and two keys of as many cells that agree have equal last cells and equal rests.

`SourceInv` says that the stored rows are those of the first records read, and that the record after them, if there was a
violation, is the one whose line `limitErr` keeps. The first duplicate is then the first record whose dimensions an earlier one has, and
what comes before the reported line has no violation of either kind.

### SizeSample

`IsSample`, the inductive part, says that the sample is all rows in their order while there is room, and otherwise as many as asked for,
each once. `EquallyLikely` compares numbers of draws. The draws for one row more are pairs of draws for the rows before it and a
last one (`CountExtending`). Of `n` + 1 last draws exactly one replaces a row that is kept (`CountReplacing`, which needs that
no row is sampled twice), and `limit` of them keep the new row. Neither number says by itself that old and new rows
are alike: `ShareKept` does, that the draws keeping a row, times `n`, are `limit` times all draws, whichever row it
is. The draws are taken as equally likely; the seed, which is fixed, is not part of the model.

### Telemetry and Histogram

Both keep books in which an amount moves between places that are not read together: reports and their announced losses
between builders, queue and sender, samples between live counts, what a drain holds, and totals. The sums over all
builders or all drains are defined in `Totals` as the size of a set with one element per unit, so that they need no
recursion: `SumMoves`, `SumChange` and `SumAppend` say what one changed value or one queued report does to a sum, and each follows from the
cardinality of a union.

`Accounted` is inductive with `CarryInv` (a report is in hand only where the control says so) and `PostsInv` (of the
posts a report may have, those that are left are still in the quota of the reports taken). `PauseHonoured` needs `PauseInv`:
the sender is about to post only when no pause lasts, because `deliver` checks before each attempt and only the sender itself
extends a pause.

`CountsExact` needs `DrainInv`: a drain has nothing of the buckets it has not come to, and holds samples back from `total` only at
the bucket it is at. `ScrapeSound` needs `ScrapeInv`: what the exporter loaded from `total` plus what it then
loads from `counts` is at most what was recorded, as samples only move from `counts` to `total`, which it
reads first; and while no drain runs, both loads are of unchanged values. The theorems
are about `MapStatistics` under `HistogramSizes` (finitely many drains, at least one bucket,
bounds in the naturals), which the values of the run satisfy.

`QuantilesSound` compares what `percentile` answers with the true latencies, so its proof is about the arithmetic of
`bucketIndex` and `bucketBound` with their widths as constants. `ManyAssumption` says how they fit: as many
buckets as the widest latency needs. Powers of two get their laws in `TotalsProofs` by counting
the subsets of an interval, for want of induction. `BucketBounds` then shows that the bound of a latency's bucket is no less than the latency and
exceeds it by at most its 2^`SubBits`-th part; `BucketsOrdered` and `BoundsOrdered` that both maps are
monotone. `Behinds` is the invariant: every counter is the number of the latencies in its bucket. With it the sum of the
counters up to a bucket is the number of samples up to its bound (`PrefixNext`, `SamplesUpTo`),
and `RankBounds` that the rank `percentile` looks for is within half a sample of the share asked for, hence `PercentileSound`.

### BuilderRows and RowList

For any sets of keys, values and sources, any hash, any limits and chunk sizes, in memory and in a spill file. The assumptions are
`BuilderRows`' own: a row fits a chunk, the limits are naturals, keys and values are sequences of bytes, and a source is a
sequence of rows and its end.

The rows of a Builder are not stored as such: they are what its offsets and lengths cut from the bytes. `Entries(x)` is that
list, and the invariant `Sound(x)` says that every row lies inside the bytes (`Stored`), in a chunk, in the spill file, in its
unflushed buffer or in its mapping, and that the cached hashes, the byte count and `checked` are true of the entries (`Cached`).
Reading, hashing and remapping change the store and not the entries (`SameRows`); `AppendSound` adds one
entry behind the others, whether the chunk is new, or the writer's buffer is filled, flushed or passed by (`Grows`). `RollbackSound` is
the point of it all: whatever an input added and the buffer has written, cutting the store back to `mark`
gives the entries it had, and the mapping that survives reaches no bytes that are gone.

`ParseSound` is the loop over a source as an invariant over the rows taken so far, proved by the least row for
which it fails. `DuplicateFound` shows that the search by hashes and then by keys finds the first row whose key repeats
an earlier one, and `Precedence` that of the rows over a limit and the duplicates of a source the call reports the
earliest, although it looks for duplicates only after the limit ended the parsing. Then each call of the Builder is the step of `RowList` of the same
name, with the list `Entries(b)`: `AddStep`, `BuildFromStep`, `CompileStep`, `ResetStep`.

### LookupCounters

Under `CounterSizes`: finitely many readers, bounds in the naturals, and `LookupCounters`' assumptions. A counter says what was added to it only up to a multiple of 2^`Width`: `Same` is that
congruence, and the sums of the proof are kept in it, so the moments at which `exit` - `nonLookups` is negative need no
case of their own. `CountersInv` consists of

- `LookupBooks`: `retiredLookups` plus what the mappings not yet taken over hold is `served` plus what the reads that are
  not over have counted ahead of their exit: a batch all its keys but one, a `Len` or `Scan` one less than 2^`Width`, that is -1;
- `MissBooks`: the same of misses, which are never ahead;
- `LifeInv`: mappings come in order, one that was not installed has counted nothing, and a read is of a mapping that is not
  drained, so nothing is counted in a mapping after it was taken over;
- `ObserverInv`: the last total reported is at most what the windows together reported;
- `ServedInv`: the lookups served, and those a read under way may still serve, are within the operations begun.

At rest the books have one mapping and nothing ahead, hence `ExactAtRest`. `NothingUnreported` is about a sum that does not
wrap, and false of counters that do: a window whose total has wrapped reports none. Its theorem therefore has the hypothesis that the
lookups of a behaviour are fewer than 2^`Width`, which 64 bits grant any process. `CountersWithin` says that the counters
behave in `MapStatistics` as they do alone.

### PollLoop

`IInv` adds to `LoopSound` that an attempt of the start is below the limit while it lasts, and `StreakInv`: `failures` is the number of
transient failures since the last success or rejection, over pauses for quota. `NextWait` shows, outcome by outcome, that the wait
is within the limits; it needs no bound on the header, since `QuotaDelay` caps what is positive and replaces
the rest, so `LoopSound` holds for any product of `parseRetryAfter`, wrapped or not. `WaitsFollow` assumes that the seconds a header names, in
nanoseconds, are below 2^63, as the values of the run are; for larger ones its second half is false (section 4).

Every invariant of a passing run is proved, some under the hypotheses of the table. Only model-checked: liveness
under fairness, and `ENABLED`. The installed provers cannot instantiate an induction theorem; where a proof needs
induction, over the fields of a value, the cells of a key or the pieces of a file, it takes the least counterexample instead (`LeastNatural`).

## 6. Plan

Done: all modules of section 2. What would come next:

1. `SyncInstall` composed with `PollLoop`, so that a server error delays the recovery from a crash, and with
   `HotSwap`, so that `publish` may block while `Close` comes.
2. Damaged version 2 headers in `FileSizes`, which needs the table's fields as words, and the errors of
   `CompileWithOptions`' options in `FormatV2`.

## 7. Not modelled

- The byte grammars of CSV and JSON, header formatting, the JSON and OpenTelemetry bodies, gzip, base64 and Ed25519 (library code or
  text); Prometheus exposition (formats counters, keeps no state).
- mmap, mlock, madvise: system calls, whose effect is a mapping being there or not. Hash functions: arithmetic without state, constants
  of the models.
- Version 2 headers damaged in a way their checksum would show: with verification off the code trusts them.
- Sampling a Redis server: one request after the other on one connection, whose only hard part is what the server does in
  between; its two mistakes are in section 4. The size estimates and their printing.
- An explicit `OffsetWidth`, and the errors of invalid options, of `CompileWithOptions`.
- `Builder.Grow` changes capacities only, and `Builder.Close` ends the life of a spilling Builder.
- Two processes that share a cache directory: `SyncInstall` has one process at a time.
- Node ID, options and error types, examples (no behaviour).
