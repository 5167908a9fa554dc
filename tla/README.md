# A verification of OpenTelemetry-Go in TLA+

This directory models the concurrent core of OpenTelemetry-Go in TLA+, checks
it on small instances with TLC and proves parts of it for all instances with
TLAPS. `PROJECT.json` lists the components, the runs, which source lines every
definition stands for, the hazards of the code and the theorems.

## 1. Inventory

Applications record spans, measurements and log records through the API; the
SDK samples, limits and batches them and hands them to exporters. Everything
hard in the code is at the places where goroutines of the application meet the
goroutines of the SDK.

| Component | State | Operations | What is hard | What makes it correct |
|---|---|---|---|---|
| **Batch span processor** `sdk/trace/batch_span_processor.go` | a channel of spans and flush markers, a batch under a mutex, a timer, `stopped`, `stopCh`, `stopOnce` | `OnEnd`, `ForceFlush`, `Shutdown`; goroutines `processQueue`/`drainQueue`, one per `ForceFlush`, one per `Shutdown` | exports from several goroutines, contexts that end in the middle, the `stopped` test apart from the enqueue, the timer protocol | exports never overlap nor follow the exporter's shutdown; each accepted span is exported once, in order; batches are bounded; flush and shutdown export what came before them; nothing blocks for ever |
| **Tracer provider** `sdk/trace/provider.go` | copy-on-write list of processors, `isShutdown`, a mutex, a `sync.Once` per processor | `RegisterSpanProcessor`, `UnregisterSpanProcessor`, `ForceFlush`, `Shutdown`, `Tracer` | readers of the list run against writers; a context that ends half way through `Shutdown` | no registration is lost to a concurrent writer; processors are stopped once and in order; a finished Shutdown leaves none running; only the processor named is removed (it is not: see `tp_unknown`) |
| **Span** `sdk/trace/span.go`, `tracer.go`, `evictedqueue.go` | attributes, events, links, status, end time under a mutex | `SetAttributes`, `AddEvent`, `AddLink`, `SetStatus`, `End`, `snapshot` | `IsRecording` tested before the lock; the attribute slice is shared with snapshots and rewritten in place; limits and drop counters | the last value of each admitted key is kept and everything else counted; a snapshot keeps its keys; an ended span reaches the processor |
| **Simple span processor** `sdk/trace/simple_span_processor.go` | the exporter under a mutex, `stopOnce` | `OnEnd`, `Shutdown`; the goroutine of `Shutdown` | the exporter's `Shutdown` may end a span itself | one exporter call at a time, none after it was taken away, no deadlock |
| **Log batch processor** `sdk/log/batch.go`, `exporter.go`, `ring.go` | a ring of records that overwrites the oldest, a poll goroutine, a buffered exporter with its own goroutine, a chunker, a timeout | `OnEmit`, `ForceFlush`, `Shutdown`, `Enqueue`, `TryDequeue`, `Flush`, `EnqueueExport` | two queues in a row, a retry when the second is full, shutdown racing both | newest records kept, order kept, flush complete, no export overlaps another |
| **Log provider, loggers and records** `sdk/log/provider.go`, `logger.go`, `record.go`, `simple.go` | loggers by scope, `stopped`, attributes with limits, partly in a slice | `Logger`, `Emit`, `SetAttributes`, `AddAttributes`, `Clone` | de-duplication, limits and counts over several calls; what copies of a record share | limits kept, drops counted, a queued clone never changes |
| **Global delegation** `internal/global` | placeholder providers, instruments and registrations with an atomic delegate | `SetTracerProvider`, `SetMeterProvider`, `Tracer`, `Meter`, instrument creation, `RegisterCallback`, `Unregister` | lookups that race the one delegation, lock order | every placeholder is delegated once, what was unregistered is gone, no deadlock (there is one: `global_deadlock`) |
| **Metric readers** `sdk/metric/periodic_reader.go`, `manual_reader.go`, `provider.go` | ticker, flush channel, `shutdownOnce`, the producer | `Collect`, `ForceFlush`, `Shutdown` | the collecting goroutine races flush and shutdown | every measurement exported once or lost with an error, calls answer truthfully and return |
| **Metric pipeline and aggregation** `sdk/metric/pipeline.go`, `internal/aggregate` | measures by attribute set, per-aggregation buckets | `Measure`, `produce`, the exponential histogram's rescaling | delta resets, failing callbacks, cardinality limit, rescaling arithmetic in reused arrays | counts conserved, each in its bucket, at the finest scale that fits |
| **OTLP exporters** `exporters/otlp` | client under a mutex, retry policy | `Export`, `Shutdown`, `RequestFunc` | retry and throttling against deadlines, shutdown while another goroutine uploads | retries end, a client that was shut down is not used |
| **Prometheus, Zipkin and stdout exporters** | collected metrics, formatting | `Collect`, `ExportSpans` | mostly translation | |
| **Sampling, ids, trace state, baggage, propagation, attributes, resources** | values | pure functions | parsing and limits | round trips, canonical sets |
| **Bridges** `bridge/opencensus`, `bridge/opentracing` | wrappers | translation between APIs | | |

How the components interact: the tracer provider calls `OnEnd`, `ForceFlush`
and `Shutdown` of its span processors, the batch processor calls
`ExportSpans` and `Shutdown` of the exporter, and the same chain exists for
logs (`Logger.Emit`, `OnEmit`, `Export`). All calls come from the application's
goroutines; the processors add goroutines of their own and talk to them through
channels, mutexes, atomics and contexts. Metric readers pull instead: a reader's
goroutine calls the pipeline, the pipeline the aggregations. The global package
stands in for all providers until the application installs real ones.

## 2. Plan

In order of importance.

1. **`BatchSpanProcessor`** with the abstract `SpanPipeline` (done, with proofs).
2. **`TracerProvider`** (done, with proofs).
3. **`LogBatchProcessor`** (done, with proofs).
4. **`LogQueue`** with the abstract `DropOldestQueue` (done, with proofs), and composed with
   it in **`LogEmit`** the records it holds: **`LogRecord`** with the abstract `LogAttributes`
   (done, with the proofs of both refinements).
5. **`Span`** with the abstract `SpanAttributes`, **`SimpleSpanProcessor`** and their
   composition **`SpanLife`** (done, with proofs, the attributes included).
6. **`PeriodicReader`** over **`MetricExporter`** (done, with proofs).
7. **`GlobalMeter`** (done, with proofs).
8. **`ExpoHistogram`** (done, with proofs of all three properties).
9. Still to come: the start and stop of the OTLP trace client.

## 3. Modules

### BatchSpanProcessor, SpanPipeline

`BatchSpanProcessor.tla` models `sdk/trace/batch_span_processor.go` with one action
per step between two points where another goroutine can interfere: a lock, a
channel operation, a `select`, an atomic.

| State | Code |
|---|---|
| `queue` | the channel `bsp.queue`; a flush marker is the name of its `ForceFlush` call |
| `batch`, `mutex` | `bsp.batch` and `bsp.batchMutex` |
| `armed`, `tick` | the timer: running, and its channel holds a value (go.mod says Go 1.21, where a fired timer keeps its value) |
| `stopped`, `stopCh`, `once` | `bsp.stopped`, `bsp.stopCh` closed, `bsp.stopOnce` |
| `procPc`, `hand`, `draining` | the goroutine of `processQueue` and `drainQueue`, and the span it received and has not yet appended |
| `exportPc`, `exportErr` | `exportSpans` as run by that goroutine and by each `ForceFlush` goroutine |
| `endPc`, `flushPc`, `shutPc`, `stopperPc` | each `OnEnd`, `ForceFlush` and `Shutdown` call, and the goroutine `Shutdown` starts |
| `cancelled` | the calls whose context has ended |

Histories: `accepted`, `exported`, and for each flush and for the shutdown how many
spans were accepted before it. `exported` means handed to the exporter,
successfully or not: the code empties the batch in both cases.

`SpanPipeline.tla` is what the processor promises: `Accept`, `Deliver` up to a
batch of spans in order, `Close`. The refinement mapping maps `delivered` to
`exported` and `closed` to the exporter's shutdown having begun. A step of
the detailed module that moves spans between queue, hand and batch is a stutter.

### TracerProvider

`TracerProvider.tla` models the processor list of `sdk/trace/provider.go`. `list` is the
slice behind the atomic pointer, a registration stands for the
`spanProcessorState` with its `sync.Once` (`once`), `mu` is the owner of
`p.mu`, `todo` what a call keeps of the list it has loaded. Writers test
`isShutdown` before the mutex (`Enter`) and after it (`Ignore`); a processor's
Shutdown, called with the mutex held, takes a step of its own
(`StopReturns`), and for the processors in `Reentrant` it calls `Tracer`,
which waits for the mutex unless `isShutdown` is set. `WellUsed` restricts the
application to unregistering what is registered; without it `tp_unknown` finds
the wrong processor removed.

### LogBatchProcessor, LogQueueOps

`LogBatchProcessor.tla` models `sdk/log/batch.go` and the exporters that
`NewBatchProcessor` stacks below it (`sdk/log/exporter.go`): the queue with its mutex
(`queue`, `qmu`), the poll goroutine (`pollPc`, `trigger`, `killed`), the buffer
exporter (`input`, `inputMu`, `closed`, `eStopped`, `expDone`), its goroutine
(`data`, `exporting`, `replied`) that cuts a payload into chunks and calls the
exporter with a timeout, and each call (`pc`). `TryDequeue` holds the queue's
mutex while it takes `inputMu`, so its beginning and its end are separate steps.
The operations on the queue's contents are in `LogQueueOps.tla` and are shared with
the abstract queue below.

### LogQueue, DropOldestQueue

`LogQueue.tla` is the queue itself, on the ring of `sdk/log/ring.go`: cells,
a read and a write position, a length. Each method holds the mutex throughout
and is one step. `DropOldestQueue.tla` is the sequence it stands for. Mapping:
`q` is the `len` cells from `read` on. This justifies the sequence that
`LogBatchProcessor` uses for the queue: both use `Enqueued` of `LogQueueOps`.

### LogRecord, LogAttributes, LogEmit

`LogRecord.tla` models the attributes of `sdk/log/record.go`: `front` inside the record,
`back` a slice into an array of `mem`. `Merge` is one round of the loops of `dedup` and
`AddAttributes`, `Fitting` the count limit, `Limits` and `Nested` the value limits
(`LogAttributeValues.tla` keeps of a value what they tell apart). `rec` is the record that
`Emit` builds and the processors change in turn, `cloned` the clones made of it.
`LogAttributes.tla` is the map with a drop count that this stands for. It follows the code,
also in two points where `provider.go` documents something else: a value that replaces one of
an earlier call is not limited, and a count limit of 0 limits nothing (section 7). The mapping reads the map off `rec` and every clone, so a clone that shared its array with the record
would be seen to change. `LogEmit.tla` composes records and queue: the batch processor's
`OnEmit` clones and enqueues, later processors change the original, `TryDequeue` and
`Flush` take clones out.

### Span, SpanAttributes, SimpleSpanProcessor, SpanLife

`Span.tla` models the recording span of `sdk/trace/span.go`. A method is two steps,
because it asks `IsRecording` and takes the mutex again for its work (`pc`, `arg`);
`AddEvent` and `AddLink` take it for the first time when they work. The attributes are
a Go slice (`slice`, an array of `mem` and a length): `SetAttributes` appends, into
spare cells or a new array, and `Dedupe` rewrites the array in place, which
matters because `snapshot` hands the same array to the processors (`snaps`). The loops
of the Go code are folds over the attributes, of which `Unique`, `AddUnderCap` and
`AddOverCap` are one round each. Events
and links are queues of serial numbers that evict the oldest (`queue`), with the
number ever added as history. `SpanAttributes.tla` is the abstract map from keys to
values with a drop count; the mapping reads the slice with the last value of each key,
cut to the length limit.

`SimpleSpanProcessor.tla` models the mutex, the Once and the goroutine of `Shutdown`,
which zeroes the exporter and calls its `Shutdown`, where another span may end.
`SpanLife.tla` composes them: an `End` that took a snapshot passes it to `OnEnd`.

### GlobalMeter

`GlobalMeter.tla` models `internal/global/state.go` and `meter.go`: the placeholder
provider with its mutex and delegate, its meters with theirs, each with instruments
and a list of registrations, and the mutex `unregMu` of each registration. A client
gets a meter, creates an instrument (the atomic load of the delegate and the locked
append are separate steps), registers a callback and may unregister it. `sdk` says
how often the SDK holds a callback, `unreg` what `Unregister` would call. The SDK may
refuse any instrument (`refused`): its placeholder then stores no delegate
(`instruments.go:36` and its siblings) and cannot be unwrapped (`Unwraps`). Over such a
placeholder the SDK refuses a callback and returns a nil registration. A client that
registers one itself gets the error; in `setDelegate` taking the nil registration's
`Unregister` panics (`RegistrationPanics`), which runs the deferred unlocks and completes
the Once on its way out. The model goes on after that, as a program does whose caller of
`SetMeterProvider` recovers.

### PeriodicReader, MetricExporter

`MetricExporter.tla` models `otlpmetricgrpc`: `clientMu` is held for a whole upload
(`up`), with its attempts, the pauses of `retry.go` and the elapsed time; `Shutdown`
swaps the client under the mutex and shuts the old one down afterwards.
`PeriodicReader.tla` extends it with the reader's goroutine (`run`), the collection in
progress (`job`), which goes through callbacks, aggregation, export and answer, and
each `ForceFlush` and `Shutdown` call (`stop`, with `before`, what the counter held at
the call, and `gone`, what had been lost when it collected itself). A measurement is a number, a sum the set of
measurements in it. `Others` use the same exporter. `Faults` lets callbacks and
requests fail and deadlines pass.

### ExpoHistogram

`ExpoHistogram.tla` models `exponential_histogram.go` and `limit.go`. A measurement is
a sign and the position of its magnitude on a logarithmic scale in units of half
a bucket of the finest scale, so that boundaries are the even positions. `getBin`,
`scaleChange`, `downscale` and `recordBin` compute what the Go code does, with the
cells of the array beyond the slice (`spare`), which later widening reuses; shifts by
n bits are divisions by `Pow2[n]`. The logarithm that `getBin` takes at scales above 0 is exact
in the model and rounded in the code. The reference is `Bucket` with `Expected`, a
histogram that is computed anew from all the measurements. `HistInit`, `HistNext` and
`HistSpec` are its specification; `measure` and `delta` hold the aggregation's mutex and
are one step each.

## 4. Runs

Deadlock checking is on for `exp_histogram`, where something can always be measured
or collected, and off in the others: once its finitely many calls have returned
an instance may rest, and so may the program.

| Run | Instance | What it shows |
|---|---|---|
| `bsp_drop` | three spans, queue of 2 that drops, batches of 2, one `ForceFlush` and one `Shutdown` whose contexts may end | exports never overlap nor follow the exporter's shutdown; every accepted span in one place, in order; the wait for the timer ends; flush and shutdown hand over what came before them; the refinement of `SpanPipeline` |
| `bsp_live` | two spans, blocking queue of 1, batches of 2, one `ForceFlush`, two `Shutdown` | `OnEnd` and `ForceFlush` return, both `Shutdown` calls return, accepted spans are exported even when the batch never fills, the exporter is shut down |
| `tp_lists` | three registrations of two processors, one removal, one flush, two shutdowns, contexts that may end, a processor that calls back | no registration lost, processors stopped in order and for good, every call returns |
| `tp_unknown` (violation) | two registrations, removals of processors that may not be registered | another processor is removed |
| `log_safe` | three records, queue of 2, batches of 1, a `ForceFlush` that may be cancelled, a `Shutdown` | order, conservation, wake-ups, the closed channel, what flush and shutdown guarantee |
| `log_live` | one record, queue of 1, `ForceFlush` and `Shutdown`, whose contexts may end at every wait | all calls return; the record is exported, overwritten or given up |
| `log_emit` | records with up to four attributes of four keys, a limit of three, one of them inline, two calls and three clones; a ring of 2 that overflows once, with `TryDequeue` accepted and refused, `Flush` and `Dropped` | the ring implements `DropOldestQueue`; records and clones hold the map and the drop count of `LogAttributes` |
| `span_export` | two goroutines that make three calls and may both end a span at its limit of two attributes, with duplicates, an invalid attribute and a value too long; two events, one link; the simple processor and its `Shutdown` | the attributes are the abstract map, snapshots keep their keys, queues the newest entries; the exporter is called by one goroutine at a time and gets every snapshot; `Shutdown` returns |
| `global_delegate` | two clients of two meters, two goroutines in `SetMeterProvider` with two SDKs that may refuse instruments | every placeholder meter delegated once; the SDK has what existed before but for what it refused, unless `setDelegate` panicked, which only a callback over a refused instrument makes it do; what was unregistered is gone |
| `global_deadlock` (violation) | one client, one `SetMeterProvider` | `Unregister` and the delegation wait for each other |
| `metric_export` | two measurements, a ticker, one `ForceFlush`, two `Shutdown`, another user of the exporter; intervals of 1, at most 2 units of retrying, throttle delays of 0 and 2 | each measurement exported once or lost with an error; a nil of `ForceFlush` means that what was measured before it is exported, a nil of `Shutdown` the same but for what a collection that it cancelled has lost; pauses end within the configured time; a client that was shut down is not used; calls return |
| `exp_histogram` | four buckets, scales from 1 down to -10, two attribute sets under a limit of 2, four measurements at ten positions | buckets exact, scale finest, limit kept, over resets |

**Why the bounds are enough.** The interesting events are few: a queue that is full
(one or two places and one more producer than places), a batch that is full and
one that is not, a flush and a shutdown that meet each other and every
stage of the pipeline, a caller that has left. Each instance reaches all of
them; two flush or shutdown calls suffice for what calls of a kind do to each
other. Three clones in a ring of 2 wrap and overflow it once; the
proofs cover every size. `MaxDropped` bounds a counter that only `Dropped` reads. Two calls give a record
attributes in `front` and `back` and then change it, with clones before, between and after. `MaxCalls` 3 with the two attributes given at the start fills the span to its
limit, overflows it and leaves a call that outlives `End`; `MaxSlack` 1 gives `append`
arrays with and without a spare cell. Room for two events and one link lets queues of
both sizes overflow with three calls, and the larger one shift its entries. The retry bounds allow a pause, a second
pause and one too many. Histogram positions lie on, before and after boundaries on both
sides of 1 and at both ends of the range of float64, so that scales go from the
finest to -9; four measurements change the scale twice and reuse an array that
was narrowed. Spans and records are symmetric where no liveness is checked.
What is proved below needs none of these bounds; `RingOK`, `BatchBounded` and the
type invariants are proved and have no run.

## 5. Fairness

`BatchSpanProcessor!FairSpec`: weak fairness for each goroutine, because the Go
scheduler runs what can run; for the timer, which expires; and for the exporter's
calls, which have deadlines (`ExportTimeout`). Strong fairness only for the
channel and stop cases of the `select` in `processQueue`: Go picks a ready case at
random, so a timer that fires for ever does not win for ever. Callers' contexts
need not end. The mutex needs no more than weak fairness, since finitely many
calls compete.

`LogBatchProcessor!FairSpec`: the same, with strong fairness where the endless poll
goroutine competes: taking the queue's mutex (`Enqueue`, `FlushLock`,
`ShutdownTakesQueue`; Go's mutexes hand over to a starving waiter) and the
`pollKill` case of its `select`.

`TracerProvider!FairSpec`: weak fairness for calls that hold or wait for the mutex,
and for processors' `Shutdown` calls.

`SpanLife!FairSpec`, `GlobalMeter!FairSpec`: weak fairness for each goroutine inside a
call; the exporter's calls return. `PeriodicReader!FairSpec`: weak fairness of the
collection, of each attempt and pause and of the calls, a `ForceFlush` always having
a deadline; strong fairness of `RunStops` only, since the ticker may fire again and again
and `select` chooses at random.

Nothing is assumed of the application: no call has to be made.

## 6. Proofs

For every number of spans, flush and shutdown calls, every queue and batch size and both
policies for a full queue (`BatchSpanProcessor_proofs.tla`), from `SizesAssumption`
(sizes are positive) and `CallsAssumption` (names of calls and goroutines differ):

- **`TypeCorrect`**.
- **`ExporterContractHolds`**, **`BatchIsBounded`**, **`TimerNeverBlocks`** from one
  invariant, `SafetyInv`. None of the three is inductive alone. Exclusion of two exports
  needs `MutexInv`: exactly the goroutine that exports holds the batch mutex, and then
  the batch is not empty. That no export follows the exporter's shutdown needs `StopInv`
  (the shutdown goroutine waits for the processor goroutine) and `ProcessorInv` (that
  goroutine leaves an empty batch behind, and nobody else appends), so that a late flush
  goroutine finds nothing to export. The batch bound needs `BatchInv`: the batch is full
  only between the append that fills it and the export that append asks for. The timer
  needs `TimerInv`: until it is drained it runs, or has fired, or is about to be reset.
  `FlushInv` says that a `ForceFlush` has no goroutine before its export.
- **`NothingLostOrReordered`** (`FIFO`): `accepted` is `exported`, `batch`, `hand` and
  the spans of the queue, in this order. It is inductive with two facts of `OrderInv`:
  accepted spans are distinct because each is marked as queued, and `hand` is empty but
  before an append.
- **`ShutdownDrainsTheQueue`** (`ShutdownDrains`): `DrainInv` says that the processor
  goroutine drains only once `stopCh` is closed, so after `atStop` was set, and that
  when it has found the queue empty `exported` and `batch` hold everything accepted by
  then, by `OrderInv`; `ProcessorInv` empties the batch.
- **`FlushCompletes`** (`FlushIsComplete`): the spans accepted before a `ForceFlush`
  that have not left the queue are in front of its marker (`MarkerInv`); so when its
  marker has been received they are exported or in the batch, and exported once its
  goroutine is back from `exportSpans`, which empties the batch or found it empty
  (`FlushedInv`, with `OrderInv`).
- **`PipelineRefinement`**: with the same `OrderInv` every step is a step of
  `SpanPipeline` or leaves its variables alone. Four lemmas about sequences
  (`InOrder...`) say how accepting, marking, unmarking and taking a span preserve that
  order.

For every ring size (`LogEmit_proofs.tla`), from `SizeAssumption`:

- **`RingIsConsistent`**: `RingOK` is inductive as it stands. The arithmetic of
  positions modulo the size is in the lemmas `AheadNext`, `AheadAdd`, `AheadInjective`
  and `Walk`.
- **`QueueRefinement`**: every method does to the `len` cells from `read` on what
  `DropOldestQueue` does to its sequence (`OldestReadOn`, `OldestEnqueued`).
  **`QueueOfClones`** says the same of `EmitSpec`, whose steps on the ring are those of
  `LogQueue`.

For every inline size, count limit and set of arguments of any length (the same module),
from `LimitsAssumption` and `BatchAssumption`, which only gives an argument's type:

- **`RecordsAreMaps`** (`ImplementsAttributes`, the refinement of `LogAttributes`) from
  `RecordInv`. An array that a clone refers to is not the record's, which is why nothing
  done to a record reaches a clone; it holds because `Clone` and a growing back take a
  free address (`FreshAddress`) and because a write touches the record's array only
  (`IsGrown`, `Leaves`). `WellFormed` says what a record is like between calls: its
  front and back share no key and hold none twice, they keep to the limit, and an empty
  record has dropped nothing; without the last the two ways of `AddAttributes` would
  count differently. One call is proved in four parts: the loops keep the last value of
  every key that is there and collect the others in the order in which they came first
  (`MergeProperties` for a round, `IsMerged` for all of them); what fits of these are the
  keys that `LogAttributes` admits (`AdmittedKeys`), and their drops add up whether they
  are counted by position or by key (`SumOverKeys`); the parts shared out to front and
  back stand for the one map (`PartsAdded`); and it is where the record says
  (`GrownProperties`). `Emit` is a fold of such calls, followed round by round in both
  specifications (`EmittedProperties`).

For any number of processors and calls (`TracerProvider_proofs.tla`), from
`TargetAssumption` and `DistinctAssumption`, with any processors calling back and
contexts ending anywhere:

- **`TypeCorrect`**, and **`StoppedInOrder`** (`ShutdownOrder`) from `ListInv`: the
  mutex is held exactly by the call that is stopping processors (`MutexInv`); the list
  is in the order in which registrations were recorded (`Ranked`, `RegisteredInv`); what
  an `UnregisterSpanProcessor` will store is the current list without one entry
  (`RemovalInv`); one `Shutdown` only gets past `isShutdown`, and what it has stopped
  and has still to stop is the list (`ShutdownInv`). The order of the list is no
  invariant without the last two, because both calls store what they computed before
  they called a processor.
- **`RegistrationsKept`** (`NoRegistrationLost`), **`OnlyTheGiven`**
  (`OnlyTheGivenIsRemoved`) and **`NothingAfterShutdown`** (`ShutdownIsFinal`) under the
  hypothesis `OneUnregisterEach`: a processor is unregistered after it was registered,
  and by one call. The hypothesis is what the application must do for lack of a guard in
  the code, and `tp_unknown` shows that without it the claim is false; `tp_lists` is an
  instance of it. `LossInv` adds to `ListInv` that a call that waits for the mutex will
  find its processor.

For any number of records and calls, any queue and batch size
(`LogBatchProcessor_proofs.tla`), from `BatchSizeAssumption`, `CallsAssumption` and
`QueueSizeAssumption`, for contexts and export timeouts that end anywhere:

- **`ClosedForSenders`** (`NoSendOnClosed`): `ShutInv` says that one `Shutdown` goes
  past its first step and which flags are set when it is where, `InputInv` who owns
  `inputMu`: whoever waits to send, and `Shutdown` from the closing of the channel on.
- **`WakeupKept`** (`NoLostWakeup`), inductive as it stands.
- **`ExportedInOrder`** (`InOrder`): `OrderInv` says that `exported`, what the export
  goroutine has, the channel, what `Shutdown` took and the queue are each in the order
  of emission and each before the next. It needs `LateInv`, that after `Shutdown` has
  taken the queue only records of `OnEmit` calls that raced it are left there, and
  `ExportInv`.
- **`RecordsKept`** (`NothingVanishes`), **`FlushCompletes`** (`FlushIsComplete`) and
  **`ShutdownHandsOver`** (`ShutdownDrains`): `ConserveInv` says that what was queued in
  time is in one of these parts or overwritten or abandoned, and `FlushInv` (`Progress`)
  that what a flush awaits has left the queue when the flush turns to the exporter, the
  channel when it waits for the answer, and the export goroutine's hands when the answer
  comes, by the order again.

The 32 steps of the model do nine things to those parts (`PipelineStep`: a record comes
in, is dequeued, taken, sent, lost, ...; most steps do nothing). The order, conservation
and flush parts are proved for the nine, and each step is shown to be one of them.

For any number of goroutines, spans, limits and stoppers (`SpanLife_proofs.tla`), from
the assumptions of `Span`, `SimpleSpanProcessor` and `SpanLife`, which say that names
differ and that the threads are among those that may end a span:

- **`TypeCorrect`**; the memory of the attributes has its types in `SliceInv`, below.
- **`OneExportAtATime`** (`ExporterProtected`): `ProtectInv` says that only the owner of
  the mutex exports and that once the goroutine of `Shutdown` runs the field holds no
  exporter, so that the exporter's `Shutdown`, which holds no mutex, meets nobody.
- **`NewestAreKept`** (`NewestKept`): `QueueInv` gives the serial numbers a queue holds,
  `SnapsInv` the same of every snapshot; a queue without room differs, as the code does.
- **`EndedReachesExporter`** (`EndedIsExported`): by `DeliveryInv` a snapshot that was
  not exported is on its way to `OnEnd`, or the exporter was gone or the span not
  sampled; and there is one snapshot or somebody about to take it.
- **`SnapshotKeysAreStable`** (`SnapshotKeysStable`) and **`AttributesAreAMap`**
  (`ImplementsMap`, the refinement of `SpanAttributes`) from `AttrInv`. That a snapshot
  keeps its keys is not inductive: it shares its array with the span, which goes on to
  rewrite it. `ShareInv` adds why nothing happens to it: what a snapshot has of an array
  has no key twice, and as long as the span uses that array, the span's slice reaches at
  least as far (`View`). So a `Dedupe` in place finds nothing to move there, an append
  writes behind it, and a value is replaced under its own key (`StoreKeeps`). `SliceInv`
  bounds the slice by its array and the limit, and `CallInv` says where arguments come
  from. What the loops compute is proved for arguments of any length, one lemma for each
  loop (`DedupeRounds`, `UnderCapRounds`, `OverCapRounds`): after every round the list
  stands for the map so far and the count is that of `SpanAttributes`. The rest is case
  analysis over the two ways of `SetAttributes` (`SetAttributesProperties`) and the
  steps that only look.

For any number of clients, meters, SDKs and goroutines in `SetMeterProvider`
(`GlobalMeter_proofs.tla`), from `NameAssumption`, with `MeterInv`:

- **`TypeCorrect`**, and the action property **`OneDelegate`** (`DelegatedOnce`), from
  `SetterInv` (one goroutine is inside the Once, with an SDK) and `DelegateInv` (a
  meter's delegate is the provider's).
- **`NobodyLeftBehind`** (`AllDelegated`): when the Once is done, no meter that somebody
  holds is without the delegate, and the SDK has the early instruments and callbacks but
  for the instruments that it refused, unless `setDelegate` panicked; and it panicked only
  over the callback of a refused instrument. What the SDK refuses is arbitrary. `HeldInv`
  says that a meter somebody holds is
  known to the provider, waits for its turn in `setDelegate` or has the delegate;
  `InstrumentInv` that before `setDelegate` every placeholder is in its meter's map;
  `EarlyInv` that those that were there when it began stay until the meter's turn; `RefusedInv` that
  when a meter's callbacks have their turn, an instrument of theirs that is still a
  placeholder was refused.
- **`GoneForGood`** (`UnregisteredIsGone`): by `RegistryInv` a registration is in its
  meter's list until it is delegated or unregistered, whichever is first, and the SDK
  has it in between.

For any number of calls and every retry configuration (`Metric_proofs.tla`),
from `ConfigAssumption`, `BoundAssumption` and `UserAssumption` (names differ), with
`ReaderInv`:

- **`TypeCorrect`**, **`NoRequestOnClosedClient`** (`ClosedClientUnused`) and
  **`PausesAreBounded`** (`RetryBounded`) from `ExporterInv`: an upload is made with the
  live client and under `clientMu`, which `Shutdown` takes to swap the client. Nothing
  is assumed about the delays a server asks for.
- **`EachCountedOnce`** (`CountedOnce`): `CountInv` divides the measurements between the
  counter, the collection, the exporter and the losses, and `JobInv` says that one
  collection runs: the goroutine's, and after it is done that of the one `Shutdown` that
  waited for it.
- **`FlushedIsExported`** (`FlushExports`) and **`DrainedOnShutdown`**
  (`ShutdownDrains`): `FlushInv` and `DrainInv` follow what had to be exported through
  the steps of that collection. `Shutdown` is held only to what no collection before its
  own has lost: that is what the code does, and less than it says (section 7).

For any attribute sets, positions and cardinality limit, any finest scale from 0 to 20
(`ScaleAssumption`) and any number of
measurements (`Metric_proofs.tla` again), from the assumptions of `ExpoHistogram`:

- **`LimitHolds`** (`LimitKept`) from `LimitInv`: the overflow set may take the last place
  only, so without it there is a place free; and a set has spilled only when the limit
  was reached, which it stays until a reset, so no set gets a data point of its own after
  it has spilled.
- **`BucketsAreExact`** (`BucketsExact`) and **`ScaleIsFinest`** (`FinestScale`) from
  `PointInv`, which holds of every data point by itself. `Exact` says that each bucket
  counts what lies in it, that all measurements lie in one, that the first and the last
  bucket are not empty and that there are at most `MaxSize`; without the non-empty ends
  a scale could be given away. `Crowded` names two measurements of one sign that do not
  fit at the next finer scale; they stay when others come. Three facts carry the steps:
  `getBin` computes `Bucket` at every scale, above and below 0 and on boundaries
  (`BinIsBucket`); merging 2^d buckets gives the buckets of the scale lower by d
  (`DownscaleMerges`, by `NestedQuotient`); and `scaleChange` finds the least d at which
  the new bin fits (`SmallestChange`). The reused array does not matter because every
  cell that comes into the slice is set (`RecordBinAdds`).

  Both are stated for `MaxSize >= 3`. With three buckets or more the lowest scale
  holds all of float64 (`LowestScale`), so no measurement is given up. With 1 or 2 the
  code gives some up (section 7) and `BucketsExact` is false. The SDK's default is 160.

`SequenceLemmas.tla` holds what several of these proofs need: what appending, `Tail`,
`RemoveAt`, cutting and joining do to the entries, the set and the order of a sequence;
`Min` and `Max` of sets of positions; sums over finite sets and what adding a member,
splitting or merging does to them; quotients. The library's induction theorems take an operator
as parameter, which none of the provers can instantiate. Where an induction is needed
it is done with a set in place of the operator (`UpwardInduction`, `SubsetInduction`):
the least natural number outside the set would contradict the step. `FoldRounds` says
with it that a fold goes through the states that its rounds make, so that loops over
arguments of any length can be reasoned about.

**Model-checked only**:

- Liveness: `CallsReturn`, `ShutdownReturns` (of the processors of spans), and that what the batch
  processors hold is exported in the end. Fairness and `ENABLED` are beyond the prover.

## 7. Where code and comments part

Two violation runs show these; `PROJECT.json` quotes the comments.

- `UnregisterSpanProcessor` of an unknown processor removes the first of the list
  without stopping it (`tp_unknown`).
- `Unregister` of a callback holds the registration's mutex and waits for the meter's,
  `SetMeterProvider` holds the meter's and waits for the registration's: both hang, with
  the global provider's mutex held (`global_deadlock`).

Others met in the code and modelled, but with no run of their own. The properties
that hold name the cases of both lists as their exceptions (`cancelled`, `stopped`, `late`,
`lost`, `gone`, `refused`).

- *Batch span processor.* A span whose `OnEnd` passes the `stopped` test just before
  `Shutdown` may enter the queue after the last drain and is neither exported nor counted;
  with `BlockOnQueueFull` and a full queue its caller never returns. A `ForceFlush` whose
  context ends while it waits for room may return nil without a flush. A second
  `Shutdown` waits in `sync.Once` whatever its context says.
- *Tracer provider.* A `Shutdown` whose context ends leaves processors that no later
  call can stop, and later calls answer nil. A processor that calls `Tracer` from its
  `Shutdown` deadlocks when it is unregistered (`tp_lists` therefore never unregisters the
  one that does).
- *Log batch processor.* A record emitted during `Shutdown` may stay in the queue;
  `OnEmit` may wait for an export, behind the poll goroutine that waits for a
  `ForceFlush` that waits for room; a chunk that fails abandons the chunks after it;
  a queue smaller than 512 with no batch size configured never wakes the poll
  goroutine before its ticker.
- *Log record.* A value that replaces one of an earlier call is not limited
  (`record.go:216`), so a record may hold a longer text than the configured length, although
  "any string longer than this value will be truncated" (`provider.go:228`). A count limit of
  0 limits nothing (`record.go:228` tests for more than 0), although "setting this to zero
  means no attributes will be recorded" (`provider.go:210`). `LogAttributes` has both as the code
  does them. `AddAttributes` and `dedup` reorder the argument in place and `applyValueLimits` the lists and
  maps inside values, although "the passed slice must not be changed after it is passed"
  (`log/keyvalue.go:115`): a processor that adds the same slice to every record adds
  something else the next time, and a clone shares such values with its original. `back`
  is empty while `front` is full when there are exactly five attributes, against
  the invariant at `record.go:69`.
- *Span.* At the attribute limit a value that replaces an earlier one is not
  truncated (`span.go:299`). Two goroutines in `End` may both deliver `OnEnd`. A
  processor's snapshot shares the attribute array, so a value in it may still be
  replaced by a call that asked `IsRecording` before the end. A queue of events or links with
  capacity 0 counts its drops, but the snapshot reports 0; `NewestKept` says nothing of it.
- *Global meter.* An instrument that the SDK refuses keeps no delegate, the SDK then refuses
  its callback, and `registration.setDelegate` handles the error and takes `Unregister` of the
  nil registration all the same (`meter.go:354`). The panic leaves the meters after it without
  a delegate, for good, since the Once is done: `AllDelegated` says when this happens, and
  what holds otherwise. An instrument created while `setDelegate` runs, after the atomic load
  and before the lock (`meter.go:136`), never forwards to the SDK; `AllDelegated` speaks of
  those that were there before.
- *Periodic reader.* A collection that `Shutdown` cancels has reset the sums, fails to
  export and loses the interval, and `Shutdown` may still answer nil, although it
  "flushes pending telemetry" (`periodic_reader.go:304`): `gone` in `ShutdownDrains`. A failing callback loses
  the interval of every instrument (`pipeline.go:160`), with an error.
- *Exponential histogram.* The comment says a scale below -10 is possible only with a
  maximum size of 1 (`exponential_histogram.go:105`). With size 2 a subnormal and a number
  beyond 2^1023 need three buckets at scale -10: the second is counted and in no bucket.

## 8. Not modelled

The parts marked so in `PROJECT.json`, each with its reason: the start and stop of the
OTLP trace clients, the generated code, formatting, parsing, transport, configuration and the
values of the API, where a model would only repeat string handling. Within the modelled
components: logging, the wording of errors, contents of spans and records, a nil
exporter, the map of named tracers, cumulative temporality, exemplars, and the
placeholder tracer provider, which takes the same steps as the meter's under one mutex.
The SDK's registrations over instruments that a view drops or that belong to another meter are
not distinguished. The logarithm in `getBin` is exact in the model, where the code rounds
(`math.Log` in float64): a measurement next to a boundary of a scale above 0 may be counted
in the neighbouring bucket by the code.
