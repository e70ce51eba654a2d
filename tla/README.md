# rolly in TLA+

A verification development of [rolly](../src), a lightweight OpenTelemetry library for Rust:
TLA+ modules translated from its source, TLC runs that model-check small instances of them, and
theorems about them that the TLA+ proof system checks for every value of the constants.

Paths are relative to the repository: `src/exporter.rs:326` is line 326 of that file.

## 1. The system

A program calls `init()` once and keeps the guard it returns. Its threads then open and close
`tracing` spans, log events, and record metrics; rolly encodes them as OTLP protobuf and POSTs
them in the background.

```
 threads ──spans, events──> OtlpLayer ──send_traces/send_logs──┐
    │                                                           v
    └──add/set/observe──> MetricsRegistry                    Exporter ──bounded channel──> exporter_loop
                              ^   collect()                     ^                            │ batches
                              └── aggregation loop ─send_metrics┘                            v
 TelemetryGuard::drop ──flush(), shutdown()─────────────────────┘              export tasks ──POST──> collector
```

| Component | State | Operations | What makes it correct |
|---|---|---|---|
| **Exporter handle and channel** (`src/exporter.rs:31-161`) | a bounded tokio channel; `DROPPED_TOTAL` | `send_traces`, `send_logs`, `send_metrics` (never wait), `flush`, `shutdown` (wait) | a message is accepted or counted as dropped; no slot of the channel is lost; a call returns whatever happens to the loop |
| **Exporter loop** (`src/exporter.rs:171-319`) | three batches, a `JoinSet`, a semaphore, an interval | receive, batch, flush, shut down, tick | a flush is a barrier; a shutdown drains; each signal keeps its order; nothing is exported twice by the loop itself |
| **Export tasks** (`src/exporter.rs:326-399`) | a permit, a payload, the attempts made | acquire, POST, back off | at most `max_concurrent_exports` at once; exactly `RETRY_DELAYS` attempts; permits never leak |
| **Metrics registry and instruments** (`src/metrics.rs`) | three `RwLock`ed maps; per instrument a `Mutex`ed map of data points | get or create, `add`, `set`, `observe`, `collect` | no measurement is lost or counted twice; a snapshot is complete and each point whole; the cardinality limit; exemplars are reported once |
| **Init, guard, aggregation loop** (`src/lib.rs`) | the guard's exporter, the interval | `init`, `drop`, tick | what was sent before the drop of the guard is flushed by it; the drop ends while somebody drives the runtime |
| **OTLP layer** (`src/otlp_layer.rs`, `src/trace_id.rs`) | per span: ids, start, fields, in the span's extensions | `on_new_span`, `on_record`, `on_event`, `on_close` | a trace is sampled whole or not at all, by the trace id of its root; a span is sent once, complete, after its children |
| **Tower middleware** (`src/tower/`) | the state of a response future | `call`, `poll`, drop, header propagation | one duration and one status per answered request; a thread is in a request's span exactly while it polls it; a header names the span it was sent in |
| **USE metrics** (`src/use_metrics.rs`) | the previous CPU sample | tick, read `/proc/self/stat`, read `/proc/self/statm` | the differences add up to what the process used; a rate relates them to the time between the samples |
| **Protobuf primitives and encoders** (`src/proto.rs`, `src/otlp_*.rs`) | none | encode | what a decoder reads is what was encoded; concatenated requests merge |

### How they interact

Any number of threads call the exporter's handle; the loop is one tokio task, each export is
another, and the aggregation loop is a third kind. They share the channel, the semaphore, the
instruments' mutexes and the registry's locks. The guard's `drop` runs on a thread of its own
small runtime and calls `flush` and `shutdown` in this order. The runtime that `init` was called
on may go away under all of them: the loop and its tasks are then cancelled at an await point.

### What is hard

Interleavings of senders, flushes, shutdowns and export tasks; a queue at its limit; a loop that
ends under callers waiting for it; lost and late answers of the collector and the retries that
follow; a biased `select!` between a queue and a clock; threads that create the same metric; a
collection that takes one lock after the other while threads record; a panic under a mutex; signed
arithmetic on an unsigned counter; a drop that blocks on tasks of another runtime, which may be
driven by nobody; futures that change threads between polls with a span entered; nested lengths that
are known only after what they precede. `PROJECT.json` lists each at its line under "hazards".

## 2. The modules

| Module | Models | Kind |
|---|---|---|
| `Exporter` | handle, channel, loop and export tasks of `src/exporter.rs` | specification |
| `TelemetryPipe` | what an exporter promises its users | abstract specification |
| `ExporterRefinement` | `Exporter` implements `TelemetryPipe` | refinement mapping |
| `ExporterInv` | the inductive invariants of `Exporter` | invariant |
| `ExporterProofs` | its theorems, and that it implements `TelemetryPipe` | proofs |
| `MCExporter` | the above for TLC | instance |
| `MetricsRegistry` | registry, instruments, `collect` of `src/metrics.rs` | specification |
| `MetricsRegistryProofs` | its inductive invariants and theorems | proofs |
| `MCMetricsRegistry` | the same for TLC | instance |
| `OtlpLayer` | span and event callbacks of `src/otlp_layer.rs` | specification |
| `OtlpLayerProofs` | its inductive invariants and theorems | proofs |
| `MCOtlpLayer` | the same for TLC | instance |
| `TowerRequest` | requests of `src/tower/` over the spans of `OtlpLayer` | composition |
| `TowerRequestProofs` | its inductive invariants, over that of `OtlpLayer`, and theorems | proofs |
| `MCTowerRequest` | the same for TLC | instance |
| `UseMetrics` | the poll loop of `src/use_metrics.rs` | specification |
| `Telemetry` | `src/lib.rs` over `TelemetryPipe` and `UseMetrics` | composition |
| `TelemetryProofs` | the inductive invariants of both, and theorems | proofs |
| `MCTelemetry` | the same for TLC | instance |
| `Proto` | `src/proto.rs`, and a reader of its wire format (external) | operators |
| `OtlpMessages` | the encoders of `src/otlp_trace.rs`, `src/otlp_log.rs`, `src/otlp_metrics.rs` | operators |
| `OtlpEncoding` | writing in place, and concatenation | specification |
| `OtlpEncodingProofs` | its inductive invariants and theorems | proofs |
| `OtlpReader` | a collector's parser (external), and what it has to read | reference |
| `OtlpReaderProofs` | that it reads it | proofs |
| `MCOtlpEncoding` | the above for TLC | instance |
| `Induction` | sums, folds, extremes and sorted orders of finite sets, functions that recurse on numbers or on sequences, flattening | lemmas |

### Exporter

A telemetry message is the number of the call of `send_*` that offered it: the payload's bytes are
left out, its place in the order is kept. A payload is the sequence of messages that were
concatenated in it. Each element of `Flushers` and `Closers` is one call of `flush()` or
`shutdown()`.

| Code | Model |
|---|---|
| `tx`, `rx`: capacity, queue, senders waiting in `tx.send().await` | `slots`, `channel`, `waiters` |
| clones of `Exporter` alive | `handles` |
| where `flush()`/`shutdown()` is: waiting for a slot, owning one, awaiting the oneshot, returned | `call` |
| `exporter_loop`: in the `select!`, joining for a flush, joining for a shutdown, returned, cancelled | `loop`, `serving` |
| `trace_batch`, `log_batch`, `metrics_batch` | `batch` |
| spawned tasks, the `JoinSet`, the semaphore | `tasks`, `joinSet`, `permits` |
| `DROPPED_TOTAL` | `dropped` |
| (history) | `offers`, `mark`, `discarded`, `lost` |

Each arm of the loop's `select!` is one action (`RecvData`, `RecvFlush`, `RecvShutdown`, `Tick`)
that runs to the next await point, with the reaping of finished tasks that ends each iteration
(lines 314-317): the task does not yield in between. A wait for the `JoinSet` is an action of its
own (`FlushDone`, `LoopEnd`). `Send` is one atomic `try_send`. A `flush` takes a slot (`Call`) and
queues its message (`Enqueue`) in two steps, since other threads run in between, and `mark` records
which messages had been offered when it took its place in line. A freed slot goes to the first
waiter (`Pop`), as tokio's semaphore does.

An attempt ends well (`PostOk`) or not (`PostFailed`), and one that failed may have reached the
collector all the same: `copies` counts what the collector took, so that duplicates by retry are
in the model.

`RuntimeDropped` may happen whenever the loop is alive. The library cannot see it coming, and
`TelemetryGuard` uses the handle after it.

Abstractions. The interval's ticks are not timed: a tick may come whenever the loop finds the queue
empty, which includes every timing. The `select!` is `biased` towards the queue and the tick's
guard says so; a message that arrives between the two polls of one iteration could also have
arrived after the tick. The consumed first tick (line 193) has no effect on the state. The order in
which tasks get permits is left open. Constructors for tests and `reset_dropped_total` are left out.

### TelemetryPipe

The promise, in 91 lines without channel, batches or tasks: a sender never waits; a message is
pending, refused, settled or lost; an acknowledged flush settled all that was offered before it;
the pipe stops only when all that preceded a shutdown is settled, and loses nothing else.
`ExporterRefinement` maps the exporter's state to it (`Fate`, `CallState`, `Phase`), and the run
`exporter` checks `ImplementsPipe`, which `ExporterProofs` proves for every value of the
constants. Modules that use an exporter compose with this one and not with the 17 variables of
`Exporter`: what is shown of `Telemetry` over the pipe holds over the exporter.

### MetricsRegistry

| Code | Model |
|---|---|
| `counters`, `gauges`, `histograms` | `table`: metric (kind and name) to instrument |
| `Arc<CounterInner>`, ... | `instruments`, with the mutex's `holder` and its poisoning, `warned`, and `data` by key |
| a thread in `counter()`, `add()`, ... | `threads`: `pc`, metric, handle, and the measurement under way |
| the aggregation task in `collect()` | `collector`, `snapshot` |
| `overflow-checks` of the build | `overflowChecks` |
| (history) | `last`, `since`, `reported`, `collects`, `recorded`, `started` |

`Lookup` is the fast path under the read lock, `Create` the slow path under the write lock; both
are one step because nothing else happens under these locks, and the write lock waits for a
collector that reads the same map. A measurement captures its exemplar and its key before the lock
(`Capture`), takes the mutex, reads its entry and checks the limit (`Lock`), and writes the entry
back, or drops the measurement, and unlocks (`Record`, `Refuse`, `Panic`): two steps under the mutex,
so that a lock that did not exclude would lose updates, and let two new sets past the limit, in the
model as well. `collect()` visits the three maps in turn (`CollectBegin`,
`CollectNext`) and, under each map's read lock, each instrument under its mutex
(`CollectInstrument`).

`AsI64` is the conversion and the wrapping addition on `Width` bits; with overflow checks the
addition panics under the lock, which poisons the mutex, and the next `lock().unwrap()` panics,
be it a thread's or the aggregation task's.

Abstractions. `Hash` is any function from attribute sets to keys, collisions included. f64 values
are integers: NaN, infinities and rounding are left out. All metrics have the same cardinality
limit. A warning is the flag `warned`. A point is written in one step, and so never seen half updated.

### OtlpLayer

| Code | Model |
|---|---|
| `SpanFields` in a span's extensions | `spans[s].parent`, `trace`, `sampled`, `fields` |
| the span's slot, handles and references in tracing-subscriber's registry (external) | `spans[s].slot`, `held`, `Children(s)` |
| the spans a thread is in (external) | `stack` |
| a thread in `try_close` of a span | `closing` |
| calls of `send_traces` and `send_logs` | `output` |
| `export_traces`, `export_logs`, `sampling_rate` | `config`, chosen in the initial state |
| (history) | `events`, `spans[s].given` |

`NewSpan`, `Record`, `Event` and `Close` are the four callbacks. `DropHandle` and `Clear` are what
the registry does before and after `on_close`: the last reference gives the span to the thread that
dropped it; after `on_close` the slot is cleared, which drops the reference to the parent, which
may be the last one. These are separate steps since other threads run in between. A span is its
number, and so is its random span id (collisions of 64 random bits are left out). How a trace id is
given matters, and `Ways` keeps it: only `record_str` parses one.

`should_sample` compares the first eight bytes of the trace id with the rate: `Hash` and `Scale`
stand for `u64` and `u64::MAX`, and the zero trace id hashes to 0.

Abstractions. Fields are counted. A handle is one, not counted: dropping it is dropping the last
clone. A span is entered at most once by a thread. An event's explicit parent is left out, as
`on_event` ignores it. Spans that the `EnvFilter` disables never reach the layer.

### TowerRequest

| Code | Model |
|---|---|
| `RequestFuture` of a request: not called, waiting, in a poll, completed, panicked, dropped | `requests[r].at` |
| its `span`, and what the inner future answered | `requests[r].span`, `requests[r].result` |
| the rest of `poll` on a thread: `span.record` and the `tracing::info!` of the metrics | `work[t]` |
| (history) | `log`, `headers` |

It extends `OtlpLayer`: the span of a request is one of its spans, `span.enter()` its `Enter`, a
metric its `Event`. `Call` is `RequestService::call`, `PollBegin` the `enter` at the head of `poll`,
`PollPending`, `PollReady` with `RecordResult` and `EmitMetric`, and `PollReturn` the ways through
it, `PollPanic` an inner future that panics (the entered guard is dropped while the stack unwinds)
and `DropFuture` a client that goes away. Between two polls a future may move to another thread,
and in a poll the handler may open, enter and leave spans of its own, send requests through the
propagation layer (`Outgoing`), and call the service for another request (`Call`) and spawn its future;
the span of that request is then a child of the handler's current one. A future that is polled after it has completed panics: `Future::poll` leaves open
what happens then, and this is what the futures of `async` blocks do. An inner future that answers a
second time is not in the model, and would be counted a second time by the code.

`request_layer()` calls the inner service before it enters the span (`src/tower/request.rs:79`). A
propagation layer that is stacked with it, as README.md:131-132 shows, therefore reads the span of
the caller: `Traceparent(r, "stack", ...)` in `Call`, and the finding of `tower_headers_doc`.

Abstractions. A header is the span it names and its trace; its flags are always `01`. A request id
is any of `RequestIds`, missing or `-`; `Blake3` is any function. `poll_ready` only forwards. A handler that
calls the service does not await the future in its own poll: polls of two requests do not nest on a thread. Bodies,
paths and methods are fields of the span, which `OtlpLayer` counts.

### UseMetrics and Telemetry

| Code | Model |
|---|---|
| locals of `poll_loop`, its deadline and where it is | `poller` |
| the monotonic clock, the CPU ticks in `/proc/self/stat` (external) | `now`, `cpu` |
| (history) | `polls`, `samples`, `reports` |
| `TelemetryConfig`: which exports are on, is USE on | `config`, chosen in the initial state |
| the runtime `init` is called on: its flavour, and driven, idle or dropped (external) | `runtime` |
| `TelemetryGuard`: before `init`, held, in `flush`, in `shutdown`, gone | `guard` |
| `metrics_aggregation_loop` and what `collect` gave it | `aggregator` |
| measurements recorded in the registry | `recorded` |
| the exporter | the variables of `TelemetryPipe` |
| (history) | `contents`, `atDrop` |

`InitCall` is `init()` with its last event and the tasks it spawns, `Collect` and `SendMetrics` one
iteration of the aggregation loop, with other threads in between, `Polling` the steps of
`UseMetrics`, whose reports are events. `DropGuard`, `CommitCall`, `FlushReturns` and
`ShutdownReturns` are `TelemetryGuard::drop`. Where it runs matters: in a task, the guard's
`block_on` panics (`"panicked"`), and where its small runtime cannot be built it returns at once
(`"skipped"`). `Serve` is the exporter at work, which needs its runtime to be driven: a
`current_thread` runtime is only driven in `block_on`, which the program may leave (`LeaveRuntime`).

Abstractions. The exporter is the pipe that `Exporter` is checked to implement; the registry is the
number of measurements in it, as `MetricsRegistry` checks what a snapshot contains. A read of
`/proc` succeeds or fails. Time is a counter of the clock's resolution. `EnvFilter`, the fmt layer
and the construction of URLs are left out.

### Proto, OtlpMessages, OtlpEncoding, OtlpReader

`Proto` and `OtlpMessages` are pure: an encoder is the sequence of writes it makes, bytes or a
nested message with the writes of its closure. `OtlpEncoding` executes them on the buffer as
`encode_message_field_in_place` does: `OpenMessage` writes the tag and leaves `MaxLenBytes` for the
length, `WriteBytes` appends, `CloseMessage` writes the length and moves the body back over the
rest, or takes an empty message back with its tag; `Concatenate` is the draining of a batch into a
payload. `OtlpReader` is a parser written from the protobuf rules (scalars: the last occurrence
wins; messages merge; repeated fields append), and `Meant` is what it must return. `Allocating` is
`encode_message_field`, which has a buffer for each message and is compiled for tests and benchmarks
only: the reference that `src/proto.rs:115` compares the writing in place with.

`Request` is the set of all requests, by the Rust types of their parts; `Writes[d]` are the writes in
which messages are nested at most `d` deep, and a request's are in `Writes[Depth]`. Ids are arrays of
some bytes and so never empty (`Id`); a request has one span, one log, or a collection's metrics with
their points (`OneOrMore`), since `collect` leaves out a metric without points and the aggregation loop sends
nothing for a collection without metrics (`src/lib.rs:252`).

Abstractions. A group of a varint has `Base` values in place of 128 and a `u64` `FixedBytes` bytes in
place of eight, so that short messages cross the boundaries; an f64 is the number of its bits. An
attribute with an empty string or no bytes is written without its value, and reads as no value
(`MeantValue`). A status or an attribute that says nothing at all, neither a key nor a value, is an empty message,
which `CloseMessage` takes back: it is not read, and the others are, in their order (`MeantStatus`,
`MeantKeyValues`, `MeantAttrs`). The layer uses neither statuses nor values of type bool, double or bytes; the
encoders have them and so has the model. A body whose length needs more groups than `MaxLenBytes`
(2^35 bytes in the code, which panics there) is written with its length all the same, and `CloseMessage`
writes what `copy_within`, the length and the truncation leave behind: of the code, `InPlace` and
`RoundTripHolds` speak below 2^35 bytes.

## 3. What TLC checks

| Run | Question | Properties |
|---|---|---|
| `exporter` | Is anything lost, doubled, reordered or leaked, is a flush a barrier, does every call return and every message settle, is it a `TelemetryPipe`, and is the invariant of the proofs one? | `TypeOK` `OInv` `SlotsConserved` `ConcurrencyLimit` `MessagesConserved` `PayloadsInOrder` `BatchBelowSize` `FlushBarrier` `ShutdownDrains` `RetriesBounded` `QuietAfterEnd` `FlushReturns` `ShutdownTerminates` `SettlesWhenQuiet` `ImplementsPipe` |
| `exporter_conservation_doc` | Does the documented conservation law hold? | `DataConservation` (violated) |
| `registry` | Is a measurement lost, doubled or torn, or the limit exceeded? | `TypeOK` `NothingLost` `SnapshotComplete` `ExemplarsFresh` `CardinalityLimit` `MutualExclusion` `RefusedExactly` |
| `registry_live` | Does every measurement and every collection end? | `CollectEnds` `MeasurementsEnd` |
| `registry_monotonic_doc` | Is a counter monotonic? | `CounterMonotonic` (violated) |
| `otlp_layer` | Are trees of spans exported whole, once, children first? | `TypeOK` `TreesWhole` `SpanIsLast` `ExportedComplete` |
| `otlp_sampling_doc` | Does the same trace always get the same decision? | `SameTraceSameDecision` (violated) |
| `tower` | Are requests counted once and in their span, which no other work is in, and do headers name no other request's? | `RequestsCounted` `InSpanWhilePolled` `HeadersNameSpans` |
| `tower_headers_doc` | Does the documented stack of layers send the request's traceparent? | `StackNamesRequest` (violated) |
| `telemetry` | Does the drop of the guard flush and end, and do CPU reports add up? | `TypeOK` `DropFlushes` `DropReturns` `ReportsAddUp` `RateOverItsInterval` |
| `telemetry_guard_doc` | Does the guard flush what is pending? | `GuardFlushesPending` (violated) |
| `encoding` | Does a collector read what was encoded? | `TypeOK` `RoundTrip` `InPlaceMatchesAllocating` `OuterBytesKept` |

Every property that holds has a mutant in `PROJECT.json`: a plausible mistake in one definition
that the run then finds. The mutants stand next to the definitions they change, marked "Mutant".

### Bounds

*exporter*: two messages of two signals, one without a URL; a queue of one, so that it fills and
calls wait for slots; a batch of two, so that one waits for the interval, a flush or a shutdown, and
one fills; one permit, so that two export tasks queue for it; two attempts, so that one retry fails
and one succeeds; two flushes and one shutdown, in any order. Two messages and a flush are the least
for a barrier to be broken, two tasks and one permit for a permit to leak; the second flush waits
behind the first. A third message takes TLC beyond what is practical with the liveness properties;
longer runs are the theorems', as are batches of size 0 and 1 (`Sizes`).

*registry*: two threads (two suffice for a lost update and for a race to create), a counter and a
histogram with boundaries given unsorted and repeated, two attribute sets against a limit of one,
integers of three bits (3 + 3 overflows), two measurements, one collection. Threads are
interchangeable (symmetry; the run has no liveness). *registry_live*: three measurements on one
counter, two collections.

*otlp_layer*: two threads, three spans (a chain of three, or a parent with two children that close
on different threads), a field per span, an event, a trace that the rate samples out and spans
without a trace id, which it never does; traces only, logs only, or both.

*tower*: two threads and two requests, so that one thread polls both and one request moves; three
spans, so that one is a handler's own; two polls in all, so that one future waits or two are polled, the
second of which the handler of the first may have called; five events, which are the metrics of both requests;
one header of a handler, a good and a bad status, and requests that fail.

*telemetry*: runtimes of both flavours and guards dropped in both places, with all exports, metrics
only, logs with USE metrics, and none; two messages, so that one is flushed and one comes after;
two measurements, so that one is collected and one is not; three instants for an interval of one, so
that a tick is late and the next one comes at once.

*encoding*: groups of eight and `u64`s of two bytes of sixteen; log bodies of every length from 0 to
66, so that every enclosing length crosses 8 and 64, where the room of three groups is used up;
integers on both sides of each group and of the sign; every encoder, with and without exemplars,
attributes and status, and with attributes that say nothing among others; payloads of two requests.

`MaxSends`, `MaxMeasurements`, `MaxCollects`, `MaxSpans`, `MaxFields`, `MaxEvents`, `MaxPolls`, `MaxHeaders`,
`MaxTime`, `MaxTicks` and `MaxBatch` are the only bounds that the code does not have.

### Fairness

`Exporter!Fairness`: weak fairness of the loop and of every export task (tokio polls a task that
is ready; a POST ends since the client has a timeout of ten seconds, a sleep since time passes, the
interval ticks), and of a call that owns a slot (its own runtime polls it). No fairness of senders,
of callers, of dropping handles or of the runtime's end. The choice between a good and a bad answer
is not fair: the collector may fail for ever, and messages settle because retries are bounded.

`SettlesWhenQuiet` is about traffic that stops, as it does in the run after `MaxSends` messages. The
`select!` is biased towards the queue (`src/exporter.rs:196-198`): as long as messages of one signal
keep the queue from running empty, the interval (line 289) does not fire, and a partial batch of
another signal waits without end unless something flushes. What `docs/article.md:240` promises,
"buffers eventually flush", needs a pause in the traffic. A run with endless traffic would need a
model without histories; this one numbers every message, and the hazard is listed without a property.

`MetricsRegistry!Fairness`: weak fairness of a thread that holds a mutex and of the collector's
moves between locks. Waiting for a mutex has strong fairness: std's `Mutex` keeps no queue, so a
waiter gets it only because it is free again and again.

`Telemetry!Fairness`: the pipe serves and takes a call's place in line while the runtime is driven,
which is what `exporter` shows of `Exporter` (`SettlesWhenQuiet`, `FlushReturns`,
`ShutdownTerminates`; here too the messages are finitely many); and the guard's own runtime polls its two calls. Nothing is fair about the
program: it may keep the guard, leave the runtime, or drop it at any time.

`OtlpLayer`, `TowerRequest` and `OtlpEncoding` state safety only: a handle may be kept and a future
not polled for ever.

### Findings

* `verification/README.md:30` claims `dropped + in_channel + in_batch + in_flight + exported =
  total_sent`. A batch given up after its last attempt is in none of them
  (`exporter_conservation_doc`). `MessagesConserved` is the law that does hold.
* `src/metrics.rs:411` calls the counter monotonic; `value as i64` makes a large `u64` negative and
  the sum wraps (`registry_monotonic_doc`).
* `README.md:115` says that the same trace always gets the same sampling decision. The request
  middleware gives its span the trace id through Display (`src/tower/request.rs:74`), which the layer
  does not parse: the span has the zero trace id, which every rate above 0 samples
  (`otlp_sampling_doc`).
* `src/lib.rs:64` and `:95` say that the guard flushes pending telemetry on drop. It flushes the
  exporter; what was recorded in the registry after the last tick of the aggregation loop is
  collected by nobody (`telemetry_guard_doc`).
* `README.md:131-132` stacks `request_layer()` and `propagation_layer()`, the latter for "outbound:
  W3C traceparent injection". Neither order calls the propagation layer within the request's span
  (`src/tower/request.rs:79`, `src/tower/propagation.rs:46`): the header names the span of the caller,
  or there is none (`tower_headers_doc`). It works where a handler sends requests while it is polled.

Remarks that no run of their own stands for. `src/exporter.rs:150` says `flush()` "blocks until the
exporter has processed everything"; it also returns when the loop ends first, and its caller cannot
tell (`TelemetryPipe`: a call ends `done` or `aborted`). A utilization that follows a failed read
of `/proc/self/stat` relates the ticks since the last good sample to the time since the last poll,
and is too high (`RateOverItsInterval` states the bound that holds). A header that names a request's
span has the zero trace id, as that span's export has, by the cause of `otlp_sampling_doc`
(`HeadersNameSpans` asks that the two agree). A guard that is dropped where it cannot block
(`"panicked"`, `"skipped"`) makes neither call: `DropFlushes` says nothing of it, and no document does.

## 4. What is proved

Each theorem holds for every value of the constants that satisfies the named assumption of the module
it is about. The invariants were first checked by TLC on the instances of section 3 (`OInv` still is,
in `exporter`).

| Theorem | Statement | Argument |
|---|---|---|
| `Typing`, `Retries` (`ExporterProofs`) | `Spec => [](TypeOK /\ RetriesBounded)` | the two together are inductive: a task's failures stay within `0..MaxAttempts` only because `BackoffEnd` compares them |
| `Limit` (`ExporterProofs`) | `Spec => []ConcurrencyLimit` | inductive with `Typing`; cardinalities of `Holders` change by one with the permit |
| `Invariance` (`ExporterProofs`) | `Spec => []IInv` | `IInvInit`, `IInvStep` with one lemma per group of actions |
| `Slots`, `Barrier`, `Drains` (`ExporterProofs`) | `Spec => []SlotsConserved`, `[]FlushBarrier`, `[]ShutdownDrains` | parts of `IInv` |
| `Quiet` (`ExporterProofs`) | `Spec => QuietAfterEnd` | from `ClosedClean`: after the loop every task is finished, so no action that changes one is enabled |
| `OrderInvariance` (`ExporterProofs`) | `Spec => []OInv` | `OrderInv` is inductive relative to `IInv` |
| `Conservation`, `Ordered`, `Sizes` (`ExporterProofs`) | `Spec => []MessagesConserved`, `[]PayloadsInOrder`, `[]BatchBelowSize` | from `OInv` |
| `Refinement` (`ExporterProofs`) | `Spec => ImplementsPipe` | every action is a step of the pipe or a stutter under the mapping; the end of a flush and of a shutdown need `IInv` |
| `RegistryInvariance`, `RegistryTyping`, `Limited` (`MetricsRegistryProofs`) | `Spec => []RInv`, `[]TypeOK`, `[]CardinalityLimit` | `RInv` is inductive, see below |
| `Exclusion` (`MetricsRegistryProofs`) | `Spec => []MutualExclusion` | `OneHolder` and `HeldCheck` of `RInv`; that the entry read is still current is part of `DInv` |
| `Admitted` (`MetricsRegistryProofs`) | `Spec => RefusedExactly` | from `RInv` and `DInv`: by `SetsAreEntries` the keys of an instrument are those recorded under its name, and by `HeldCheck` what was decided is still so |
| `DataInvariance` (`MetricsRegistryProofs`) | `Spec => [](RInv /\ DInv)` | `DInv` is inductive relative to `RInv` |
| `EntriesAggregate`, `ExemplarsOnce`, `SnapshotsWhole` (`MetricsRegistryProofs`) | `Spec => []NothingLost`, `[]ExemplarsFresh`, `[]SnapshotComplete` | from both |
| `DropFlushed` (`TelemetryProofs`) | `Spec => []DropFlushes` | `DInv` is inductive, see below |
| `RateIsNeverTooLow`, `ReportsTelescope`, `TypesHold` (`TelemetryProofs`) | `Spec => []RateOverItsInterval`, `[]ReportsAddUp`, `[]TypeOK` | `UInv`, with `DInv` and the host's types, is inductive |
| `LayerInvariance`, `LayerTyping`, `SentLast`, `SentComplete` (`OtlpLayerProofs`) | `Spec => []LInv`, `[]TypeOK`, `[]SpanIsLast`, `[]ExportedComplete` | `LInv` is inductive, see below |
| `TreesTogether` (`OtlpLayerProofs`) | `Spec => []TreesWhole` | `WholeInv` is inductive; the root of a span by induction over its number |
| `InItsSpan` (`TowerRequestProofs`) | `TowerSpec => []InSpanWhilePolled` | `TInv` is inductive; for `LInv`, which it contains, the lemmas of the layer are cited |
| `HeadersOwn` (`TowerRequestProofs`) | `TowerSpec => []HeadersNameSpans` | `HInv` is inductive |
| `CountedOnce` (`TowerRequestProofs`) | `TowerSpec => []RequestsCounted` | `CInv` is inductive |
| `NestInvariance`, `MessagesNest`, `OuterBytes` (`OtlpEncodingProofs`) | `Spec => []NInv`, `[]TypeOK`, `OuterBytesKept` | `NInv` is inductive, see below |
| `InPlaceInvariance`, `InPlace` (`OtlpEncodingProofs`) | `Spec => []EInv`, `[]InPlaceMatchesAllocating` | `EInv` is inductive relative to `NInv` |
| `PayloadInvariance`, `RoundTripHolds` (`OtlpReaderProofs`) | `Spec => []PayloadInv`, `[]RoundTrip` | `PayloadInv` is inductive with `NInv` and relative to `EInv`, see below |

### The exporter: `IInv` and `OInv`

`ExporterAssumption` asks for finite, disjoint sets of calls, a positive capacity, concurrency and
number of attempts; batch sizes and sets of signals are free.

`FlushBarrier` speaks of a flush that has been acknowledged. It is not inductive: `FlushDone`
acknowledges when every task *in the JoinSet* is finished. The parts of `IInv` (module
`ExporterInv`) that it needs are

* `JoinSetCovers`: reaping forgets a task only when it is finished, so the `JoinSet` stands for all;
* `Covered`: an accepted message is in the queue, a batch, a task or a history set, so it cannot
  be missed by looking at those;
* `FlushServed`: while the loop joins for a flush, nothing offered before its mark is still queued
  or batched. That follows when the flush is popped from
* `QueueFollowsMarks`: data queued behind a flush was offered after its mark;
* `FlushQueued`: a flush is in the queue once, and its caller waits for it, so marks do not change
  under the loop;
* `OpenClean`: nothing is lost or cancelled while the loop is alive.

`ShutdownDrains` needs `StopServed` and `ShutdownQueued` in the same way. `ClosedClean` says what is
left after the end; `WaitersBlocked` is what `SlotsConserved` needs to count the waiters that get a
slot.

`Covered` says that a message is somewhere; `MessagesConserved` and `PayloadsInOrder` say that it is in
one place and behind what was sent before it. The order gives the one place: if everything that has
left the queue was sent before what is in it (`PoppedBefore`), and what is posted before what is in its
batch (`SignalsInOrder`), then the queue, the batches and the payloads cannot share a message.
`SignalsInOrder` is stated of any batches, since an iteration takes a message out of the queue and
into its batch before it may post the batch. `LostApart` and `DropsCounted` account for the rest.

### The registry: `RInv` and `DInv`

That a limit is respected depends on what a thread read under the mutex still being true when it
writes. `InstrumentShape`, `ThreadShape`, `CollectorShape` and `CountShape` type the parts and tie a
thread inside an instrument to the mutex's `holder`; with them `OneHolder` is inductive. `HeldCheck`
says that the limit is, until a thread writes, as the thread found it when it took the mutex: only the
holder adds a key, and the check and the write are two steps. `CardinalityLimit` needs it. The theorems cover gauges, poisoning and
wrap-around of any width; `Threads` has to be finite.

`DInv` relates the data to the history `recorded`. `Entries` says that the entry of a key is the
`Aggregate` of all the measurements recorded for it: a thread under the mutex still has the entry it
read (`ThreadOk`), and one measurement more changes the aggregate as `Updated` does, which is a lemma
for each kind of metric (a wrapped sum, a last value; buckets, sum, count and extremes for any list of boundaries).
Two metrics never share an instrument (`Handles`), which `Create` keeps because it looks again under
the write lock. `Fresh` says that an exemplar in an entry belongs to it and was not reported.
`Collecting` says what a collection under way has visited, by kind and then by instrument, and that
each point it took is the aggregate up to the moment it was taken.

### The guard: `DInv`

`DropFlushes` speaks of the guard's end. `CallsInTurn` says where the two calls are while it drops,
`FlushAnswered` that a flush which has returned left nothing pending that was offered before it, and
`NothingToSend` that without an exporter the pipe is unused; `PipeTypes` types the pipe. The proof
uses the pipe only, and `Refinement` carries it to the exporter.

### The poll loop: `UInv`

The loop keeps the instant of its last poll and the ticks of its last good sample, and only the first
moves when a read fails. `PollsInOrder` and `SamplesInOrder` tie both to the histories, and
`ReportsFollow` says that report `i` is about samples `i` and `i + 1` and the time since the poll before:
the sum telescopes (`SumOfDifferences`), and the time is at most that between the samples.

### The layer and its requests: `LInv`, `WholeInv`, `TInv`, `HInv`, `CInv`

A span is sent once because its slot moves from open over closing and closed to cleared, and sent
last because of how slots are counted: `SlotsCounted` says that a slot is open exactly while its
handle or a child refers to it, and closes on one thread. A span that closes keeps its parent open,
so the parent was not sent; a span that is entered is held (`EnteredHeld`), so neither was the one that a log
is in. `SentClosed` says that what was sent had closed, after which nothing is recorded.

`InSpanWhilePolled` needs that requests have spans of their own (`RequestsShape`), are polled by one
thread (`PollsExclusive`), and that a thread is in a span once (`EnteredOnce`), so that dropping the
guard leaves it. A request's span is new when it is created: nobody can be in it, by `EnteredHeld`.

`TreesWhole` compares each span with the root of its tree, however deep. A span is sampled as its
parent is (`Inherited`), parents have smaller numbers, and what is closed was sent exactly if it is
sampled (`ClosedSent`), as a log is whose span is (`LogsFollow`).

A header is true when it is sent and stays so, because a span's trace never changes and a request's
span stays its own (`HeadersTrue`): what a handler sends names the span the thread is in, which by `TInv`
is no other request's. `RequestsCounted` speaks of a request when nothing is left to record of it; `Tally` says
at every step that what was counted is what follows from the result less what the polling thread has
still to do (`Left`), which has no entry twice (`WorkOwn`).

### The encoders in place: `NInv` and `EInv`

`ProtoAssumption` asks for a base above 1 and positive widths, `EncodingAssumption` for requests of the
Rust types: of any number of items, attributes and points, with texts of any length.

The bytes of a message are in their place only if every message around it still begins where its
frame says. `Nests` has the open messages one inside the other in the buffer, and `Typed` has what is
left to write at each level nested no deeper than the level allows, which is why a body is typed when
it is opened. `OuterBytesKept` follows: a body moves between the tag of its message and the end of the buffer.

`InPlaceMatchesAllocating` speaks of a request that is written. `Progress` says what is in the buffer
before that: there are, for each level, the writes it has made (`done`), those it makes in all
(`whole`) and the bytes before its own (`base`), such that the buffer is `base` of the innermost level
and what `Allocating` makes of its `done` (`Based`), and `whole` is `done`, the message open in it and the rest
(`Planned`). Closing a message puts one more write into `done` of the level around it: its bytes are the tag, the length and
the body (`Patched`), or nothing at all if the body is empty, which is what `encode_message_field` does.

That the encoders make such writes is proved for each (`RequestIs`), as is that each writer makes bytes.
`EncodeVarint`, `TagGroups` and `BytePower` are recursive functions of numbers: their unfolding follows from `Recursion` of
`Induction`. `Writes` and `Allocating` recurse on a depth, and their values are no members of one set known
before; they are unfolded by an induction of their own (`WritesIs`, `AllocatingIs`).

### What a collector reads: `PayloadInv`

`RoundTrip` compares what two recursions make of nested messages: the encoder's, over a request, and the
reader's, over the bytes. By `InPlace` only the bytes with a buffer for each message matter. The proof, in
`OtlpReaderProofs` over the lemmas about the primitives in `OtlpEncodingProofs`, goes from the bytes up.

* The reader's functions are declared by recursion on what is left of a text. That they are functions follows
  from `SeqRecursion` of `Induction`, because a varint and a field take at least a byte
  (`VarintShortens`, `ReadFieldIs`); a malformed field ends the text.
* `ReadsAs(b, fs)`: the bytes `b` are the fields `fs`, *whatever follows them*. That is what lets bytes be joined
  (`ReadsBoth`), and what an empty length or a wrong group would break. `VarintReads`, `FixedReads` and
  `DelimitedReads` (at the end of `OtlpEncodingProofs`) show it of the primitives, for every number, base and width; a varint by
  induction over the number, a fixed64 as the sum of its digits.
* A reader asks for each field number on its own. `Sorted(fs, c)` has the fields `c[f]` of each number `f`, in their
  order, and `SortedAsks` says that every question about `f` is answered by `c[f]` alone. `Tells(d, w, S)` says
  of some writes that they are read as the sections `S`, a number and its fields each; a write more with a new
  number is a section more (`TellsMore`). Fields whose value is the default are sections without fields.
* Repeated messages are read without those that are empty (`MessagesAsk`, `RepeatedTell`), which is where the silent
  attributes go; `BlockFound` finds packed numbers again.
* With these there is one lemma for each message, from `AnyValueTells` to `RequestTells`, that says of any such message at
  any depth that it is read as it was meant, and whether it has bytes at all.
* `PayloadInv` says of the payload what `RoundTrip` says of it between two requests, in a form that a step
  keeps: it is read, whatever follows, as the requests of the batch, or as those before the one that is
  being written. `Concatenate` adds one field, with the bytes that `EInv` gives it.

What `RoundTrip` rests on beside the types is what the lemmas had to ask for: ids are not empty (a span or a
log all of whose fields are defaults would be an empty message and be dropped), and no metric is
without points and no request without items (an empty message is dropped, and the reader would have one item less). The
code keeps both, and the model's types now say so.

### Induction

The installed provers cannot instantiate the library's induction theorems, which take an operator. The
proofs about sums, folds and orders go through the least element of a set of numbers instead: a
formula that fails somewhere fails somewhere first. `Induction` has what follows from it for all
functions and finite sets: that sums exist and add up however a set is enumerated (`FoldFunction`), that finite
sets of integers have extremes, that they can be put in order, that a function which recurses on smaller
numbers or on shorter sequences is one (`Recursion`, `SeqRecursion`), and what a flattened sequence of
sequences is (`FlattenAdds`, `FlattenJoins`). `FlattenPairs` carries a relation that joining keeps through two
flattenings at once: that is how the induction over repeated messages is made.

### What is only model-checked

* All liveness: `FlushReturns`, `ShutdownTerminates`, `SettlesWhenQuiet`, `CollectEnds`,
  `MeasurementsEnd`, `DropReturns`. It is out of the reach of TLAPS, as is `ENABLED`.

Every safety invariant and action property of the passing runs is a theorem.

## 5. What is not modelled, and the plan

| Part | Why |
|---|---|
| BLAKE3 and UUIDs in `src/trace_id.rs` | A trace id derived from a request id is a constant function, a random one any element; hex is an identity of ids. |
| `EnvFilter`, the fmt layer and URLs in `src/lib.rs` | They belong to other libraries or only format; what a filter disables never reaches the layer. |
| `poll_ready` in `src/tower/` | It only forwards to the inner service. |
| Constructors for tests, `reset_dropped_total` | Test support. |
| `benches/`, `tools/`, `fuzz/`, `tests/` | Measurement and tests; tests are read as statements of intent. |
| `verification/` | The repository's own specifications; where one states a law of the exporter, `exporter_conservation_doc` compares. |

No run has a gauge: it shares every step with the counter except that a write replaces the value, and the
theorems of `MetricsRegistryProofs` cover it.

Next: a run of `Telemetry` in which the exporter is `Exporter` itself, for the bounds at which the product is
small enough.
