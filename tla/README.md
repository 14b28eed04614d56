# API observability platform: TLA+ models and proofs

This directory holds the formal models of the platform's event path: an HTTP
*collector* accepts log events and publishes them to a Kafka topic, a
*processor* reads the topic and writes points to InfluxDB, a *query API* (a
stub today) serves them. Every definition is translated from the Go source
under `src/`; `PROJECT.json` maps each one to its lines.

```
 clients ──HTTP──> collector: handlers → bounded channel → workers ──Publish──> Kafka topic
                                                                                  │ FetchMessage
 query API (stub)        InfluxDB <──WritePoints── processor: fetch goroutine → Run loop
                                                                                  │ CommitMessages
                                                                                  └──> consumer group offsets
```

Run a model with `tlc -config MCCollectorSafety.cfg MCCollector.tla` (one line
per run below) and a proof module with `tlapm CollectorProofs.tla`.

## 1. Inventory

| Part | State | Operations | Interacts with | What is hard | What makes it correct |
|---|---|---|---|---|---|
| **Collector service** `internal/app/collector/service.go`, `config.go`, router, `cmd/collector/main.go` | channel `ch`, closed or not, drop policy, job in each worker, prometheus counters | `Ingest`, `enqueue` (two drop policies), `workerLoop`, `handleJob`, `Shutdown`, main's stop sequence | handlers and workers share the channel; workers call `Publisher`; main closes the channel under both | handlers that evict race workers that receive; a select on a closed channel; check-then-close; three waits with different deadlines | every accepted event is settled exactly once; counters agree with answers; a graceful stop loses nothing; shutdown ends |
| **Buffer pool** `pool.go` | `sync.Pool` of byte slices | `Get`, `Put`, `ReadBodyIntoPool` | handlers | a pooled buffer reused while a job still refers to it | no job ever sees another request's bytes |
| **Kafka publisher** `internal/infra/kafka/publisher.go` | kafka-go `Writer`: pending batches | `Publish`, `Close` | workers, broker | `Async` returns before the broker answers; a deadline races a late append | published means appended, or the exception is known |
| **Processor** `internal/app/processor/runner.go`, `cmd/processor/main.go` | batch `buf`, channel `outcomes`, ctx, ticker | `Run`: fetch, tick, flush, poison messages, final flush | Kafka reader and group, storage; other replicas through the group | crash between write and commit; rebalances with a batch in hand; partial writes; poison messages; cancellation in mid-flush | at-least-once: the committed offset never passes an event that is not stored; nothing waits for ever |
| **Influx storage** `internal/infra/storage/influxdb/storage.go` | the bucket | `WritePoints`, point by point | processor | one point of many fails; a lost answer | it says what it did |
| **Kafka reader and group** (kafka-go, external) | committed offsets, assignment, positions | `FetchMessage`, `CommitMessages`, rebalance | processor replicas | late commits of former owners | (assumed, see `Runner`) |
| **Runtime helpers** `internal/infra/runtime/shutdown.go` | none that the commands use | `NotifyContext`, `DefaultShutdownTimeout`; `HTTPServer` and `WaitGroupClose` have no caller | command mains | | |
| **Command mains** `cmd/*/main.go` | server, timers, settings | start, listener failure, signal, the waits of a stop | the pod's grace period | goroutines nobody waits for; a listener that failed while main waits for a signal; waits that add up to more than the grace period | a signalled process ends; a kill in mid-stop needs a grace period that is too short |
| **HTTP metrics, registries** `internal/infra/metrics` | histograms, counters that nothing reads back | middleware | handlers | | |
| **Parser, domain types, query stub, deployment** | none | | | | |

`PROJECT.json` lists the components with what is modelled of each, and the
hazards, each at the line where it bites and with the properties that watch it.

## 2. Modules

| Module | Kind | Models |
|---|---|---|
| `IngestContract` | abstract | what becomes of an event handed to `Ingest`: refused, or held and then published or dropped; a graceful stop closes the intake once nothing is held, a kill loses exactly what was held |
| `Collector` | detailed | handlers, channel, workers, counters, shutdown |
| `MCCollector` | TLC | symmetry for the collector's runs |
| `CollectorProofs` | proofs | the inductive invariant, the safety theorems, what the two drop policies promise |
| `CollectorContractProofs` | proofs | `Collector` implements `IngestContract!Safety`; the wait for its workers only gets shorter |
| `DeliveryContract` | abstract | at-least-once delivery: offsets pass settled messages only |
| `Runner` | detailed | processor replicas, consumer group, storage |
| `MCRunner` | TLC | symmetry for the runner's runs |
| `RunnerProofs` | proofs | the inductive invariant of the processor, the losses it allows, the bound of a batch |
| `RunnerDeliveryProofs` | proofs | `Runner` implements `DeliveryContract!Safety`; at-least-once delivery through outages; offsets that only advance |
| `KafkaWriter` | detailed | `Publisher` over the kafka-go Writer: batches, retries, acknowledgements, `KAFKA_ASYNC`, `Close` |
| `KafkaWriterProofs` | proofs | published means appended; what may become of an event handed over; the order of the topic under retries; a `Close` that uses its attempts up |
| `Pipeline`, `MCPipeline` | composition, TLC | the two contracts joined by `KafkaWriter`'s topic: from an accepted request to the storage |
| `PipelineProofs` | proofs | the composition drives the Writer as it expects; what was published is never skipped; a graceful stop accounts for every event |
| `IngestPath`, `MCIngestPath` | extension of `Collector`, TLC | `Collector` with the buffer pool and `IngestBatch` around `enqueue` |
| `IngestPathProofs` | proofs | the collector's invariant with pool and batch; payloads stay intact, batches in order |
| `Lifecycle`, `MCLifecycle` | detailed, TLC | the commands in time: listeners, timers, signals, grace periods |
| `LifecycleProofs` | proofs | what is closed after what, and how long a stop takes at most |

A detailed module holds its parameters as CONSTANTS with a named assumption,
one action per operation, its properties, and directly before some actions a
variant (`WorkerExitEarly`, `HandleEvent_OffByOne`, ...). The variants belong to
no behaviour: each is a plausible mistake in the code, and substituting it must
make TLC refute the property it is listed with in `PROJECT.json`. They are how
we know that a property watches the code.

### Collector

A *request* is one call of `Ingest` and the event it carries. A step is what a
goroutine does between two points at which another can interfere.

| Code | Model |
|---|---|
| handler of `POST /v1/ingest`, `ingestWithSource` (`router.go:28-44`, `service.go:75-107`) | `Arrive`, `BodyUnreadable`, `RejectEmpty`, `CopyPayload`, `CountIngest`; `pc[r]` is the place in the handler, then the status answered |
| `enqueue` (`service.go:109-147`): nested selects with defaults | `Enqueue` (outer select), `DiscardOldest` (receive of the oldest or default), `Retry` (second send); three separate steps, since handlers and workers run between them |
| send on a closed channel: panic, `gin.Recovery`, 500 | `SendPanics` |
| receive from a closed, drained channel: the zero job, counted as a drop | `EvictNothing`, variable `phantom` |
| `workerLoop`, `handleJob` (`service.go:168-194`) | `TakeJob`, `ParseFails`, `ParseSucceeds`, `PublishFails`, `PublishSucceeds`, `WorkerExit` |
| `main` (`cmd/collector/main.go:77-105`) | `StopSignal`, `HttpDrained` / `HttpTimeout`, `DrainPoll` / `DrainTimeout`, `CloseChannel`, `WgWait`, `ClosePublisher` |
| SIGKILL, OOM | `Kill`, possible at any point |
| prometheus counters | `ledger[r][label]`, per event, so that one counted twice and one not at all do not cancel out |

`httpTimedOut` and `overtaken` are history variables: no guard reads them.
Abstracted: the bytes of payloads and the fields of events, source labels,
logging, durations (a timeout may fire at any point of the wait it bounds). A
publish is one step with either outcome; what Kafka does behind it is left to
`KafkaWriter` (below). `EvictHead` receives and counts in one step
(`service.go:119-120`): no goroutine reads the counter, so the window between the
two lines could show only in the last values of a process that is gone, when a
kill, or the end of a main whose `srv.Shutdown` timed out, falls into it.

### Runner

A message is a pair `<<partition, offset>>`. The topic is fixed, for a message
produced later is one fetched later; the storage is a set, since a point written
twice has the same measurement, tags and time and replaces itself.

| Code | Model |
|---|---|
| fetch goroutine, `outcomes` (`runner.go:74-87`) | `FetchMessage`, `FetchFails`; `out[r]` is the channel with the fetch that waits to send |
| `select` of `Run` (`runner.go:89-131`): any ready case | `ContextDone`, `Tick`, `HandleError`, `HandleEvent`, `HandlePoison` |
| `flush` (`runner.go:48-72`) | `BeginFlush`, then `WritePoints`, then `CommitSucceeds` / `CommitFails`; every place another replica, a crash or a signal can interfere is between two steps |
| `WritePoints` (`storage.go:27-48`), one call per point | `PointAccepted`, `PointRefused` (stored or not: the answer may be lost), `WriteReturns`, `WriteFails` |
| final flush and return (`runner.go:91-95, 101-105, 114-116`) | `"finalWrite"`, `"finalCommit"`, `"returned"`, `Exit` |
| kafka-go reader and broker (external) | `owner`, `pos`, `committed`; `Marks` is what `CommitMessages` makes of a batch; `Rebalance` starts every partition at its committed offset and leaves the batches of members alone, so a former owner may write and commit late |
| crash, SIGTERM, restart | `Crash`, `Signal`, `Start` |

`Faults` names what may go wrong: `"poison"` (a message that does not
unmarshal), `"point"` (the storage refuses any point), `"outage"` (the storage
refuses whole batches, the broker fails commits, with or without effect),
`"signal"` (SIGTERM). Crashes and rebalances are always possible, up to
`MaxStops`. `refused`, `passed` and `failed` (the last flush failed) are history
variables.
`defaultproc.go` never returns an error, so the branch `runner.go:120-123` is
unreachable and left out. The noop storage is left out.

### KafkaWriter and Pipeline

`handleJob` publishes one event per call, so an event stands for its call. The
Writer and the broker are external; they are modelled by what `publisher.go`
configures and by what kafka-go does with it.

| Code | Model |
|---|---|
| `NewPublisher`: `RequireAll`, `LeastBytes`, `BatchSize`, `BatchTimeout`, `Async` (`publisher.go:20-47`) | `WriterInit`; any partition may be chosen; a batch is closed by `Full` or `BatchTimer` |
| `Publish` (`publisher.go:50-60`) | `Publish`, `PublishRefused`, `Return`; with `async` the call returns at once |
| the 30s of `handleJob` (`service.go:184`) | `Deadline`: the call fails, the batch stays in its queue |
| one goroutine per partition, one batch at a time | `queue[p]`, `Acknowledged`, `AttemptFails` (appended or not; repeated or given up) |
| `Close` (`publisher.go:62-65`) | `Close`, `CloseReturns` |
| SIGKILL | `WriterKilled`: batches are lost, the topic stays |

`result` is what the Writer knows of an event's batch, `call` what the caller was
told; with a deadline or `async` they differ, and that is where the hazards are.
`handed` is a history variable.

`Pipeline` puts `IngestContract` in the place of the collector and
`DeliveryContract` in that of the processor: its actions are written with theirs,
and `Collector` and `Runner` are shown to implement them. Two ties are the
composition's own: `Counted` (`handleJob` counts an event as published exactly when
`Publish` returned nil) and `ClosePublisher`, the contract's `CloseIntake` and the
Writer's `Close` in one (`wg.Wait` has returned, `pub.Close` is called). From
`CloseIntake` on the contract admits nothing, which the collector owes to its closed
channel; so no event is accepted that would meet a closed Writer.
The processor sees a copy of an event for every copy in the topic. json.Marshal
cannot fail for an event the parser produced, so that return is left out.

### IngestPath

Everything of `Collector` is reused as it is; `CopyPayload` is split into the
steps of `copyPayload`, between which other handlers use the pool.

| Code | Model |
|---|---|
| `bufferPool.Get`, `buf.Reset` (`pool.go:21-23`, `service.go:99-101`) | `Get`: any buffer of the pool, or one that nobody refers to |
| `buf.Write`, `make`, `copy` (`service.go:102-104`) | `Write` (the array may grow past `maxPooledBufferCap`), `Copy` |
| deferred `Put` (`pool.go:25-37`) | `Put`; a garbage collection is `PoolDrained` |
| `IngestBatch` (`service.go:158-166`) | `BatchArrive`: the next event after a 202 |

Memory is a set of arrays, and the content of an array is named after the request
whose bytes it holds; `Mixed` is what a write into a used buffer leaves.
`IngestBatch` has no caller in the repository: its caller is taken to be a
handler, which `srv.Shutdown` waits for. `ReadBodyIntoPool` has none either;
`PoolSound` states what it relies on.

### Lifecycle

The stop of a command in discrete time. `Tick` passes one unit for every timer
and only when nothing is `Due`; jobs and handlers may take any time up to their
deadline, if they have one. The interleavings of a stop are `Collector`'s; here
the channel is a number.

| Code | Model |
|---|---|
| `CHANNEL_CAP`, `DROP_POLICY`, `NewService` (`main.go:32-33`, `service.go:39-53`) | `Settings`, `NewService`: a capacity that is not positive replaces the whole configuration |
| `ListenAndServe` and its errors (`collector/main.go:77-90`, `query-api/main.go:41-46`, `processor/main.go:61-71`) | `Listens`, `AcceptFails`, `ServerError` |
| `srv.Shutdown` with its timeout | `BeginShutdown`, `Drains`, `TimesOut` |
| `svc.Shutdown` (`service.go:196-214`) | `DrainEnds` (half the timeout), `WorkersDone` (no timeout) |
| processor (`processor/main.go:73-88`) | `RunReturns` on the signal, `RunFails` when the commit of a poison message fails (`runner.go:114-116`), and beside them `MetricsShutdown`, which nobody waits for |
| kubelet | `Sigterm`, `Kill` when the grace period is over |

After the signal the processor's `Run` is taken to return at once, since its
writes and commits use the cancelled ctx.

## 3. Runs

| Run | Bounds | Shows |
|---|---|---|
| `MCCollectorSafety` | 3 requests, 2 workers, capacity 1, both policies | `Conservation`: an enqueued event is in one place and settled once. `LedgerExact`: counters agree with answers. `NoSilentLoss`: a graceful stop settles everything, whichever timeout fired. `CleanDrainNeverPanics`, `PublisherOutlivesWorkers`, `DropNewestKeepsAccepted`, `RetryFailsOnlyIfOvertaken`; `WaitProgresses`: during `wg.Wait` the work left only shrinks |
| `MCCollectorLive` | 2 requests, 2 workers, capacity 1, no symmetry | `ImplementsContract` with liveness, `ShutdownTerminates`, `EveryRequestAnswered` |
| `MCCollectorPanic` | 2 requests, 1 worker | **refutes** `RequestsNeverPanic` |
| `MCRunnerSafety` | 2 replicas, 1 partition of 2 messages, batches of 1 that grow to 2, every fault, 2 stops | `OnlyKnownLosses`, `KeepsUntilWritten`, `BatchBounded` |
| `MCRunnerDelivery` | 2 replicas, 2 partitions of 2, batches of 2, outages, 1 stop | `CommitOnlyStored`, `OffsetsAdvance` |
| `MCRunnerLive` | 1 replica, 3 messages, batches of 2, outages and signals, 2 stops, no symmetry | `ImplementsDelivery` with liveness, `TopicDrains`, `SignalledReplicaLeaves` |
| `MCRunnerPoison` | 2 replicas, 2 messages, 1 stop | **refutes** `NothingLost` |
| `MCRunnerCut` | the same, no fault but one signal | **refutes** `NothingLost` |
| `MCRunnerFinal` | 1 replica, no fault but one signal | **refutes** `FinalFlushWrites` |
| `MCPipeline` | 2 events, 2 partitions, batches of 2, 2 attempts, with and without `KAFKA_ASYNC` | `PublishedIsAppended`; `LossAccounted`: with `async`, the only ways an event that was counted is not in the topic; `AppendedInOrder`: retries repeat a batch, within a bound, and reorder nothing; `PublishedIsNotSkipped`: what was counted is stored or still ahead of the group; `StopAccountsForAll`: after a graceful stop that is so of every event that was not counted as dropped; `AcceptedReachesStorage`; `CloseEnds`, and `CloseProgresses`: every attempt brings `Close` nearer to its end |
| `MCIngestPath` | a batch of 2 and 1 request beside it, 2 buffers, capacity 2, 1 worker, both policies | `PayloadIntact`: no job sees another request's bytes; `PoolSound`; `BatchInOrder`: what is enqueued of a batch is a prefix, in its order |
| `MCLifecycle` | 3 commands, timers of 3 / 2 / 1, grace periods 0, 3, 4, 11, 12, 4 handlers | `KilledOnlyWhenGraceTooShort`: a stop takes at most `StopTime`; `HandlersGoneBeforeClose`; `SignalledProcessEnds`; `FailedListenerEndsProcess` |

*Why these bounds.* Every race on the collector's channel needs at most three
parties beside main: the event in the only slot, the handler that evicts it and
the handler or worker that takes the freed slot or the event. A capacity of one
makes full and empty one step apart; the theorems hold for any capacity and any
number of requests and workers. In the runner two replicas are what a hand-over
needs (former and new owner), two messages are an event and the one that passes
it, and two partitions let a commit mix them. A batch of three messages and
`BatchMax` two leaves the incomplete batch that only the ticker writes.
`MaxHeld` and `OutCap` bound what a replica holds; `MaxStops` bounds crashes,
signals and spontaneous rebalances. Liveness uses one replica: with two the
behaviour graph is out of reach, and the hand-over is in the safety runs.

Two events can meet in one batch, in two batches of a partition, or in two
partitions; one retry is enough to repeat a batch behind another one. The events
of a batch are ingested one after the other, so that at most two of the three
handlers of `MCIngestPath` hold a buffer at once, and two buffers suffice. The
units of `MCLifecycle` keep what matters of the real durations: a drain of half
the timeout, publishes shorter than that, and a grace period of 4 against a
timeout of 3 as 60s are against 45s. The bound `StopTime` is tight: with a
channel of three and two workers the collector is killed at a grace period of 11
and never at 12.

*Deadlock* is checked in every run; the collector's `Gone` says that nothing
follows the end of the process.

### Fairness

*Collector.* Weak fairness of each handler, each worker and of main's shutdown
steps: the Go scheduler runs what is runnable, `Publish` returns within its 30s
deadline (`service.go:184`), `ReadAll` within `ReadTimeout`, and main's waits
end by their timers, except `wg.Wait`, which ends because the workers do. No
fairness for requests, signals or kills.

*Runner.* Strong fairness of each case of the select (Go picks among the ready
cases at random), of a fetch, of an accepted point and of a successful commit
(an outage ends, what is retried for ever succeeds); weak fairness of the loop,
of the exit and restart of a replica and of a pending rebalance. None for
crashes, signals and failures. Fairness of this kind does not help a single
attempt: a write may fail any number of times.

*Pipeline.* Weak fairness of what its contracts promise (a held event is
published or dropped, a message of the topic is settled), of each Writer
goroutine and of main's return from `Close`. The broker need not acknowledge:
a batch is given up after `MaxAttempts`.

*Lifecycle.* Weak fairness of main, of the clock, of a kill that is due and of a
worker that finds a job. No handler has to return and no job has to end before
its deadline; with a grace period of 0 nobody kills the process.

## 4. Proofs

The theorems hold for every value of the constants that satisfies the named
assumption of the module they are about. TLC evaluates each of them on a run;
this is what they ask and why the code meets it:

- `CollectorAssumption`: any set of requests, any non-empty set of workers, a
  capacity of at least one (`NewService` replaces any other by its default), any
  set of drop policies.
- `PathAssumption`: `Batch` is a sequence of different requests, for each event
  of a batch is a call of its own; buffers are not requests.
- `IsFiniteSet(Workers)`, in `WaitOnlyShrinks` only, which counts the workers at
  each place: `NewService` starts as many as an int says (`service.go:43-47, 63-66`).
- `WriterAssumption`: batches and attempts of at least one, as the Writer's
  defaults are. Events and partitions are any sets; only `PipelineAssumption`
  asks that the events be finitely many, which bounds the offsets.
- `RunnerAssumption`: a `BatchMax` (`Run` replaces one that is not positive by
  500, `runner.go:33`) and an `OutCap` of at least one; any replicas and
  partitions; any numbers in `MaxOffset`, `MaxHeld` and `MaxStops`.
- `LifecycleAssumption`: at least one CPU (`NumCPU`), a positive default capacity
  and publish deadline, any natural numbers as the other durations, any
  integer as the capacity that is set. Its commands are the three of the
  repository.

**`CollectorProofs`.** The safety properties are not inductive by themselves.
`IndInv` adds what they rest on:

- `HoldsWhileBusy`: a worker holds a job exactly while it parses or publishes
  it. `Conservation` needs it to know that a worker that finished lets go.
- `ClosedLast` and `ExitedDrained`: the channel is closed only by main's
  `close` step, and a worker exits only from a closed and empty channel, which
  stays empty because a send on it panics. `NoSilentLoss` follows: when main
  has passed `wg.Wait` all workers have exited (`PublisherOutlivesWorkers`),
  hence nothing is buffered and nothing is held.
- `DrainedQuiet` and `NeverPanicked`: once `srv.Shutdown` returned nil no
  handler runs again, so none meets the closed channel.

`Inductive` proves `Spec => []IndInv` by one lemma per action;
`TypeCorrect`, `EventsConserved`, `CountersExact`, `GracefulStopLosesNothing`,
`DrainMakesCloseSafe` and `PublisherClosedLast` are its corollaries.

Two more properties each have an invariant of their own on top of `IndInv`. Under `drop_newest` no handler is ever at the eviction
or the retry (`NobodyEvicts`), so only its own refusal drops an event:
`NewestNeverEvicted`. Under `oldest` a handler that evicted left a free place,
and only another handler's send can fill it (`RoomMade`): `EvictionNotWasted`.

**`CollectorContractProofs`.** `ImplementsSafety`: under the mapping `Fate` (read
from the handler's place and the ledger) and `Life`, the initial state is the
contract's, and every step is a step of the contract or a stutter. A successful
send is `Admit`, an eviction or a failure `Drop`, a publish `Publish`; a worker
that takes a job changes nothing. The end of `wg.Wait` is `CloseIntake`: workers
that all exited hold nothing and left a closed and empty channel
(`ExitedSettled`), and on that channel no late handler can admit anything.

`WaitOnlyShrinks` proves the safety core of `ShutdownTerminates`, at the one wait
that has no deadline. `WorkLeft` counts the steps the workers still have to take:
three for every buffered event (take, parse, publish), and up to three more for a
worker at each place. The channel is closed all along (`WaitClosed`), so a handler
that outlived `srv.Shutdown` panics instead of adding to it, and an eviction by such
a handler only takes away. Every step of a worker makes the number smaller; what
fairness has to add is only that a worker which can take a step does.

**`RunnerProofs`.** `OnlyKnownLosses` is not inductive: a commit moves the offset
to the highest one of the batch, and the property says nothing of what is below
it. `IndInv` adds why nothing there is forgotten:

- `BatchCovered`: every offset up to that of a buffered message is settled or in
  the same batch. It holds for former owners too, which is why their late
  commits are harmless.
- `OutCovered`, `OwnedCovered`: the same for the outcomes not yet handled (up to
  each, in order) and for the position of the reader, so that a fetched message
  may join the batch and the next one may be fetched. They are not claimed of a
  replica that has `"returned"`: when the commit of a poison message fails, `Run`
  has taken the message off the channel and leaves, with a gap in what it holds.
- `SettledFirst`: a batch is stored or refused before it is committed.
- `DownIsEmpty`: a replica that is gone owns nothing, so a rebalance starts new
  owners at the committed offset, below which everything is settled.
- `FlushedWhenFull`: below `BatchMax` in the select unless a flush has failed.

Each action has a lemma for the replica that takes it; one frame lemma
(`ReplicaFrame`) serves all the others. `LossesKnown` and `BatchesBounded` follow.

**`RunnerDeliveryProofs`.** `ImplementsSafety`: with `settled` as what is stored,
refused or passed, every step is a `Commit` of the contract, if only of the
offsets as they are. `NothingDropped` proves the action property
`KeepsUntilWritten`: only `CommitSucceeds` empties the batch of a live replica, and
`SettledFirst` says what it may forget. `AtLeastOnce` assumes
`Faults \subseteq {"outage"}` and proves `CommitOnlyStored`: nothing is given up,
since a write that has an accepted point has stored every point it tried
(`WholeWrites`). `OffsetsOnlyAdvance` assumes `"poison" \notin Faults` and proves
`OffsetsAdvance` through every other fault. Until the first stop (`Calm`) a
replica holds messages of its own partitions only (`OwnOnly`); what it has fetched
and not handled lies past the committed offset and past its batch, in order
(`OutAhead`); and a batch that has anything of a partition reaches at least its
committed offset (`BatchAhead`), so that the highest offset of the batch, which is
what a commit marks, never lies behind. A poison message breaks the last part
(section 5), hence the assumption.

**`KafkaWriterProofs`.** For any events, partitions, batch size and number of
attempts, from `WriterAssumption`. `PublishedIsAppended` is not inductive: a call
returns nil because of its `result`. `WInd` adds `AckedIsAppended` (an
acknowledged event is in the topic), `PendingIsHeld` (an event whose batch is
neither acknowledged nor given up is in a batch, unless the process was killed)
and `ClosedIsEmpty` (a closing Writer fills no batch, a closed one has none).
`PublishedMeansAppended` and `CloseLeavesNothing` follow. The module begins with
what `Append`, `\o` and `Tail` do to the elements of a sequence.

`AppendedInOrder` compares the topic with the order in which events were handed
over, of which the queue of batches is all the Writer still knows. `Rows` says
for each partition how the two fit together. `Layout`: there are places `cut[i]`
at which the batches of the queue, and then the open batch, continue the
sequence `handed`. `Behind`: the topic has nothing of what lies after the first
batch, and of the first batch everything or nothing, the latter because the
answer to an attempt may be lost. So a repetition appends only copies of what
is there and changes no first copy, while a first attempt comes after all that
is there: `Ordered`. `Tried` and `Bounded` count the copies: those of the first
batch by its attempts so far, those of earlier batches by `MaxAttempts`.
`OrderInductive` proves `Rows`; `WriterTypeCorrect` and `FirstCopiesInOrder` follow.
TLC checked `Rows` on three events and two partitions before it was proved.

`CloseOnlyShrinks` is to `CloseEnds` what `WaitOnlyShrinks` is to
`ShutdownTerminates`: while `Close` waits no batch is open and none is added, and
`AttemptsLeft` of a partition, `MaxAttempts` for each batch without those used, falls
with every attempt, whether the broker has the batch or not. It is 0 exactly
when the queue is empty, that is, when nothing keeps `Close` from returning. That
needs the bound on `tries` in `Rows`, and `IdleUntried`: an empty queue has no
failed attempts.

**`PipelineProofs`.** `PipelineUsesWriter`: every behaviour of the composition is
one of the Writer's, so its theorems hold end to end
(`PathKeepsWriterPromises`: types, order, published means appended, no other
loss, a `Close` that comes to its end).
`PublishedNeverSkipped` adds `CountedReturned` (an
event is counted as published only when its `Publish` has returned nil, and that
answer is final) and `OffsetsBehind` (the contract's commits).

`GracefulStopAccountsForAll` is the end-to-end theorem of a stop. `EndsTied` joins
the ends of the two halves: from `CloseIntake` on nothing is held, a stopped process
has a closed Writer, and only a kill loses an event. `OkHasResult` says that nil is answered for
nothing the Writer was not given. A published event that has no copy in the topic
was then handed over (`OkHasResult`), so by `LossAccounted` it is in a batch, which a
closed Writer has none of, or its batch was given up; and the latter only with
`KAFKA_ASYNC`, for otherwise `PublishedIsAppended` applies. A copy in the topic is
settled or ahead of the group by `OffsetsBehind` (`CopySettledOrAhead`).

**`IngestPathProofs`.** `IngestPath` takes more steps than `Collector` on the way to
`enqueue`, so `PathInv` starts from the collector's `IndInv`, which every step
preserves here as well (`PathConserves`: `Conservation` and `NoSilentLoss` survive
pool and batches). It adds:

- `Copies`: what `copyPayload` holds and has written at each of its stages. A
  fresh buffer is not `used`, a written one has this request's bytes, and from
  the copy on the payload is an array of the request's own, to which no pool
  refers. With `PoolSound`, that nobody shares a buffer, this is
  `PayloadIntact`: another handler's `Write` never hits the array of a job.
- `ChannelInOrder`: the events of a batch that are in the channel are there in
  the order of the batch. Receives, by workers and by evicting handlers, take
  the head, and the next event of a batch arrives only after the last one was
  enqueued: `BatchInOrder`.
- `BatchQuiet`: after a clean drain no caller is between two events of its batch, so
  that the collector's own `DrainedQuiet` survives `BatchArrive`.

`IngestPath` does not implement `Collector`: the next event of a batch arrives when
the one before it was accepted, and main may have stopped serving by then, which
`Arrive` never does. `PathImplementsContract` therefore goes to `IngestContract`
directly, by the lemmas of `CollectorContractProofs`.

**`LifecycleProofs`.** `HandlersFirst` follows from `Stopped`: after its `Shutdown` a
server accepts nobody, and main gets past it only when it has drained or timed out.
`GraceSuffices` needs a bound on time. For main's place `Elapsed` adds the
timers up; the hard part is `wg.Wait`, which has none. There `JobsInTime` says that the
jobs left fit in the time left: for some number `n` of full rounds and `t` of the
units of the present round, the elapsed time with `n * PublishTimeout + t` is
within the bound, and the queue together with the workers that are busy beyond
`t` holds at most `n` jobs per worker. A unit of time lowers `t`; a worker that
finds a job lowers the queue by one and adds itself to the busy ones; when `t`
is used up a round is over, and `n` falls.

**Proved only.** The two `IndInv` and `PathTypeOK` were invariants of the runs
`MCCollectorSafety`, `MCRunnerSafety` and `MCIngestPath` until their theorems
(`Inductive`, `Inductive`, `PathTypeCorrect`) made that superfluous, and so was the
`TypeOK` of `Runner` (`TypeCorrect`); to see a step that breaks one after a change of
the model, name it there again.

**Model-checked only.** Every invariant the passing runs check, and every action
property, is stated by a theorem. What rests on TLC alone is liveness, which
with its fairness and ENABLED is outside the prover: `ShutdownTerminates`,
`EveryRequestAnswered`, the liveness halves of `ImplementsContract` and
`ImplementsDelivery`, `TopicDrains`, `SignalledReplicaLeaves`,
`AcceptedReachesStorage`, `CloseEnds`, `SignalledProcessEnds` and
`FailedListenerEndsProcess`.

## 5. Where code and documentation disagree

1. **A handler can panic on the closed channel** (`MCCollectorPanic`). When
   `srv.Shutdown` times out main goes on, `svc.Shutdown` closes the channel, and
   a handler that is still reading its body sends on it. The request gets a 500
   from `gin.Recovery` and no counter.
2. **A poison message commits the events before it** (`MCRunnerPoison`). Its
   own commit moves the offset past events that are only in the batch; a crash
   before their flush loses them.
3. **A cut write is committed whole** (`MCRunnerCut`). `WritePoints` returns nil
   once one point was written and `flush` ignores `WriteResult.Errors`. A SIGTERM
   between two points is enough: the storage and the broker never fail, and
   events are lost by a graceful stop. Refused points do the same
   without a stop.
4. **The final flush cannot write** (`MCRunnerFinal`): it uses the ctx whose
   cancellation caused it. The batch is read again by the next owner, unless 2
   or 3 applies.

`OnlyKnownLosses` says that 2 and 3 are the only ways an event is lost;
`CommitOnlyStored` that without them delivery is at least once.

Smaller observations, which the properties state as their exceptions:

- `collector_published_total` counts "Events successfully published to Kafka"
  (`metrics/collector.go:33`). With `KAFKA_ASYNC=true` it counts events handed
  to the Writer; `LossAccounted` says what may become of them.
- `DefaultShutdownTimeout` is called the maximum time to drain HTTP and close
  (`shutdown.go:19`). The collector may take that for the handlers, half of it
  again for the channel, and 30s for every round of jobs that `wg.Wait` still
  finds (`StopTime`), against a grace period of 60s (`05-collector.yaml:36`). A
  stop that outlasts it ends in a kill, and a kill loses what is held.
- The processor does not wait for the goroutine that shuts its metrics server down,
  which `docs/architecture.md:52-54` lists before the closing of storage and reader:
  the exception in `HandlersGoneBeforeClose`. A scrape may be cut off; no event is
  concerned.
- The query API only logs the failure of its listener and goes on waiting for a
  signal; so does the processor with its metrics server. No line of the repository
  promises otherwise; `FailedListenerEndsProcess` is claimed of the collector only.
- A poison message alone can move a committed offset backwards, without any stop:
  its own commit (`runner.go:114-118`) passes the events in the batch, and the
  flush of that batch then commits their lower offset. A rebalance in between
  reads them again, and the poison message once more. `OffsetsAdvance` is
  therefore claimed, and proved, where every message unmarshals.
- A `CHANNEL_CAP` that is no positive number also discards `DROP_POLICY`.

## 6. Not modelled, and what is left

Nothing of the plan is left to be proved. `Collector`, `Runner`, `KafkaWriter`,
`IngestPath` and `Lifecycle` each have their invariant, the first two implement
their contracts, and `Pipeline` joins the contracts over the Writer from end to
end. That a request's answer agrees with what becomes of its event needs no
property of its own: `LedgerExact` ties the answers to the counters, and
`ImplementsSafety` the counters to the fates of the contract, none of which is ever
revised. Liveness stays with TLC (end of section 4), with `WaitOnlyShrinks`,
`CloseOnlyShrinks` and `GraceSuffices` as its provable part for the shutdown.

Left out for good: the channel utilization gauge, the latency histograms of
the service and the middleware's (advisory, set without order by concurrent
handlers); the parser, the domain types and the identity of a point in InfluxDB
(data no control depends on); the noop storage and the query stub (no state);
`HTTPServer`, `WaitGroupClose`, `SleepInterruptible` and `MustHostname` (no caller);
the metric registries and the processor's counters;
manifests, dashboards and load scripts (configuration; they justify constants
and kills).
