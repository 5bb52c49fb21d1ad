# A TLA+ model of the ULPF log pipeline

ULPF collects raw security events over UDP, TCP and files, archives them as
evidence, publishes them to a Kafka-compatible broker, and moves them through
parser, normalizer, retry and sink workers into ClickHouse. What the system
promises is custody: an accepted event is archived, reaches a table or the
dead-letter topic, and is never silently dropped, whatever crashes, rebalances
and half-failed writes happen on the way. This directory states that promise
and checks it against the code in `src/`, `core/` and `files/`.

Run `tlc -workers 2 -config <cfg> <module>` for a run of the table below and
`tlapm <module>` for a proof module, both in this directory.

## 1. The system

| Component | State it keeps | Operations | Talks to |
|---|---|---|---|
| Transport collectors (`src/collection/{udp,tcp,file}_collector.py`, `identity.py`) | socket, receive buffer per connection, process-wide socket timeout | accept, receive, split into frames, time out | call `ingest()` / `reject()` from one thread per connection |
| Collection core (`pipeline.py`, `dedup.py`, `archive.py`, `publisher.py`, `metrics.py`, `rejected.py`) | hash cache, counters, archive files, producer queue | `ingest`, `reject`, `store`, `publish` | archive directory, raw-event topic |
| Archive replay (`replay.py`) | none | `retrieve`, validate, publish again | archive, raw-event topic |
| Streaming workers (`src/streaming/{run,kafka,processor,workers}.py`, `src/storage/worker.py`) | the message in hand; the broker keeps offsets | poll, decide, produce or insert, flush, commit | topics raw-event, parsed-event, normalized-event, retry, dead-letter; ClickHouse |
| Retry scheduler (`src/streaming/retry.py`) | `_pending`, one held message per paused partition | hold, resume, `process_due`, `on_revoke` | retry topic, consumer group |
| Batching worker (`files/worker.py`) | `_uncommitted`, `_produce_errors`, `_running`; the client's stored offsets | process, batch commit, metrics report, shutdown | the same topics, container runtime |
| Parsing engine and source packs (`core/`, `source_packs/`, `src/source_packs/loader.py`) | the list of loaded packs | `reload`, `match`, `process` | called by the parser stage and the API |
| Normalization and validation (`src/normalization/`, `src/validation/`) | none | `normalize`, `validate_event` | called by the normalizer stage, the store and the API |
| Analytical stores (`src/storage/clickhouse.py`, `src/pipeline/storage.py`) | event and quarantine tables | `write_batch`, search, aggregates | sink, API |
| API runner and dashboard (`main.py`, `src/pipeline/`) | in-memory store | `process`, `process_batch` | collection core, engine, normalizer, store, exporter |
| Data-lake exporters (`src/exports/`, `src/pipeline/exporter.py`) | files and manifests | `export`, `atomic_write`, `verify_manifest` | file system |
| Outbound integrations (`src/integrations/`) | none | `deliver`, decide | OpenSearch, syslog, CEF receivers |

Components meet in three ways: calls inside a process, where threads share the
cache, counters and producer; topics between processes, at least once and in
order per partition; and the archive directory, which outlives both.

The hard behaviour is what happens between the steps of those operations:
a rebalance while a worker holds a record, a delivery report that fails after
the broker has kept the message, a crash between an output and its commit, a
record parked until a deadline while its partition moves to another worker, a
batch commit that covers messages still in flight, several threads flushing one
producer, two archive files that are not written atomically, a reload of the
packs while a line is being routed, an export while another replaces its files, a
store that fails after the event was published. `PROJECT.json`
lists each under "hazards", at its line, with the property that watches it.

What makes each component correct:

- collection: nothing is published that is not archived whole; acceptance means
  archived and in the topic; a reported failure leaves the event replayable;
- streaming: no committed offset passes the last copy of an event; one retry
  budget; dead letters are justified; every event settles;
- retry: no retry before its deadline, no legitimate record discarded, no
  commit past a held record, no partition left paused;
- batching worker: rule 1 of its own header, "never advance past a message whose
  output has not been durably produced";
- engine: one broken pack affects no other; a line is routed by one list of packs;
- normalization: what it emits satisfies the validator, except for what nobody
  could have parsed; the route from before the contract migration agrees;
- stores: after the same writes the two differ only by what one of them alone answers from
  and by the order a limit follows;
- API and exports: answers are true of archive, stream and store, also when a
  later step fails; a dashboard shows what it counts; manifests describe files.

## 2. The modules

| Module | Models | Kind |
|---|---|---|
| `Delivery` | the custody promise: outside, held, settled | abstract specification |
| `StreamPipeline` | all four streaming roles, broker and group | detailed; implements `Delivery` |
| `StreamPipelineProofs` | custody, commits, retry budget, duplicates, dead letters | theorems |
| `SequentialRetry` | the promise of a partition's retries: one after the other, each written before it is done | abstract specification |
| `RetryScheduler` | the retry role with several partitions, pauses and time | detailed; implements `SequentialRetry` |
| `RetrySchedulerProofs` | | theorems |
| `BatchWorker` | `files/worker.py` | detailed |
| `BatchWorkerProofs` | | theorems |
| `Collection` | `ingest()` and `reject()` from several threads, archive, log of rejections, both publishers, replay | detailed; implements `Delivery` |
| `CollectionProofs` | | theorems |
| `Platform` | collector, raw topic and workers together | composes `Collection` and `StreamPipeline`; implements `Delivery` |
| `PlatformProofs` | | theorems, from those of both halves |
| `TcpFraming` | `_handle_conn`, one TCP connection | detailed |
| `TcpFramingProofs` | | theorems |
| `SourcePacks` | lines, packs, loading, detection, parsers | operators |
| `Normalization` | mappings, quality, times, validation, the legacy route | operators, extends `SourcePacks` |
| `AnalyticalStores` | memory and ClickHouse: writes, searches, aggregates | operators, extends `Normalization` |
| `AnalyticalStoresProofs` | `Normalization` for every line, pack and clock reading; the stores for deliveries of any length | theorems |
| `DataLake` | files and manifests of the exporters | operators, extends `AnalyticalStores` |
| `ApiServer` | threads of `main.py` over all of these | detailed, composes the four above |
| `ApiServerProofs` | requests, reloads, dashboard, exports | theorems, extends `AnalyticalStoresProofs` |
| `MCStreamPipeline`, `MCRetryScheduler`, `MCCollection`, `MCPlatform`, `MCApiServer` | | instances for TLC |

`map` in `PROJECT.json` gives the lines of each definition. Operators marked
"Seeded fault" in the modules are not used by any specification: each is a
plausible wrong version of the definition that follows it, kept to show that
the properties notice it (`mutants` in `PROJECT.json`).

### StreamPipeline

A topic is an append-only sequence of records; a record is the event's
identity with the `attempt` and `retry_stage` headers and an error code. Each
role has a group with one committed offset and at most one current owner. A
worker is `down`, `idle` (in `poll()`), `inHand` (a message returned, nothing
written) or `durable` (`flush()` was clean or the insert returned, the offset is
not committed). `Fetch`, `Deliver`, `Commit` are one iteration of `run()`;
`DeliverFails`, `CommitRefused`, `CommitUncertain` and `Raises` are the ways it
is left; `Exits` is `consumer.close()` or the death of the process. `Assign`,
`Rebalance` and `Revoke` are what the group does to it. The stage decisions are
`RetryOrDeadLetter`, `InvalidContract` and `Forward`; the router hands a retry
record to the stage its header names.

Assumed of the client and the broker, which are not in this repository: a
synchronous commit from a superseded assignment is refused; a new assignment
starts at the committed offset; `auto.offset.reset` is `earliest`. `StageDecisions`
takes as constants which events a stage's contract rejects, may fail transiently
on, or raises on. In the shipped wiring nothing raises `TransientProcessingError`
(the engine turns every exception into a failed parse, `core/engine.py:82`, and
the normalizer has no dependency that is down), so the retry branch is what the
processors implement and the tests exercise, rather than what a deployment sees.
The retry role's pauses and deadlines are abstracted to "a record may be in hand
for long, and be dropped by a revocation", and treated in full by:

### RetryScheduler

Variables follow `RetryKafkaWorker`: `held` is `_pending`, `paused` what the
consumer has paused, `todo` the snapshot `list(self._pending.items())` that
`process_due` walks, `hand` the record in `process_one`. A group has a
generation; `Disturb` starts a rebalance and `Rebalance` ends it, as a further fault
even without a worker that has not polled; `Supersede` is a whole rebalance behind
the back of workers that missed their heartbeats, who learn of it in the next `poll()`
(`Join` serves the revocation of a lost assignment first, as `on_lost` does).
A commit from an older generation is refused. Time is `now`; a deadline is set
by a stage whose clock may be up to `Skew` ticks ahead. `Cap` stands for the
1800 s cap, `Slack` for the 5 s the horizon of 1 805 000 ms leaves, and the
assumption `Skew <= Slack` is the one the horizon makes. A new assignment starts
with nothing paused, as the client does. Records without readable metadata and
records with an absurd deadline (`Foreign`) are dead-lettered at once.

### BatchWorker

`stored` is the offset the client stores when `poll()` returns a message
(`enable.auto.offset.store` is left at its default), `committed` what the group
has, `queue` what the producer has in flight, `errors` whether `_produce_errors`
is not empty. `MaybeCommit` is `_maybe_commit` in the loop and `Close` the
`finally` clause of `run()`; both may commit only when a flush left nothing in
flight and no error was reported. `ProcessEscapes` is `produce()` raising inside
`_route_dead_letter`. The exit status matters because of the restart policy:
`exited` is status 0, `failed` everything else. An output's topic and content
are not told apart: parsed event, retry, re-queued early retry or dead letter. A
replay that is given a time (`seeks`) starts at `from` whenever its process starts,
so its group's offset may go back; what it promises is about its range (`Covered`).
The partition stays assigned throughout.

### Collection

Each thread walks through `ingest()`: receive and count, classify, cache,
`.raw` file, `.json` file, publish, count. All threads share the cache, the
counters and the publisher. With a broker that is one Kafka producer, so a flush
waits for everybody's messages and any of them can time it out. Without one it is
`FileStreamPublisher`: an append that fails or is killed in the middle leaves a
torn line (`tail`), and the event written behind it is on no line a reader could
parse (`swallowed`), although it is accepted and archived. A failed or interrupted
write leaves an archive file absent or torn, and `Replayable` is what `retrieve()`
and the envelope's validators accept. A rejection is settled (`Refuses`), recorded
(`Record`, `RecordFails`) and counted (`CountRejected`) in separate steps; only for
an empty or oversized event the count comes first. `RejectFrame` is `reject()`, for
the frame of a connection that timed out. A crash empties the cache, the counters
and the queue, of which the broker may already have received a part.

The other transports (UDP, file replay) keep nothing of an event and only call
`ingest()`: they are `Receive`. Not modelled: `InMemoryPublisher`, which only tests
use, and the window of latencies.

### Platform

The collector and the workers run as services of their own (`docker-compose.yml`) and
share the raw-event topic only: `topic` of `Collection` and the raw topic of
`StreamPipeline`. A step is one of the collector's (`Collects`), one of a worker's
(`Works`), or the broker taking a published or replayed envelope (`HandsOver`), which is
a step of both: the event joins `topic`, and its record the end of the raw topic. What the
broker received of a queue before the collector died is modelled as received before the
crash, event by event. Each half has its own bound on faults. A collector without a
broker writes to a file that no worker reads; there an event rests in the file.

### TcpFraming

A byte is a delimiter or not. `Recv` appends any chunk recv() may return, whose
size is limited by `Room`; `Split` is one round of the inner loop, `AwaitMore`
its end; `Eof`, `Timeout` and `SocketError` end the connection. `frames`
holds what is handed to `ingest()` or `reject()`, with the refusal the pipeline
answers. `Split` closes on an oversized line as the code does; the runs show that
branch is never taken, since at most one byte past the limit is buffered.

### SourcePacks, Normalization, AnalyticalStores, DataLake

These modules are operators; their data are the distinctions the code branches on.
A line is a record of what matters about it (`AsaLines`, `EveLines`, `FgtLines`,
`SysLines`, `TxtLines`: which tag it has, whether a field is there and of the right
type, its rating), never a string. `Match` is `SourcePackRegistry.match`,
`LoadSourcePack` and `ReadAgain` the two readings of a manifest with the ways each
may end: loaded, refused (logged and skipped) or an exception that `reload()` does
not expect. `EngineParse` gives the parsed event: status, issues, and the fields
that later code reads.

`MappingOf` is the mapping of each vendor, `Unified` the event that `normalize()`
makes with the clocks of a reading `at`, `Violated` the rules that relate sections
of an event in `validate_event`, `Rated` what a violation does to its quality,
`Quarantined` what the stores do with it. `LegacyNormalize` is the route through the
event model from before the contract migration.

`MemoryWrite` and `ClickHouseWrite` are `write_batch` with every combination of
insert outcomes, `Final` the rows `FINAL` leaves; searches, lookups and aggregations
are there for both stores, each over all that its store holds. `MemoryLabel` and
`ClickHouseLabel` are the keys of `events_by_source`. `WrittenRows` gives the same
deliveries to both stores, and `Reconciles` says what their answers have to do with each
other. `Describe`, `Manifest` and `Verifies` are the manifest of
an export and `verify_manifest`; a file is the set of identities in it.

### ApiServer

The threads of the API process over one registry, collector, store and export
directory. A request is one of: post an event, parse only, reload, analytics,
export to JSON Lines, export to Parquet (which has no endpoint in `main.py`; the
exporter is a public class, modelled as a job). `Collect` stands for the whole of
`ingest()`, whose steps are in `Collection`; `AskPack` is one turn of `match()`;
`ScanEntry`, `RereadEntry` and `PublishPacks` are `reload()`; `Store` is everything
from parsing to `write_batch`; `TakeTotal` and `CountGroups` are the reads behind the
dashboard; `WriteFile` to `WriteSummary` are one export, file by file. `Edit` is an
operator who changes the pack directory. `Restart` needs a directory whose
manifests can all be decoded: the engine is built on import.

## 3. The runs

| Run | Instance | What it shows |
|---|---|---|
| `stream_faults` | two parser workers and one per other role, one event on which both stages may fail, `MaxAttempts` 1, any 2 faults | `OwnerSkipsNothing`, `DuplicatesBounded`, `RetryBudgetShared`, `CommitsOnlyAdvance`, and that the pipeline implements `Delivery`, which includes that nothing is lost |
| `stream_settles` | one worker per role; an event on which the normalizer may fail and which the store rejects, a malformed one and one on which the normalizer raises; 1 fault, fairness | `DeadLettersJustified`, and `EventuallySettled`: the liveness of `Delivery` as long as no event was accepted on which a stage raises |
| `stream_poison` | the poison event alone, fairness | violated, see section 6 |
| `retry_safety` | two workers, partitions of 2 and 1 records, 3 instants, skew 1, 1 fault | `NeverEarly`, `ScheduledNeverDiscarded`, `OneHeldPerPartition`, `HeldIsFirstUncommitted`, and that the scheduler implements `SequentialRetry`, which includes that no deferred record is lost |
| `retry_liveness` | one worker, the same partitions, 1 fault, fairness | `EventuallyRetried` |
| `batch_safety` | any role and a replay from any offset, 4 messages, batches of 2, one failing and one refused message, 2 faults | `OnlyRefusedUndelivered`, `CommittedGrows`, `NoCommitAfterError` |
| `batch_refused` | 3 messages, the second refused, no fault | violated, see section 6 |
| `batch_restart` | 2 messages, 1 fault, fairness | violated, see section 6 |
| `collection` | 2 threads, either publisher, 3 events with 2 payloads or none, a cache of 1, 1 fault | `AcceptedIsDurable`, `FailedPublishReplayable`, `RejectionsExplained`, `CountersAddUp`, `DuplicateFlagExact`, and that the collector implements `Delivery`, which includes that nothing is published that is not archived, and that it never comes to hold less of an event than it did |
| `platform` | 1 thread, either publisher, a parser, a normalizer and a sink; an event they understand and one the normalizer always raises on; 1 fault in each half | `AcceptedReachesWorkers`, and that collector and workers together implement `Delivery` |
| `tcp_framing` | limit 3, at most 3 bytes per `recv()`, all streams of up to 8 bytes | `FramesAreTheStream`, `OversizeIsSeenEarly` |
| `api` | 2 threads, either store, 3 requests of any kind, 3 packs, 1 edit of their directory, 1 fault | `AnswersKept`, `RoutedByOneGeneration`, `PublishedListHonest`, `ShownIsCounted`, `ExportsReconcile`, and over all lines of `SourcePacks`: `OnlyUnusableQuarantined`, `LegacyAgrees`, `StoresReconcile` |

Why the bounds are enough for these questions. Two faults let one fault happen
while another is being recovered from (a crash during the repetition of a
half-failed delivery, a second rebalance before the first loser notices); the
proofs then remove the bound. Two parser workers are what a superseded owner and
its successor need; the other roles run the same loop. `MaxAttempts` 1 gives a
first attempt, a retry and exhaustion, in either stage. Two records in one
partition let a commit overtake a held record; the other partition is there to
be kept moving. Three instants with a cap of 1 allow deadlines to pass before,
while and after a record is held. Batches of 2 of 4 messages put a failing
message first and last in a batch. A cache of 1 with two payloads evicts after
every change of payload, but cannot tell the least recent from the first: that eviction
goes by recency is shown by `FlagsAreExact` for any size; three events allow the sequence a, b, a. Eight bytes are
two frames at the limit with their delimiters, in chunks smaller than a frame.
In `platform` the races inside a half are those of the runs above; two events and a fault
in each half let the collector's crash or replay meet a worker's crash or rebalance, and
the poison event tries whether one the workers cannot pass on stays with them. There is no
retry role, since no stage fails transiently in this instance.
In `api` two threads are what any of its races needs, and three requests let a
reload or an export run while another request changes what it reads; the export
asks for three events and a ClickHouse search is cut at two, so that the cut
happens. The edits turn a good manifest into one that is logged and skipped or into
one whose error escapes. `OnlyUnusableQuarantined`, `LegacyAgrees` and
`StoresReconcile` do not depend on the path to a state: they are exhaustive comparisons
of the operators behind the actions. The first two range over every line of
`SourcePacks`, four relations of the three clocks and the packs that are listed; the
third over every pair of `SampleLines`, one to three deliveries of each in any order, each
normalized at one of two times, every filter of `SharedFilters` and every limit and cap up
to the number of deliveries, so that pages are cut, rows replaced by older ones and events
quarantined.
Symmetry is used only in runs without liveness, over identical workers or threads.

`CHECK_DEADLOCK FALSE` is set throughout: every instance has a bounded number of
events, and stops when they are settled.

Fairness. A worker's own steps are weakly fair, because `run()` is a loop that
leaves only by an exception and `restart: unless-stopped` in `docker-compose.yml`
starts it again; the group assigns a free partition to a live member; a superseded
worker notices at its next poll; time passes. The batching worker is restarted
only if it failed, because that is what its restart policy says. Faults, replays,
signals and submissions are never fair.

## 4. What is proved

The theorems hold for all values of the constants that satisfy the assumption their
component's module names: any set of events and workers, any assignment of roles, any
retry budget, any partitions, deadlines and clock skew within the slack, any stream and
size limit, any finite set of transport threads, any cache size, any collector with any
workers, any pack directory and edits of it, any number of requests and faults.

| Module | Theorem | States |
|---|---|---|
| `StreamPipelineProofs` | `TypeCorrect` | `Spec => []TypeOK` |
| | `OwnerNeverSkips` | `Spec => []OwnerSkipsNothing` |
| | `NothingEverLost` | `Spec => []NothingLost` |
| | `CommitsAdvance` | `Spec => CommitsOnlyAdvance` |
| | `PipelineDelivers` | `Spec => ImplementsDelivery` |
| | `DeadLettersAreJustified` | `Spec => []DeadLettersJustified` |
| | `OneBudget` | `Spec => []RetryBudgetShared` |
| | `DuplicatesArePaid` | `Spec => []DuplicatesBounded` |
| `RetrySchedulerProofs` | `TypeCorrect` | `Spec => []TypeOK` |
| | `HoldsOne`, `HeldFirst` | `OneHeldPerPartition`, `HeldIsFirstUncommitted`, always |
| | `NothingLost` | `Spec => []NothingDeferredIsLost` |
| | `RetriesOnTime`, `ScheduledKept` | `NeverEarly`, `ScheduledNeverDiscarded`, always |
| | `CommitsInOrder` | a step leaves a committed offset or adds one to it |
| | `ServesInSequence` | `Spec => ImplementsSequential` |
| `BatchWorkerProofs` | `TypeCorrect` | `Spec => []TypeOK` |
| | `BatchCommitSafe` | `Spec => []OnlyRefusedUndelivered` |
| | `RuleOneUnlessRefused` | `Refused = {}` and `Spec` give `[]NeverPastUndelivered` |
| | `CommitsGrow`, `ErrorsBlockCommits` | the two action properties |
| `CollectionProofs` | `TypeCorrect` | `Spec => []TypeOK` |
| | `PublishedAreArchived`, `AcceptanceIsDurable` | `PublishedIsArchived`, `AcceptedIsDurable`, always |
| | `FailuresAreReplayable`, `RejectionsAreExplained` | `FailedPublishReplayable`, `RejectionsExplained`, always |
| | `CountersAlwaysAddUp`, `FlagsAreExact` | `CountersAddUp`, `DuplicateFlagExact`, always |
| | `EvidenceIsKept` | `Spec => EvidenceKept` |
| | `CollectorDelivers` | `Spec => ImplementsDelivery` |
| `PlatformProofs` | `PlatformDelivers` | `Spec => ImplementsDelivery` |
| | `AcceptedArrive` | `Spec => []AcceptedReachesWorkers` |
| | `HalvesMeet` | `Spec => []TopicIsRaw` |
| `TcpFramingProofs` | `TypeCorrect` | `Spec => []TypeOK` |
| | `SplitWhole`, `OversizeCloses` | `FramesAreTheStream`, `OversizeIsSeenEarly`, always |
| `AnalyticalStoresProofs` | `NothingMisrated` | `MisratedBy[p] = {}` for every pack, and for a line none takes |
| | `RoutesAgree` | `LegacyDiffers = {}` |
| | `StoresReconciled` | `Reconciles` for any number of events and any deliveries of them |
| `ApiServerProofs` | `TypeCorrect` | `Spec => []TypeOK` |
| | `AnswersHold` | `Spec => []AnswersKept` |
| | `RoutedWhole`, `PageIsCounted` | `RoutedByOneGeneration`, `ShownIsCounted`, always |
| | `ExportsBalance` | `Spec => []ExportsReconcile` |
| | `NothingUsableRefused`, `LegacyRouteAgrees` | `OnlyUnusableQuarantined`, `LegacyAgrees`, always |
| | `StoresReconcileAlways` | `Spec => []StoresReconcile` |
| | `ReloadsPublishWhole` | `Spec => PublishedListHonest` |

`NothingLost` and `PublishedIsArchived` are part of what the runs check as
`ImplementsDelivery`, and `TopicIsRaw` with a broker of what `platform` checks: they have
no entry of their own in a configuration.

Each `IInv` (and `TokensPaid`, `FaultFree`, `Reach`, `CacheInv`, `CountsInv`, `ExportsInv` beside
it) stands at the end of its component's module, as a conjunction of named parts, and
was an invariant of the component's runs in TLC before it was proved inductive.

`NothingLost` is not inductive: it says that some copy of an event survives, not
which. The history variable `newest` names one: the place of the latest record of
each event. The invariant `IInv` adds that a `durable` worker's record is
no longer the newest of its event (`DurableSuperseded`: its output is newer), and
that no committed record is (`CommittedSuperseded`). So the newest record is ahead
of its group's offset, or rests, which is `NothingLost` (`CustodyKept`). A commit
moves the offset over one record only, because the owner's position is at most
one past it (`OwnerSkipsNothing`), and that record is superseded because the
worker is `durable`. The steps that append are covered by one lemma
(`AppendingStep`), those that do not by another (`QuietStep`), and the steps that
leave the loop by a third (`ExitingStep`). `PipelineDelivers` follows from the same
invariant: the first record of an event can only go to the raw topic
(`AppendMoves`), so a submission or replay accepts at most its own event (`EnterMoves`),
and whatever the workers, the group and the faults do settles an event or changes
nobody's custody (`WorkMoves`).

`DuplicatesBounded` counts what a step may still make of an event rather than what it
has made. The `Tokens` of an event are its resting copies, its records that some group
has yet to process, and the workers whose partition has gone to another while they hold
a record of it or may still take one. An output replaces the token of its input by its
own, a commit drops one, and only the first submission and the faults add any
(`TokensPaid`). `RetryBudgetShared` speaks of behaviours without a fault, and rests on
three facts about those (`FaultFree`): an assignment ends only with its worker, the
record that is not committed is the latest of its event until its output is written, and
attempt headers rise from one retry record to the next, which makes them a numbering of
the records by 1 to `MaxAttempts`.

For the retry scheduler `IInv` adds that two current workers share no partition
(`Ownership`), that a current worker is past its group's offset by the record it holds
or has in hand and by nothing else (`OneAhead`), and that a record to deliver is not
early (`HandReady`); that it is not taken for one beyond the horizon follows from
`Deadlines`, which bounds what a policy writes, and from `Skew <= Slack`.

`ServesInSequence` maps a partition to what it has received, the offsets that were
written and the committed one; waiting, pausing, rebalancing and failing are stutters.
A worker that was superseded may still write, but nothing beyond the first
uncommitted record, because its position stays within one of it (`Reach`): what it
writes is that record, or one already committed, which `NothingDeferredIsLost` says was
written before (`WritesTheNext`). A commit that the broker takes comes from a current
owner and moves the offset over the record it has written and over no other
(`CommitIsNext`).

For the batching worker `IInv` adds `Accounted`: while the process lives and no
delivery error is recorded, every polled message is durable, in flight, refused
or the one in hand. With an empty queue and no error that is exactly what a commit
of the stored offset needs (`StoredIsSafe`).

For the collector `IInv` ties the place of each thread to what exists of its event
(`FilesInHand`, `SentInHand`, `RecordInHand`) and says that no two threads have the
same one (`OwnJobs`), so that a torn write or a timed-out flush of one thread cannot
touch another's evidence. That an event whose files are being written is not
published already follows from `PublishedIsArchived` itself, since its metadata file
is absent. `TornByFaults` charges every torn line, and then the event written
behind it, to one fault. `CountersAddUp` needs that duplicates still to be counted
were accepted (`CountsInv`), and counts threads, hence the assumption that they are
finitely many. `DuplicateFlagExact` looks at the whole history of checks, the code only at
its cache; `CacheIsRecent` relates them: what lies behind an entry of the cache are the
payloads seen since that entry was, and a payload it has forgotten was followed by at
least as many others as the cache holds.

`CollectorDelivers` takes the archive and the topic together as one custody: an event
is held once both its files are whole, settled once it is also published, and an event
published without them would be in no state at all (`CustodyForm`). Storing the second
file accepts an event (`StoringAccepts`). A flush settles the events of every thread
that has one in the queue, and a crash may settle any part of them, which is why
`Settle` takes a set (`PublishingSettles`). An event behind a torn line stays held.

`PlatformDelivers` rests on the theorems of both halves, instantiated: every step of the
platform is a step or a stutter of each (`CollectorRuns`, `StreamRuns`), so both
invariants hold. What they have in common is `TopicIsRaw`: an event is among the workers
exactly when it was published to a broker. So its custody is the workers' once they have
it, and the collector's until then (`CustodyForm`), and a step of one half accepts or
settles for both, while a publication passes an event on and changes no custody
(`HandingDelivers`). Wherever the two disagreed, the event would be in
none of the abstract states. `AcceptedArrive` follows, with the fact that a collector uses one
publisher throughout (`OnePublisher`): what was answered as accepted was published, and
what was published to a broker the workers have.

For a connection `IInv` says that frames and buffer tile what was received, and that
`recv()` is called with no complete frame and at most the limit in the buffer
(`BufferIsPartial`), so that one more read reaches one byte past it.

`NothingMisrated` goes mapping by mapping: each is `Coherent`, which is what the rules that
relate sections of an event ask of it, and the observed, ingested and normalized times are
ordered for every reading of the clocks. This proof found two `CASE` expressions with overlapping guards,
of which TLC takes the first: they are now nested alternatives in the order of the code.

`StoresReconciled` is about deliveries of any length, in any order and with any
repetitions, that both stores took; a delivery is the same row again, or the event
normalized at another time. The two stores do not answer alike, and `Reconciles` says by
what they differ. `OnlyInMemory` are the entries of the memory list that ClickHouse does
not answer from: the quarantined events, and the deliveries that a later normalized one
replaces. The other entries are matched one to one with the rows `FINAL` leaves
(`CurrentOfEach`, `FinalIsCurrent`). So

- the total of the memory store is ClickHouse's plus their number, and each other counter is
  ClickHouse's plus what it would be of those entries alone (`CountersCompared`, from `CountSplit`); sources are
  compared under the key each store gives them (`LabelsMatch`);
- a lookup finds an event in both stores or, if it is quarantined, in memory only; the row
  is the same or ClickHouse's was normalized later, which happens when a rewound stream
  brings an older row last (`LookupsCompared`);
- what one page has and the other has not is one of those entries, or was cut off by the
  limit, which keeps the last delivered of the one store and the last observed of the other;
  of ClickHouse's page nothing is missing without an entry that takes its place
  (`PagesCompared`, for the filters both stores read alike).

For the API server a step begins a request, moves one or ends one, and leaves those of
the other threads alone; lemmas say so once (`OneMoves`, `Ended`, `Others`). `IInv` says
what each thread holds at each of its steps: the packs that `match()` has passed did not
detect the line (`Detecting`), a scan has dealt with the entries it has passed
(`HasScanned`, which exempts those edited meanwhile), the page of a dashboard is in the
store and is no larger than the total (`Showing`), and what each place in `process` means for archive,
stream and store (`EventInHand`). The store may only grow between the three reads
behind a dashboard, which is why page, total and groups are ordered by inclusion.

`ExportsReconcile` has an invariant of its own. While no other export has run since it
began (`alone`), what an export has described is on disk as described (`ExportInHand`);
the next one that begins ends that, and the claim. Parquet files are named after their
export, so those of two exports never meet (`ParquetInHand`, `PartsArePast`). That the
totals of a manifest are the sums over its files needs the value of a recursive function
on sets: the proof gives a closed form that satisfies its equation (`SumIs`) and shows, from
a least counterexample, that nothing else does (`SumUnique`).

Only model-checked:

- liveness (`EventuallySettled`, `EventuallyRetried`): fairness and `ENABLED` are outside
  what the proof system does;
- `NeverPastUndelivered` and the other properties of the runs that expect a violation.

## 5. Not modelled, and the plan

Not modelled, and why:

- Outbound integrations (`src/integrations/`): no caller in `src/` composes the
  adapters with a broker or a store, so what is delivered again, and how often, is
  not fixed by the code. The rest is wire format.
- `PipelineRunner.process_batch`, the memory store's `clear()` and lookups by raw
  hash: no caller outside tests, or the shape of another lookup.
- Contracts: data classes with validators; they appear as the events a stage's
  contract rejects.
- The dashboard page, the demo, topic set-up, load generation and metrics reports:
  presentation and tooling that share no state with the pipeline.
- Inside modelled components: vendor regular expressions and field values, JSON
  schema rules on single values, extension names, percentages and labels, paths,
  sizes and schema versions, warnings about versions, and the adapter's branch for
  the event model of `core/`, which nothing in `src/` feeds it.
- The socket timeout that connection threads share (`identity.py:9`): no document
  promises anything of it.

What could follow: the values of `Match` and `Sorted` (that a reload's list is the sorted
one, not only a sorted one), and the liveness of the whole platform: `stream_settles` has
it for the workers, and an event that was archived but not published waits for an operator
to replay it.

## 6. Where code and documents disagree

- **Poison events** (`stream_poison`). A Suricata timestamp without a zone makes
  `normalize()` compare a naive with an aware time and raise `TypeError`
  (`src/normalization/normalizer.py:82`). Only `TransientProcessingError` is
  caught, so the worker dies with the offset uncommitted and meets the same
  record after every restart. The design says poison events enter the
  dead-letter topic (`docs/superpowers/specs/2026-09-01-full-platform-integration-design.md:150`).
- **Refused dead letters** (`batch_refused`). When `produce()` refuses the dead
  letter as well, the `finally` clause of `files/worker.py` commits past the
  message. `RuleOneUnlessRefused` shows that this is the only way rule 1 fails.
- **Restart after a failed delivery** (`batch_restart`). The worker stops "so the
  process can restart" (`files/worker.py:526-528`) but exits with status 0,
  which `restart_policy: on-failure` does not restart.

Met while reading, without a run of their own: the parser's retry branch cannot be
reached because the engine swallows `TransientProcessingError`
(`core/engine.py:82`); `reload()` does not survive a manifest that is not UTF-8
(`core/registry.py:52`); `publish_failed` does not mean that the event was not
published (`src/collection/publisher.py:69`), so a sender that tries again
creates a second identity for it.

Bounded by a property instead of a run that fails: the docstring of
`ClickHouseEventStore.get_aggregations` promises "the same dashboard projection as the
in-memory demo store" (`src/storage/clickhouse.py:251`), and it is not the same.

- The memory store counts every entry of its list, quarantined events and each redelivery
  included (`src/pipeline/storage.py:159-196`); ClickHouse counts what `FINAL` leaves of the
  table of valid events (`src/storage/clickhouse.py:253-272`). One line that no pattern of
  its pack takes is one invalid event in the one dashboard and none in the other.
- The keys of `events_by_source` differ, except for Cisco: `vendor.capitalize()` and
  `product.upper()` (`src/pipeline/storage.py:176`) against the manifest's spelling
  (`src/storage/clickhouse.py:289`).
- The page of the memory store is what was delivered last, that of ClickHouse what was
  observed last; a lookup after a rewind finds the row delivered last or the one normalized
  last, and a quarantined event in memory only.

`StoresReconcile` and `StoresReconciled` say that there is no more to it: the totals differ
by exactly the quarantined events and the replaced deliveries, and so do the groups.

Seen in the model of the API, where no document says otherwise:

- An archive or publish failure is answered 422, as if the event were at fault; a
  ClickHouse failure 503; an event on which the normalizer raises 500, after it was
  accepted, archived and published. `AnswersKept` says what each answer is worth.
- A Suricata alert whose rating is outside the table gets an unknown severity
  without the warning the validator asks for, and is quarantined
  (`UnexplainedRating` in `Normalization`).
- A manifest that is not UTF-8 makes a reload answer 500 and keep the old list; at
  the next start there is none to keep, and the server does not come up.
- Overlapping reloads may publish the older scan last; overlapping JSON-Lines exports
  may leave a manifest that does not verify, which the next undisturbed one repairs.
- An export asks for 1000 events and ClickHouse gives 500. An empty `vendor`
  parameter is no filter in memory and matches nothing in ClickHouse.
- After a torn write the stream file hides the next event's line
  (`src/collection/publisher.py:44`); the archive has it, and nothing reports it.
