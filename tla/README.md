# Locomotive digital twin: TLA+ specifications

This directory specifies the program under `src/`: the db-writer that moves
telemetry from Redis Streams to TimescaleDB, the ingestion of telemetry from the
simulator's tick to the streams, the WebSocket server and the live page it feeds, the
report jobs that travel over RabbitMQ and what their reports say, the simulated
locomotive, the processor's health index and alerts, and the analytics service with
its queries and its fleet aggregator. TLC checks small instances of every module;
TLAPS proves the central safety properties, and that the db-writer implements
at-least-once delivery, for all values of the constants, and most of what is promised of
the functions the processor and Analytics compute, for inputs of any size.

## The system

Telemetry flows one way:

    simulator --HTTP batches--> processor --XADD--> Redis Streams --> db-writer --> TimescaleDB
                                    |                                                   |
                                    +--PUBLISH--> Redis pub/sub --> ws-server --> dashboard
                                                        |                               |
                                                        +--> analytics-service (fleet summary, cache, queries)
    dashboard --HTTP--> api-gateway --RabbitMQ--> report-service --gRPC--> analytics-service

| Component | State | Operations | What is hard | What makes it correct |
|---|---|---|---|---|
| simulator (`runner.py`, `client.py`) | fleet, resend buffer (deque of 10 000) | tick, flush, add / update / remove, post_batch with 3 tries | operators change the fleet while a tick awaits its batches; a bounded buffer; retries of batches that were accepted | a removed locomotive stays removed; a reading is sent or counted as lost; order within a flush |
| simulated locomotive (`locomotive_state.py`, generators) | mode, scenario, ramps, place on the route | tick, create, patch, delete, depart | requests between any two ticks, in any mode and scenario | it stays on its route; an emergency stops it; overrides never jump |
| processor ingest (`router_ingest.py`) | EMA and damage tables (module globals) | ingest, ingest/batch on pool threads | unlocked read-modify-write; state per process; publication failures swallowed | a locomotive is filtered in order, its damage only grows; what was sent is stored |
| processor health and alerts (`health_service.py`, `alert_evaluator.py`, `constants.py`) | none | score, category, alerts, masks | two formulas that must mirror one another; a filter that lags behind a switch of the engine | what raises an alert costs health, and what costs health raises one unless masked; a healthy locomotive is quiet |
| durable stream (`shared/streams.py`) | stream, consumer group, cursor, pending lists | xadd_rows, ensure_consumer_group, XREADGROUP, XACK | MAXLEN evicts pending entries; Redis restarts empty (`appendonly no`) | an entry delivered is pending or acknowledged |
| db-writer (`stream_consumer.py`, `main.py`) | queue, workers' batches, the reader's place, the process's shutdown | start, drain, read, enqueue, write in chunks, XACK, SIGTERM, crash | multi-transaction batches, backpressure, cancellation, restart | acknowledged implies committed; nothing delivered is forgotten; shutdown ends |
| ws-server (`connection_manager.py`, `handler.py`) | `_connections`, `_ws_refs`, `_ws_states`, `_relays`, client tables, client queues, the lock | accept, subscribe, disconnect, heartbeat, fan-out, send | handler and heartbeat disconnect one socket; a relay popped while another socket joins it; slow clients; relays that reconnect | one relay per channel, every subscriber served, no slot left behind, newest frame kept, order kept |
| tickets and live page (`ws_ticket.py`, `manager.ts`, `hooks.ts`, `useWsDispatch.ts`) | tickets in Redis, shared managers, reconnect timer, slices | issue, expire, connect, reconnect, dispose, dispatch | dispose during an await, one ticket for two waiting managers, messages of the locomotive before | only the selected locomotive is shown, in order; a ticket admits once; a lost connection is retried |
| report pipeline (`report_request_service.py`, `report_worker.py`) | durable queue, unacknowledged messages, the report's row | publish in the background, deliver, insert, generate, settle | redelivery after a crash or a lost connection, failures inside the failure handler | generated once, never reopened, in the end settled |
| report contents (`report_generator.py`, `report_formatter.py`, `servicer.py`) | none | gather, summarise, detect anomalies, format, read back | the same facts reach a report through different queries, and leave it in three formats | the parts of a report add up; it is shown and downloaded alike |
| analytics aggregator and cache (`aggregator.py`, `health_cache.py`) | fleet table, list of changes, 60 s cache | listeners, publisher every interval | changes drained while they are published; failing pipelines; two listeners of one channel | changes chain, summary and changes describe one moment, subscribers converge, cache and fleet agree where neither missed a message |
| analytics queries (`repositories/`, `servicer.py`, `grpc_client.py`) | the tables | every query and RPC | retention, bucket width, gaps, paging, absent values on the wire | queries of the same rows agree as far as their limits; the client is told what was found |
| api-gateway (auth, health configuration, seed, proxies) | users, locomotives, thresholds | request-at-a-time CRUD | check-then-insert seeding, database then cache | cache follows the database |

`PROJECT.json` lists every component with its status, and under `hazards` each
place in the code where one of these difficulties bites.

## Modules

| Module | Models |
|---|---|
| `RedisStream` | the stream, its consumer group and pending lists; the Redis commands as `shared/streams.py` and the db-writer use them |
| `StreamConsumer`, `StreamConsumerMC` | db-writer replicas: process, reader, queue, workers; EXTENDS `RedisStream` |
| `DurableDelivery` | what the pipeline promises: entries are committed before they are settled, and only evicted or unreadable ones are settled without it |
| `StreamConsumerProofs` | theorems about `StreamConsumer` |
| `TelemetryIngest`, `TelemetryIngestMC`, `TelemetryIngestProofs` | the simulator's tick loop, buffer and client, and the processor's batches |
| `ConnectionManager`, `ConnectionManagerMC`, `ConnectionManagerProofs` | the connection manager with its handlers and heartbeat |
| `ChannelRelay` | a relay's listener, the bounded queue of each client, the senders |
| `LiveDashboard`, `LiveDashboardMC`, `LiveDashboardProofs` | tickets, handshakes, the page's shared managers and slices; EXTENDS `ChannelRelay` |
| `ReportJobs`, `ReportJobsMC`, `ReportJobsProofs` | gateway, broker and report workers |
| `LocomotiveState`, `LocomotiveStateMC`, `LocomotiveStateProofs` | one simulated locomotive and the operator's requests |
| `FleetAggregator`, `FleetAggregatorMC`, `FleetAggregatorProofs` | the aggregator's listener and publisher, the health cache, a subscriber |
| `HealthScore` | health index and alerts of one reading, from the sensor specifications |
| `SensorSignals` | what the generators produce for a healthy locomotive, and the filter; EXTENDS `HealthScore` |
| `HistoryQuery` | the chart's window: table, bucket width, gap markers, thinning |
| `TelemetryArchive` | every query of the repositories, on sets of rows; EXTENDS `HistoryQuery` |
| `AnalyticsService` | every RPC of the servicer, the client's decoding, the gateway's endpoints; EXTENDS `TelemetryArchive`, `HealthScore` |
| `ReportContents` | reports: gathering, summaries, anomalies, formats, reading back; EXTENDS `AnalyticsService` |
| `AnalyticsAnswers` | the small tables over which the functions above are evaluated, and the sets of tables they would mistreat |
| `PromiseProofs` | theorems about the functions and what is promised of them; EXTENDS `FleetAggregatorMC`, where the promises are stated |

### StreamConsumer

An action ends where a coroutine awaits. `reader[c]` is the await the reader
stands at (`read`, `ack` of malformed entries, `put` into a full queue, `sleep`
after an error, `done`); `draining[c]` tells `_drain_pending` from the read loop;
`held[c]` is the local data of `_enqueue_entries`; `worker[c][w]` is a worker's
place with the ids it will acknowledge and the rows it has still to write.
`CommitChunk` is one transaction of `_write_batch`, so a crash or a failure can
fall between two of them. `proc` and `stopping` follow `start()` and `main()`:
SIGTERM sets `_running` to False, and `main` cancels `start()` at once or a little
later, wherever `start()` then waits. Rows are sets of primary keys, because the
insert is ON CONFLICT DO NOTHING. A failing call that took effect is the step
followed by the failure; one that did not is the failure alone. The three streams of
a process share nothing but the connection pools, so one is modelled. Crashes and
restarts, here and in the other modules, are what happens to the program: no lines of it
stand behind `Crash` and `Restart`.

An entry that MAXLEN or a Redis restart removed while it was pending is delivered
without fields; `_enqueue_entries` cannot tell it from a malformed one and
acknowledges it. `DiscardedIsUnreadable` and `DurableDelivery` say so.

### ConnectionManager

asyncio runs one coroutine until it awaits something that is not ready. `running`
names the coroutine that has not yielded since it was resumed; taking a free lock
does not yield, so `accept` and all of a handler's subscriptions run in one go
unless the lock is contended. `at[a]` is the place of each actor (the handlers and
the heartbeat), `target[a]`, `todo[a]` and `dropping[a]` are the locals of its
`disconnect()`. `waiters` and `locked` are the lock; asyncio hands it on in the
order of arrival.

The one await under the lock is `ws.close()` of a rejected socket. That of uvicorn
does not suspend before the handshake; the ASGI interface allows it. `Suspending` is
the set of sockets for which it does, and `Contended` says that it has happened. The
properties about relays hold while it has not. They rest on it: without the premise
`~Contended`, TLC violates `SubscriberIsServed` with four sockets at a limit of two and one
suspending close, because a disconnecting client that was the last of a relay waits for the
lock behind a socket that then subscribes to that very relay, and pops it.
`GoneIsForgotten` holds either way for the manager's tables.

### ChannelRelay and LiveDashboard

`relay[c]` is where a listener stands, `inbox[c]` what Redis has sent it, `slots[s][c]`
the `_ClientSlot` of a socket on a channel with its queue (drop-oldest at
`QueueMax`), `wire[s]` the frames the transport has taken. A listener that fails
loses its inbox and what is published until it has subscribed again. Registration is
`ConnectionManager`'s subject; here a socket has a slot for each of its channels from the
handshake to its close.

`managers` are the `WebSocketManager`s ever made, the last one being the shared one.
`at` is what a manager awaits: its ticket, the handshake, an open socket, the
reconnect timer, or nothing, with `why` it came to rest. React commits a page first and
runs its effects in a later task: `Render` changes what the page names, and `Select` or
`Unmount` are the cleanups and effects of that commit, which run without a pause: the old
manager is released, the next one acquired, and the slices are reset. In between, the page
names the new locomotive beside the slices of the old one, which `ShownIsSelected` allows
for. One component uses `useWebSocket()`, so the reference count of a shared manager is 1
while it exists and is left out. A new manager first requests a
ticket; RTK Query gives managers that wait at the same time the same ticket. A
manager disposed while it awaits its ticket goes on to open a socket that nobody
closes: the code leaks it, and the properties say that it shows nothing.

`Reconnects` starts from the loss itself: whatever state `onclose` leaves a mounted page's
manager in, it is in the end connected again, unless it is left, its ticket is denied, the
server closed it cleanly, or as many handshakes as allowed were refused in a row.

### TelemetryIngest

`place` and `posts` are the runner inside `_do_tick` and `_flush_buffer`: a post is
a running `post_batch()`, with the handler its current attempt waits for. An
attempt that fails leaves that handler where it is, so a retried batch can be
computed twice at once, or once and answered to nobody. `requests` are the
handlers; those of one process share `ema[p]` and `damage[p]` and interleave
between the reads and writes of their pool threads. Which process takes a request
is the kernel's choice. A reading has one aging sensor, and the tables are
abstracted to what the properties tell apart: the filter's state to the tick it
took in last, the damage to the number of increments. `produced` and `dropped` are
history variables. After `MaxTicks` ticks the generators make nothing more, and
ticks go on to flush the buffer.

### ReportJobs

`tasks` has a record per delivery, since `connect_robust()` may deliver a message
again to a process whose first handler still runs. `live` says whether that
handler's connection still exists, that is, whether its acknowledgement counts.
`row` is the status of the job's row and `Settle` is the end of
`message.process()`, acknowledgement or rejection without requeueing.

### LocomotiveState

`loco` is the record of one locomotive, or `None`. A `Tick` is the order of the code:
scenario and ramps, mode transition, movement along the segment, arrival. What the
code draws at random (the drift of the cruising speed, the durations of modes) is
any value of its range. Speeds and distances are whole numbers. The requests are
POST, PATCH, DELETE and the departure endpoint with every field a body may have; a
PATCH of one field is enough, because one of several has the effect of several
between two ticks. `arrived` is a latch: once set, a locomotive whose operator sends
it on is not removed when it arrives again.

### FleetAggregator

`inbox` and `subscribed` are the two listeners' Redis connections, `fleet` and
`changes` the aggregator's `_fleet` and `_changes`, `sending` what the publisher's
pipeline holds while it is awaited, `cache` the health cache. `told` and `counted` are what
a subscriber holds, the two reducers of `fleetSlice.ts`: it applies the changes and keeps the
last summary. `lost` is the locomotives a change of which may be lost since the subscriber
last received one, and `missed` those whose last message a listener did not get: both are
history. The pipeline is not a transaction: the summary may go out and the changes be lost. A
failed pipeline and a restart leave `told` and `counted` as they are, as they leave real
subscribers; `Believed` is what a subscriber knows but for the lost locomotives, and
`ChangesChain` and `SummaryAgrees` speak of it. `SubscribersConverge` says that the counts
become right whatever was lost, and the markers of all other locomotives too. Locomotives that
fall silent stay in `_fleet` for ever; so they do here.

### The functions

`HealthScore`, `SensorSignals`, `HistoryQuery`, `TelemetryArchive`,
`AnalyticsService` and `ReportContents` have no variables: they are what the program
computes, each operator named for the function it translates, in integer units
(hundredths of a sensor's unit, thousandths of a score). SQL is a set expression over
rows; the order of a result is only fixed where ORDER BY fixes it. proto3 has no
absent scalar, so `OnWire` and `FromWire` send what is absent as the zero of its type
and take a zero for absent, but where the message has a flag.

What is promised of them compares two of them, or one with what the reader is shown: the
alert evaluator with the health index, the chart with the series it is drawn from, a
list with the count beside it, a report of the fleet with those of its locomotives. Each
promise is that a set of mistreated inputs is empty, over every input of a bounded
family, evaluated in the initial state of the run `fleet`.

Some of what the operators show is stated in the model as the code has it:

- `calculate_component_score()` of the reports and `_compute_health_from_readings` of
  Analytics ("mirrors processor") are other formulas than the processor's; a report shows
  its own score beside the category of the processor's latest snapshot.
- The processor judges the category on the unrounded score and stores it rounded: 79.996
  is stored as 80.0 with the category below. `DisagreeingSnapshots` counts the stored
  categories only of windows without such a snapshot (`Lifted`).
- A z-score above 3 does not exist in ten samples or fewer, so `MissedSpikes` starts at
  eleven.
- A report of one locomotive lists and counts 500 alerts at most, one of the fleet counts
  all; the CSV of a report has its rows only, and is an empty file without any; the fleet's
  CSV has no alert summary; an empty fleet is judged as the worst category.
- `GET /locomotives/{id}/health/at` fails when a snapshot exists: its answer lacks the
  locomotive's id, which the response model requires.
- The synchronous report endpoint passes a database session where an Analytics client
  is expected and cannot succeed.
- `_lttb()` keeps of the markers in one bucket the first, and a bucket followed by one that is
  nothing but a marker contributes that marker in place of a row of its own, so the marker is
  repeated. `telemetry_repository.py:116` says that gap markers "pass through" and `:162`
  "Always preserve gaps": they are not all preserved. `BridgedSeries` checks what is left of it
  in the chart, which always thins: no line is drawn across a gap, time never goes back, and
  size and ends are kept. `MismarkedSeries` is about the markers before thinning, and
  `MisdrawnSeries` adds the spike for series without gaps.
- The evaluator masks an oil pressure while the engine sleeps and one that the engine's speed
  explains (`alert_evaluator.py:165-190`); `health_service.py` has neither mask and charges for
  them. `Misjudged` compares the alerts with the penalties and excepts just these.
  `src/README.md:120` says that the sensors of a sleeping engine are excluded from the penalty:
  they are not, and its oil pressure alone takes its best category. `MisjudgedDiesels` demands no
  category asleep but that it is never the critical one.
- The generator drives the diesel's speed and fuel rate out of their zone in its two
  top notches, and a recuperation current of zero is an alert: `MisjudgedDiesels` and
  `MisjudgedElectrics` except them by name, and leave the best category free in the top notch.
  Each sensor's noise is at an end of its own. After the engine falls asleep or wakes, the
  smoothed speed and pressure may disagree for eleven readings, that of the switch
  included, and an oil pressure alert may be raised: `SettleReadings`.
- The list of the worst locomotives has ten rows at most (`grpc_client.py:292`), while a fleet
  has 1700 (`src/README.md:21`): `DisagreeingSnapshots` and `MisjudgedFleets` speak of as many as
  the limit lets through, the worst first, and of the fleet's highest score only when all are on
  the list. `LargeFleets` has fleets of ten to twelve, with ties at the limit.
- `MisaddedReports` adds up alerts while no locomotive has more than a report of it reads (500).

## Runs

| Run | Bounds | Shows |
|---|---|---|
| `writer_replicas` | 2 replicas, 1 worker each, 2 entries, queue of 1, read batches of 2, write chunks of 1 row; 1 crash or SIGTERM, 1 failing call, 1 Redis restart, MAXLEN 1 | the safety properties and the refinement of `DurableDelivery` |
| `writer_live` | 1 replica, 2 workers, 2 entries, read batches of 1; 1 crash or SIGTERM, 1 failing call | progress of the drain and of the shutdown, and that nothing is forgotten |
| `writer_retry` | no crash, 1 failing call, violation | a failed batch is not "replayed by _drain_pending" while its replica runs |
| `ws_relays` | 3 sockets, 2 channels (two sockets on both, one on the second), limit 2, one socket whose rejection suspends | relays, slots and eviction under every interleaving |
| `live_page` | 2 locomotives, 2 managers, alerts and health, queue of 1, 1 frame on the wire, 2 messages, 1 reconnect attempt, 2 faults | what the page shows, the tickets, the reconnection |
| `report_jobs` | 2 jobs, 2 workers, 1 failing call, 1 crash, 1 lost connection | generation at most once, no reopening, no loss before the row exists, settlement |
| `report_stuck` | 1 job, 1 worker, 1 crash, violation | a crash after the PROCESSING commit leaves the report processing for ever |
| `ingest_fleet` | 2 locomotives in batches of 1, 1 process, buffer of 1, 2 ticks, 2 failing calls | the buffer's drain, the order in which a process filters, the published damage |
| `ingest_retries` | 1 locomotive, batches of 2, 2 attempts, buffer of 2, 3 ticks, 1 failing call, 1 lost answer, 1 restart | `events_sent` adds up, and what left the simulator is stored |
| `ingest_processes` | 1 locomotive, 2 processes, 2 ticks, nothing fails, violation | the published damage shrinks when batches change process |
| `locomotive` | routes of 4 and 2, speeds to 2, ramps of 3 and 2, modes of 1 or 2 ticks, 5 requests | the place on the route, the emergency stop, the ramps |
| `fleet` | 2 locomotives, 3 categories, 3 messages, 2 faults; in the initial state every table of up to 3 readings, 2 alerts and 3 snapshots of 2 locomotives over 3 instants, fleets of 10 to 12 locomotives, every series of up to 7 rows with and without gaps and thinned to every size from 3, every steady state of both locomotives at the ends of their speed and with every sensor's noise at either end, every history of up to 36 readings in three phases, every window of up to 72 hours | the aggregator's and the cache's agreement, and the promises of the functions |

Why the bounds are enough. Two entries with a read batch of two give batches of
several chunks and a queue of one is full at once, so backpressure, partial
commits and replies split over batches all occur. MAXLEN 1 evicts an entry as soon
as the next one arrives. One stop gives a restart, and one fault is enough to break
every call at every point; `MaxWipes` bounds Redis restarts. Three sockets are the
smallest number where two share a relay while a third comes or goes, and the third is
over the limit while they are registered; peers that go
silent and never close are the heartbeat's reason. Two managers are a page that changes
locomotive while everything of the one before is under way; a queue and a wire of one
frame are full after one message, and a second one drops it. Two report workers let a
redelivered job overtake its first handler. Two ticks with
two failures make an old reading meet a newer one in the buffer, and a buffer of one
overflows; the third tick of `ingest_retries` is the one a late handler races. Five
requests reach every mode, scenario and segment and change a route under a moving
locomotive. Three messages make two changes of one locomotive straddle a pipeline, with
another locomotive between them. The tables of `AnalyticsAnswers` hold rows on both sides
of every window, of every filter and of the thresholds of the categories, and equal
rows at one instant; each list is asked for with a limit below and one above the rows, that
of the worst locomotives with the code's own limit of ten and more locomotives than that. The
families of `SensorSignals` have every setting of the code, the ends of the speeds and of the
noise, and the zones of every specification; what lies between is what the theorems add.

Entries, stops, faults, ticks, requests, messages, restarts, crashes and lost connections
are bounded in guards; deadlock checking is off where those bounds let the system come to
rest (and a db-writer whose drain failed stays up without consuming), and on for the
connection manager and the ingestion, whose heartbeat and operator never rest. Replicas
are symmetric, and symmetry is used in the safety run of the db-writer only.

### Fairness

Coroutines that can go on do: asyncio's loop is fair and the calls they wait for
end, successfully or not. Nothing forces an entry, a peer's action, a request of an
operator, a crash or a failure.

- db-writer: the reader, the workers, the pills, the cancellation and the exit. No
  fairness on `Start`, since docker-compose gives it no restart policy; the liveness
  properties speak of running replicas. A blocked `put`, a full queue and a worker's
  `get` are states without a fair step of their own: that they are left is what the
  properties check.
- `ConnectionManager`: the handlers, the heartbeat's loop and the lock. The heartbeat's
  pings and the closing of a socket end because uvicorn's keepalive fails a dead
  connection.
- `LiveDashboard`: a ticket request is answered, a handshake ends, a timer fires; which way
  they end is free. No message is ever due.
- `ReportJobs`: publication, delivery, the handlers, and the restart of a crashed worker,
  which makes the counterexample of `report_stuck` the stronger.
- `TelemetryIngest`: the runner and the handlers go on and an attempt that is not answered
  times out; `BufferSettles` assumes a fleet that stays non-empty, because `_do_tick`
  returns before the flush when it is empty.
- `LocomotiveState`: ticks go on.
- `FleetAggregator`: listeners subscribe again after their backoff, read, and the publisher
  starts and ends its pipeline.

### What the violations say

- `writer_retry`: `_drain_pending` is called once, before the read loop.
- `report_stuck`: the primary key that makes `GeneratedOnce` true makes every
  redelivery fail, and the failing INSERT is outside the `try` that records FAILED.
- `ingest_processes`: `filter_service.py` and `health_service.py` keep their state in
  module globals for a "single replica", and the Dockerfile starts four processes.

## Proofs

Every proof assumes the named assumptions on the constants only, and holds for any
bounds on faults, crashes, messages and requests.

`StreamConsumerProofs`, for any finite set of replicas and workers, any entries, batch,
chunk and queue sizes:

- `TypeCorrect`: `Spec => []TypeOK`;
- `WriterSafe`: `Spec => []CommittedBeforeAck`;
- `DiscardsOnlyPoison`: `Spec => []DiscardedIsUnreadable`;
- `NothingVanishes`: `Spec => []DeliveredIsAccounted`;
- `NothingIsForgotten`: `Spec => []NothingForgotten`;
- `DeliversDurably`: `Spec => ImplementsDurableDelivery`, the refinement.

`CommittedBeforeAck` is not inductive: the acknowledging step must know that the
batch it acknowledges was written. `RowsInv` says so of every place a batch passes
through: the rows of the ids that are held, queued or being written are, for each
id, already in the table or still in the batch's `rows`, and a worker that stands
before its XACK has no rows left. `Decode` establishes it, `Enqueue` and `Dequeue`
carry it, `CommitChunk` moves rows from the batch to the table, `AckBatch` uses it, and
`XAck`, eviction and restarts do not touch what it speaks of.

`DiscardsOnlyPoison`, `NothingVanishes` and `DeliversDurably` share one lemma, `NextEffect`: of
all actions, a step appends, wipes, delivers, commits, acknowledges what is written or what is
poison, or keeps the stream and the ledgers. `DiscardInv` adds to `DiscardedIsUnreadable` that
what the reader holds as poison is unwritable, which it stays because the log only grows and
`trimmed` only rises.
`DeliveredIsAccounted` is inductive as it stands: XREADGROUP delivers without a gap, and
what an XACK takes from a pending list it puts in a ledger. The refinement maps the
effects to `Append1`, `Evict`, `Commit`, `Settle` and stuttering; `Commit` needs
`LoggedInv`, that the rows on their way to the table belong to appended entries, and
`Settle` needs `RowsInv` and `DiscardInv`.

`NothingForgotten` speaks of a replica's memory. It needs `Hands`: a reader that stands
before its next read, and a worker that waits for a batch, hold nothing, so that taking the
next batch lets nothing fall. That the drain has left nothing behind is the lemma
`PendingIsEmpty`: XREADGROUP "0" returns nothing only of an empty pending list.

`ReportJobsProofs`, for any jobs and workers:

- `ReportTypeCorrect`: `Spec => []TypeOK`;
- `OneGenerator`: `Spec => []GeneratedOnce`;
- `NoJobLost`: `Spec => []HeldUntilStarted`;
- `SettledStaysSettled`: `Spec => NeverReopened`;
- `SettledIsFinal`: `Spec => TerminalIsFinal`.

Neither invariant is inductive. `GeneratedOnce` needs `GeneratingHasRow`: a handler
that generates left a row behind, so the primary key refuses the INSERT of a second
one. `HeldUntilStarted` needs to know that a handler never settles another job's
message: `LiveHoldsMessage` says that the broker holds a live handler's message on
its connection, and `LiveIsAlone` that a connection has one live handler, because
prefetch_count is 1 and a lost connection makes its handlers stale in the same step.
What a settling handler leaves is then a row, or a fault has been counted.
`TerminalIsFinal` adds `UnsettledIsPending`: while calls succeed, the row of a job that a
handler still has to settle is `processing`, so what that handler writes overwrites
nothing final.

`LocomotiveStateProofs`, for any routes, speeds, ramps and mode lengths:

- `LocomotiveIsTyped`: `Spec => []TypeOK`;
- `LocomotiveStaysOnRoute`: `Spec => []OnRoute`;
- `RampsStartAfresh`: `Spec => FreshRamp`.

`OnRoute` is not inductive for the segment: a locomotive that turns at its end must find
its start before it. `Placed` orders segment and route, and one lemma per helper of a
tick and per request shows that it is kept. `FreshRamp` needs `OnRamp`: the override that a
scenario drives stands where `scenario_tick` does, or the scenario is at the start of its
ramp. A tick moves both, a request that changes the scenario resets one, and no other part
of a tick or request touches either (`SameRamps`).

`FleetAggregatorProofs`, for any finite fleet and any categories:

- `FleetIsTyped`: `Spec => []TypeOK`;
- `ChangesAreADelta`: `Spec => []ChangesChain`;
- `SummaryMatchesChanges`: `Spec => []SummaryAgrees`;
- `ListenersAgree`: `Spec => []CacheAgrees`.

The invariant of the first three adds to `ChangesChain` that an unknown locomotive has no
change under way and no subscriber knows more of it (`UnknownIsQuiet`), that the changes of a
locomotive have a last one (`HasLast`), and that what a pipeline holds describes one fleet
(`Together`). It is kept by `StartPublish` because the summary and the list of changes are
taken between two awaits, and by a failing pipeline and a restart because nothing is believed
of the locomotives whose changes are lost (`Believed`).
`CacheAgrees` needs `WillAgree`: the last message of a locomotive that is still in one
listener's inbox is what the other has already applied.

`ConnectionManagerProofs`, for any finite sets of sockets and channels, any order of
subscription, any limit and any set of sockets whose rejection suspends:

- `ManagerIsTyped`: `Spec => []TypeOK`;
- `OneSubscriptionPerChannel`: `Spec => []OneRelayPerChannel`;
- `EverySubscriberIsServed`: `Spec => []SubscriberIsServed`;
- `SlotsAreReleased`: `Spec => []NoSlotLeftBehind`;
- `UvicornNeverContends`: if no rejection suspends, `Spec => []~Contended`, so that the
  premise of the three holds for the server the repository runs.

The code does several things to a relay between two awaits, and in between its tables
disagree: a slot whose socket has left, an empty relay that is still in the table. The
invariant names the actor that is in between. `Orderly` says that while the lock was
never held across a yield nobody waits for it, and an actor at one of the places
`Busy` is the one the event loop runs, so that there is one at most. `RelayInTable` and
`Served` relate sockets, slots, table and listeners, `SlotHasOwner` excuses a slot that a
`disconnect()` is about to remove, and `Leaving` says that a relay about to be popped is
empty. The last would fail if another handler could subscribe before the pop: this is the
place where a contended lock breaks `SubscriberIsServed`.

`LiveDashboardProofs`, for any finite set of sockets, any locomotives, sizes of queue and
wire, numbers of managers and of attempts:

- `PageIsTyped`: `Spec => []TypeOK`;
- `OnlyTheSelected`: `Spec => []ShownIsSelected`;
- `OneSocketPerTicket`: `Spec => []TicketAdmitsOnce`;
- `NewestIsNotDropped`: `Spec => []NewestSurvives`;
- `FramesOvertakeNone`: `Spec => ShownInOrder`.

A frame passes from a relay's inbox to a slot's queue, to the wire and to the page, and
each of them is ordered (`InboxInOrder`, `QueueInOrder`, `WireInOrder`), each after the one
it feeds; dropping the oldest of a full queue keeps an order and never takes the
last. `ShownIsOldest` ends the chain at the page: what is shown is older than all that can
still reach it, and is of the locomotive the mounted manager asked for, because a socket's
slots are for the channels of its handshake (`SlotsAreOpen`, `OneSlotPerKind`) and a
disposed manager dispatches nothing (`LastIsMounted`). `TicketsAreIssued` keeps the open
sockets' tickets out of those still stored.

`TelemetryIngestProofs`, for any finite fleet, batch and buffer sizes, retries and faults, and
any processes:

- `IngestIsTyped`: `Spec => []TypeOK`;
- `EveryReadingIsAccounted`: `Spec => []EventsAddUp`;
- `NothingSentIsLost`: `Spec => []SentIsStored`;
- `TheFilterRunsForward`: `Spec => FilterInOrder`;
- `DamageOfOneProcessGrows`: with one process, `Spec => DamageNeverShrinks`. Without the
  hypothesis it is false, as `ingest_processes` shows.

The first invariant, `Base`, counts. `Pending` is the readings of the posts in flight
followed by those of the buffer; `Ledger` says that it repeats nothing, shares nothing with
what fell out of the buffer, and that both with `events_sent` make up what was produced.
That the gather splits the batches into acknowledged and kept ones, that a flush puts back
what it took and that an overflowing deque loses as many as were appended too many is
arithmetic over sequences of sequences. `Stored` is what `NothingSentIsLost` adds: while no
call fails, a handler past its XADD has stored its batch, and a post succeeds only with the
answer of such a handler; a late handler of an attempt that timed out can only add rows.

The two action properties have a premise, `Calm` (every answer arrives, no restart, one
failing call at most), and `Orderly` shows what it buys: a handler runs only for the one
post that awaits it, one batch at most is lost, and it is sent again and answered in the
flush of the same tick (`FlushedOnce`), so that every reading on its way is of the last tick
(`Newest`) and no filter is ahead of it. `Sound` adds for one process that a locomotive is in
the batch of one handler, hence the read and the write of its damage are not
interrupted, and that the damage shown is at most each health on its way, which is at most
the damage of the state.

Their first section proves what the model's sequence operators return for every
sequence: `FlattenSeq` (type, range, length of a partition, absence of repetition),
`Batches`, `SetToSeq`, `Max`. These are inductions, made without the library's induction
theorems: `Smallest` gets the least element of a set of numbers from the
well-foundedness of their order, and `Induction` states induction for a set of numbers
instead of a predicate. It needs a recursive function that is a CHOOSE over one function
set, as the fold under `FlattenSeq` is.

`PromiseProofs` is about the functions. It states each result first for every input, and
then draws from it the promise that the run `fleet` checks on its inputs. Of the judgement
of a reading:

- `AlertsAndHealthAgree`, for every specification the sensors' ranges allow and every
  value: what costs health violates its threshold, what violates it by enough to count
  costs health, and what costs more of its weight is never the less severe;
- `SilentSensors`, for any reading of either type: only the oil pressure may cost health
  without an alert, while the engine sleeps or where it is not below the critical pressure;
  `AlertsMirror`: `Spec => []AlertsMirrorHealth`;
- `EngineSettles`, for a history of the engine of any length: no false alarm of the oil
  pressure once there was no switch in the last eleven readings; `AlarmsSettle`:
  `Spec => []FalseAlarmsSettle`;
- `WhateverTheNoise`, for every speed from 0 to 110, every setting and any noise of each sensor
  within its bounds: no alert but for the sensors named, never the critical category, and the
  best one but in the top notch and asleep; `HealthyAreQuiet`: `Spec => []HealthyIsQuiet`.

Powers and roots in thousandths are monotone (`PowerMonotone`), which gives the first. For the
second, the filtered speed of a sleeping engine falls by a quarter of itself each reading and
is below the threshold of the mask at the twelfth (`SlowBelow`); while it runs, what its
pressure exceeds the expected one by rises towards a positive limit from wherever it was
(`RisenTo`). For the noise, a total penalty with all sensors but three in their zones is the
penalty of the three (`OthersCostNothing`), and each working point is within its zones but
for the ones the promise names.

Of acknowledgements:

- `AcknowledgementsLast`, for any sequence of rows stored and ids acknowledged: what was
  acknowledged stays, and no id has two rows; `AcknowledgementsStay`:
  `Spec => []AcknowledgedStays`.

Of the chart:

- `WindowsFit`: no window up to three days has more rows than the chart's limit;
- `GapsAreMarked`, for a series of any length before it is thinned: markers stand between the
  rows further apart than three buckets, and nowhere else;
- `ThinningKeepsTheShape`, for a series without gaps of any length thinned to any number from
  three: both ends, their order and a single spike are kept;
- `ThinningKeepsTheBreaks`, for a series with its markers: the ends are kept, time never goes
  back, and no line crosses a gap;
- `ChartIsTrue`: `Spec => []ChartShowsTheData`.

The number of rows inserted before a row counts the gaps before it, by induction over the
series; the buckets of the thinning follow one another and each gives one row; of the
triangles drawn in the bucket of a spike, that of the spike is the largest. With gaps, no two
markers are neighbours (`LoneGaps`); a bucket gives a marker of its own, or a row if it has
none, or, before a bucket that is a single marker, that marker (`PickWithGaps`), and in each
case the line from the row picked before crosses no gap.

Of what the client is told:

- `ChartsAreTold`, `ListsAreTold`, `PlacesAreTold`, `HealthIsTold`, for every table, question
  and cache: the client decodes what the query found. `PlacesAreTold` assumes that no reading
  was made at latitude zero, which the wire cannot tell from no place at all;
- `AnswersAreTold`: `Spec => []AnswersAreTrue`.

Of lists, counts and anomalies:

- `NewestComeFirst` and `CountsMatchLists`, for every table of alerts: the page of a list has
  the newest, and a count is the length of a list with room for all;
- `SpikesAreFound`, for any number of equal values with one off: the detector finds it from
  eleven values on, and nothing in fewer.

All inductions are over sets of numbers (`Induction`, and `UpTo` for an interval), and sums
over sets are taken apart element by element (`SumsUp`).

### What stays with TLC

- Liveness under fairness, since the prover does not reason about ENABLED:
  `DrainSettlesPending`, `ShutdownTerminates`, `GoneIsForgotten`, `Reconnects`,
  `RequestedSettles`, `BufferSettles`, `EmergencyStops`, `SubscribersConverge`.
- `QueriesAgree` and `ReportsAddUp`. The rows they compare are sorted by `SetToSortSeq`,
  joined with `@@` and filtered by `SelectSeq`, library operators that the prover has no
  facts of and cannot unfold. `NewestComeFirst`, `CountsMatchLists` and `SpikesAreFound` prove
  what they say of the alerts' lists and of the detector, for every table.

## What is left

1. `TelemetryIngest` with the operator's bursts, the deduplication of readings of 10 Hz and
   more, and duplicated alert and health rows.
2. An abstract lossy channel that `ChannelRelay` refines, for one subscriber.

## Not modelled

- `ConnectionManager.shutdown`: it runs when the process ends, and what it leaves ends with it.
- Report polling of the dashboard: it belongs to the rendering library's own scheduling. A
  second request of a report still sees the final status of the first for a moment, which
  stops its polling; it is listed under the hazards without a property.
- Dashboard stores but for the two reducers of `fleetSlice.ts`, pages and components: bounded
  lists and rendering. `useFleetDispatch()`, which feeds those reducers, is used by no component.
- The gateway's users, locomotives, seed and health configuration: one request at a time on
  one table; the configuration's Redis copy is read by no service of the repository.
- The single-reading endpoint of the processor, which no service calls, and its unit
  conversions, which nothing calls.
- Route geometry and message encoding: floating-point computation and a library.
- Drawing of the PDF, texts, colours and layout but where they depend on data.
- Observability, generated code, migrations, tools and deployment.
