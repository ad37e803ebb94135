# A verification of Kprobe

Kprobe collects kernel events with eBPF probes, enriches them with trace context, stores them in
ClickHouse, infers a causal graph in Neo4j and lets a user look at both, live and in replay, in a
console that runs in the browser. This directory models the parts of it whose correctness depends
on order, concurrency or failure. Paths below are relative to the repository (`src/`).

Every module is model-checked with TLC on a small instance; all safety properties that hold are
also proved with TLAPS, for every value of the constants.

## The system

    eBPF probes -> probe agent -> kernel.raw -> Vector -> kernel.enriched
                                                              |
         +--------------------------- engine -----------------+--------------------+
         |  consumer -> handler: enricher -> { ClickHouse store, inference, publisher } |
         |  otel consumer -> enricher                                               |
         +--------------------------------------------------------------------------+
                    |                    |                         |
               ClickHouse              Neo4j               kernel.processed
                    |                    |                         |
         api: queries, replay sessions, streams        broadcast consumer -> hub -> /ws
                                                                   |
                                                                console

| component | state it keeps | operations | talks to |
|---|---|---|---|
| eBPF probes (`probe/probe-ebpf`) | ring buffers, drop counters | reserve, submit | probe agent, by ring buffer |
| probe agent (`probe/probe`) | one fallback queue per event class | drain, retry, publish | Kafka |
| Kafka consumer (`engine/consumer/kafka.go`) | reader position, `commitCh`, `dlqCh`, the worker's batch | fetch, route, acknowledge, commit, dead-letter | handler by callback, Kafka |
| enricher (`engine/enrich`) | per shard: halves in flight, spans of a process | `Process`, `AddSpan`, `evictStale` | called by the handler, the span consumer and a ticker |
| event store (`engine/store`) | buffer, signal, batch in flight | `InsertEvent`, flush with retries, `Close` | ClickHouse |
| causal engine (`engine/inference`) | input channel, window, two windows over windows | `Ingest`, `Run`, flush | graph store |
| graph store (`engine/graph`) | none | write nodes, write edges | Neo4j |
| publisher (`engine/publisher`) | none | asynchronous write | Kafka |
| replay session (`replay/session`) | state, cursor, cancel function, goroutines | `Play`, `Pause`, `Stop`, `Seek`, `Reset`, `ReplaceEvents` | `onEvent` callback |
| replay service (`api/handlers/replay.go`) | sessions, watchers' channels | RPCs, `fanOut`, `WatchReplay` | sessions, gRPC clients |
| hub, broadcast consumer (`api/stream`, `api/consumer`) | subscribers' channels | broadcast, subscribe, unsubscribe | `/ws` and `StreamEvents` handlers |
| queries, authentication (`api/handlers`, `api/auth`) | none | read, check a token | ClickHouse, Neo4j |
| settings (`console/src/pages/Settings.tsx`, `api/handlers/settings.go`) | the form, a copy in localStorage, a copy in the API's memory | load, save, reset | `/api/settings` |
| console connection (`console/src/hooks/useConnection.tsx`) | messages, seen keys, socket, timer | hydrate, receive, reconnect | `/ws`, `/api/events` |
| console shell (`App.tsx`, `components/`, `pages/Login.tsx`, `lib/auth.ts`) | token, page, login form | sign in, navigate, sign out | `/api/auth/login`; mounts the pages |
| feed pages (`pages/Stream.tsx`, `pages/Timeline.tsx`) | events shown, filters, selection, canvas | process messages, pause, filter, clear, select, zoom | the connection's messages |
| graph page (`pages/Graph.tsx`, `lib/debugAnalysis.ts`) | graph, summary, chain requests | infer edges, fetch a chain, select, clear | messages, `/api/causal-chain` |
| replay page (`pages/Replay.tsx`) | incident, playhead, injections | play, pause, scrub, step, inject | nothing: its incidents are built in |
| documentation search (`www/src/components/SearchModal.tsx`) | query, cursor, index | open, type, move, go | `/search-index.json` |

What is hard here:

* *Acknowledgement against durability.* Records are acknowledged on another goroutine's schedule
  than the one that stores them, commits are batched and may fail with or without effect, the
  store retries writes that are not idempotent, and shutdown runs all of this concurrently.
* *Pairing.* Two halves of a call are joined by thread alone, so loss, reordering and eviction
  decide what is joined.
* *Windows.* The causal graph is built from arbitrary cuts of a stream that is not in time order,
  with two kinds of memory over the cuts, against a store that may refuse any write.
* *Playback goroutines that outlive their cancellation*, with watchers that come, go and stall.
* *The live feed*, in which history and live events meet at the browser, over sockets that come
  and go and an API that repeats itself after a restart.
* *A page and its requests.* Answers come late, out of order or never, to a page that has moved
  on, was left or was mounted twice; a canvas shows what it was last painted with.
* *The agent's queue*, through which a broken broker delays, reorders and drops events.

The properties that make each component correct are listed with its run below; the hazards they
answer to, each at its line, are in `PROJECT.json`.

## Modules

| module | models | composes |
|---|---|---|
| `ClickHouseStore` (+ `ClickHouseStoreProofs`) | `engine/store/clickhouse.go` | |
| `Consumer` | `engine/consumer/kafka.go` | |
| `Delivery` | nothing: the promise that `EngineIngest` implements | |
| `EngineIngest` (+ `EngineIngestProofs`, also for `Consumer`) | `engine/main.go`: handler, shutdown, crash, restart | `Consumer`, `ClickHouseStore` |
| `Enricher`, `MCEnricher` (+ `EnricherProofs`) | `engine/enrich/enricher.go` | |
| `CausalRules` | the pure rules of `engine/inference/engine.go` | |
| `Inference`, `MCInference` (+ `InferenceProofs`) | the engine's goroutine and `engine/graph/neo4j.go` | `CausalRules` |
| `ReplaySession` | `replay/session/session.go` | |
| `ReplayWatch` (+ `ReplaySessionProofs`, for both) | `fanOut` and `WatchReplay` of `api/handlers/replay.go` | `ReplaySession` |
| `LiveFeed` (+ `LiveFeedProofs`) | `api/stream/hub.go`, `api/consumer/broadcast.go`, the `/ws` handler, `StreamEvents`, the shutdown of `api/main.go` | |
| `Probe` (+ `ProbeProofs`) | `probe/probe-ebpf/src`, `probe/probe/src` | |
| `Lists` | `slice(-n)` and `filter`, as the console's lists use them | |
| `Connection` | `console/src/hooks/useConnection.tsx` | `Lists` |
| `FeedPages`, `MCFeedPages` (proved in `FrontendProofs`) | `pages/Stream.tsx`, `pages/Timeline.tsx`, `lib/wireEvent.ts` | `Connection` |
| `Shell` | `App.tsx`, `components/RequireAuth.tsx`, `components/Shell.tsx`, `pages/Login.tsx`, `lib/auth.ts` | |
| `GraphPage` | `pages/Graph.tsx`, `lib/debugAnalysis.ts`, `lib/api.ts` | `Shell`, `Lists` |
| `ReplayPage` | `pages/Replay.tsx` | `Shell` |
| `SettingsPage` | `pages/Settings.tsx`, `api/handlers/settings.go` | `Shell` |
| `SearchModal` | `www/src/components/SearchModal.tsx` and the index it reads | |
| `Frontend`, `MCFrontend` (+ `FrontendProofs`) | which page is mounted, and when | the last five |

`Lists` has `Filter`, a recursive function in place of `SelectSeq`, so that the proofs can reason
about it; `MCFeedPages` compares the two on all short lists.

Operators named `X_Y` are not part of the specifications: each is `X` with a plausible mistake,
and shows that a property depends on the code being right there.

### ClickHouseStore

`buf`, `signalFlush` and `closing` are the struct's fields, `flusher` is the program counter of
`flushLoop`, `batch` and `attempt` belong to `executeFlush`. `InsertEvent` is two steps, because
it signals after it unlocks. One attempt to write succeeds, fails before the server kept the rows,
or fails after it did. The ticker may fire whenever the flusher is in its select. Uuids are fresh,
so events are distinct.

### Consumer

One partition with the records `1 .. N`. `loop`, `worker` and `dlqWorker` are the three
goroutines, `commitCh` and `dlqCh` the bounded channels between them. `Commit` takes the whole
batch and forgets it when Kafka fails. The committed offset outlives the process; `Restart`
resumes after it.

### EngineIngest

The module extends `Consumer` and instantiates `ClickHouseStore` as `S`, whose batch is `flushBatch`
here. The handler is a step of the consumer and of the store at once, and the first half of a system
call is held instead of stored. `CancelEngine`, `CloseConsumer`, `CloseStore` and `Exit` follow main's
deferred calls; `Crash` may come at any other moment. `emitted` (the records whose event was inserted
before the store was closed) and `resumed` (where a process started) are history: with them
`AcknowledgedAccounted` excepts exactly the halves that an earlier process acknowledged and whose
pair it had not inserted by then.

`Delivery` is what the engine promises by all this, in three sets and a count: the records
acknowledged, in memory and settled (stored or given up), and the number of crashes. It speaks of
the records that make an event of their own; a half may be lost at a graceful stop too. Its actions
model no code, but `D` in `EngineIngest` says which of the engine's state each of its sets is, and
`Delivers` that the engine implements it. On the instance of the run `ingest` TLC finds it to hold;
in the run itself `LossOnlyByCrash` stands for it.

### Enricher

Events come on feeds that are ordered in themselves, interleave freely and, where lossy, lose
events. `FeedAssumption` asks little of them: a thread and a block key each have one feed, and two
deliveries of one event are told apart (`copy`). In what order a feed brings its events is open, and
requests may share a block key, which has no device (GAP_REGISTER.md, CORR-003): completions may
come before their issues and halves may come late or again, as the agent's queue and its unacknowledged
sends make them. Of a thread `SyscallPairsAreCalls` speaks only if its halves come two by two, in
either order (`TwoByTwo`); a half held back until the thread's next call, or sent again, shifts the
pairs and is outside it. `BlockPairsRecover` holds on every feed: a completion is returned with what
the latest arrival of its key left in flight, whosever issue that is. A map is a set of
entries, each with the time it was put there; the shard of an entry follows from its key by the
code's modulus. `evictStale` handles one shard in one step, as the code does under that shard's
mutex.

### CausalRules and Inference

The n-th event the channel accepts has the id `n`. The two windows over windows are sets of ids:
the order of arrival, on which trimming depends, is the order of ids. A rule returns a set of at
most one edge in place of `(edge, ok)`. `WriteNodes` and `WriteEdges` are the two halves of
`processWindow`; each applies whole or not at all, and the code goes on either way. `WriteEdges`
includes the remembering, the trimming and the MERGE that overwrites the cause of a pair.

### ReplaySession and ReplayWatch

A goroutine of `runPlayback` claims under the mutex (`Claim`), delivers outside it (`Deliver`),
waits, and checks; `Pause` and `Stop` only cancel. `ReplayWatch` extends the session, makes the
delivery a `fanOut` under the read lock, one channel at a time, and adds the `WatchReplay` calls.

### LiveFeed

`subscribers` and `chan` are the hub's map and its channels, `reading` the Broadcasts that hold the
read lock: several may, the consumer's and those of injections, and Subscribe and Unsubscribe wait
for them. A Broadcast offers its event to one channel at a time. Sockets and streams share their
actions, except that a stream's context ends when its client goes away and a hijacked socket's
does not: such a handler notices when a write fails, or never. `GracefulStop` waits for streams
only. The consumer's commits do not show, since the offset matters to a new process only.

### Probe

One of the five classes of events; they are alike and share only the producer. `hook` is where a
thread's eBPF program is: it reserves a record and submits it, or finds no room and increments the
drop counter, which is a load and a store because nothing makes it atomic. `loop`, `current` and
`fallback` are a drain loop: it takes the oldest record unless that is still being written,
retries its queue from the front until one send fails, and sends what it has in hand whatever came
of that. A send is acknowledged or fails, and a failed one may have reached the broker. `Tick` is
main's warning, of which `FirstDropWarned` promises the first; `Exit` is its end, which loses the queue.

### Connection and FeedPages

In all browser modules a handler, the render it causes and the effects of that render are one
step, as React runs them, but for the drawing that `GraphPage` queues; timers, sockets, requests and messages come between steps.

`ws`, `timer` and `backoff` are the socket and its reconnects, `requests` the history requests by
the run of the effect that made them, `hydrated`, `buffered`, `seen`, `sequence` and `messages` the
merge. `Remount` is StrictMode's cleanup and second run right after the first, whose request
outlives it. `onclose` includes an API that restarts and sends again from an older offset. An error
of a socket that the provider closed itself only changes the status and is left out. `Stored` is
what the history request may be answered with: the newest of what was stored, by timestamp, events
of one timestamp in any order. `Ordered` is `[...byKey.values()].sort(...)`: a key keeps the place
where it came first and the value that came last, and the sort is stable.

`FeedPages` adds the page that is mounted. `ProcessMessages` is the effect that takes what the
page has not seen, `SettleRow` the one that closes Stream's open row, `Paint` the calls of Timeline's
`draw`, after which `canvas` is what it was run on: the events in the visible range and the one it
highlights. Which of them get a bar (those whose service is among the last 12 lanes) follows from
the same events and is left out. `LeaveConsole`, signing out, unmounts the
provider and all it holds; `EnterConsole` mounts it anew. The specification is `PagesSpec`.

### Shell, GraphPage, ReplayPage, SettingsPage, SearchModal and Frontend

`Shell` is who is signed in and which page is mounted; `Unload` and `Start` are a reload. `Frontend`
mounts a page afresh when the path changes, and takes down the others. `session` chooses which
pages a visitor moves between, since pages share nothing but the shell and the messages.

`GraphPage` keeps the page's refs. `ProcessPending` is the effect on new messages; it infers edges
and sets the timer of the newest transaction's chain request, `FetchTimerFires` sends it,
`FetchSettles` applies its answer to whatever the page shows by then, because nothing cancels a
request. `svg` is what was last drawn, with the path of the selected node: what is `reachable` from
it, and what it is reachable from. `loaded`, `overtaken` and `cancelled` are history.

`applyGraph` does not draw: it queues an update of `selectedNode` that does. `drawing` is what is
queued, `settled` the selection once all is applied, and `RenderQueued` the render that applies it,
with the next message (`Arrive`) or by itself (`RenderGraph`). A click or a key is rendered before
that. So a clear can empty the page and the queued update draw the old graph after it, and a click
can be drawn over without its path; nothing repairs either before the next graph is applied
(`overtaken`). At a mount the development build, the only one the repository runs, runs the effects,
their cleanups and the effects again. The cleanup clears the timer of the chain just asked for, and
the second run finds no message pending: the transaction stays requested and "loading", without timer
or request, until another transaction is asked for, a clear or another mount (`cancelled`).
`MountGraph` has both builds; the properties except exactly these states.

`ReplayPage` holds the offsets of the three built-in incidents. The playhead rests on these, since
between two of them nothing changes on the screen. The arrow keys call the `handleStep` of the
first render, as the effect that installs them runs once.

`SettingsPage` has the three copies of the settings and the requests between them, which reach the
server and are answered in any order, fail before or after they reached it, and outlive the page.
`calm` and `apart` are history: whether requests overlapped, and whether something has happened
after which the copies may differ.

`SearchModal` ranks the entries as `score` does; which fields of an entry a query matches is a
constant. Only the request of the current opening counts, since closing cancels it.

## Runs

`tlc -workers 2 -config X.cfg M`, with M the module in `PROJECT.json`.

| run | instance | what it shows |
|---|---|---|
| `store` | two callers, three events (one cannot be encoded), three attempts | `Conservation`: no accepted event is lost, repeated or reordered before its batch ends. `NoLostWakeup`: a full buffer is always noticed although the signal is sent after the unlock and may be dropped. `SettledAccounted`, `CopiesBounded`: every event of a finished batch is a row, dropped or not encodable, and has at most one copy per attempt. `CloseDrains`, `EventuallySettled`. |
| `consumer` | four records, two invalid, batches of three, one restart | `CommitFollowsRouting`: no offset is committed past a record nobody handled. `EventuallyOffered`: a dead-letter worker that hangs for ever holds nothing up. |
| `ingest` | three records, two of them the halves of one call, one restart | `AcknowledgedAccounted`, `LossOnlyByCrash`: over shutdown, crash and restart an acknowledged whole event is lost by a crash only, and an acknowledged half by a crash or by a stop before its pair was inserted. |
| `enricher` | a thread and two block keys, one of them with requests that share it, a completion before its issue and one sent twice; two spans, two shards | `Accounted`: each event that arrived is in exactly one place. `SyscallPairsAreCalls`, `BlockPairsRecover`: what loss, reordering and repetition may do to pairs. |
| `enricher_trace` | as above | violation of `TraceInherited`: a block event's spans are looked up in the shard of its block key, and kept in that of its process. |
| `inference` | five events with equal and reversed time stamps, in every order and every cut | `EachEventOnce`: no cut loses or repeats an event. `GraphAcyclic`, `EdgesStable`: the graph has no cycle, and no edge changes once it is written. `EventuallyFlushed`. |
| `session_order` | three events, two goroutines | violation of `OriginalOrder`: a cancelled goroutine and the next Play's hold consecutive events and deliver them in either order. In TLC's trace the new one holds the first event while the cancelled one, which had not claimed yet, claims the second and delivers it. |
| `watch` | a session with two events, two goroutines and one rewind, and one stream with a one-slot channel | `DeliveredOnce`, `NothingSkipped`, `PlayingIsLive`: whatever cancelled goroutines still do, each event is delivered once and none is skipped. `WatcherGetsEach`: everything since registration, once, or missed because the channel was full. `PlaybackNotBlocked`. |
| `live_feed` | a socket, a stream, one-slot channels, three records (one invalid), one injection | `NoSendOnClosed`: the channel closed after the unlock is in no Broadcast's hands. `SubscriberGetsEach`: everything since Subscribe, once and in order, or missed because its own channel was full. `GoneStreamsEnd`, `StopsWithoutStreams`: clients that stall or vanish do not hold up the shutdown; a connected stream does, and the property excepts it. |
| `probe` | two threads of two events, a ring buffer of one record, a queue of two | `ProbeAccounted`: each event is in one place, and acknowledged at most once. `OvertakenWereQueued`: only a failed send reorders, and retries keep their own order. `RingDrained`: a dead broker does not stop the draining. `FirstDropWarned`: although racing increments get lost, the first drops lead to a first warning (later ones may not). |
| `feed` | two feeds of three events: one not in the order of time, one with a malformed event and two events of one key | `NoDuplicates`: history, live events, repetitions and a late request never give a key twice. `PageCurrent`: a page that is not paused shows the newest messages, and Timeline's canvas is a painting of exactly what the page holds. `Reconnects`: a lost socket is replaced. `LiveDespiteHistory`: messages held back for the history are shown although it fails. |
| `frontend` | four events and two transactions, three incidents, three settings (one refused), six index entries | `GraphConsistent`: nodes, edges and summary belong together and the graph has no cycle, whichever answers arrive when, and so do selection and drawing unless a click or a clear overtook a queued drawing. `RequestedIsLive`, `ChainLoads`: a chain that failed can be asked for again, and "loading" ends, except where StrictMode cleared the timer. `CopiesAgree`: the copies of the settings are equal again after a load that ran alone. `ReplayConsistent`: the playhead stays in its incident. `SearchReady`: the search leaves "Loading". |

Type invariants are part of the inductive invariants (`IInv`, `WatchInv`, `IngestInv`, `PagesInv`) and are proved with them
for every value of the constants. The two violations are findings, quoted with their
lines in `PROJECT.json`.

### Remarks

Seen while modelling; the models contain them, and no run is about them.

* Offsets are committed before ClickHouse has the batch, while ADR-001 has them follow it; what is
  left of that promise is `LossOnlyByCrash`.
* `WatchReplay` ends when it reads a complete session and drops what is still in its channel, while
  `www/src/pages/docs/api/reference.mdx:142` says it "streams replay events for a session as
  playback advances".
* A step forward in the console's replay goes to the event after the next (`Replay.tsx:586-598`),
  while `dashboard/replay.mdx:30` says one at a time; in the log of inc-001, which is not sorted,
  it may even go back. The arrow keys always start from 0 of the first incident.
* After a reconnect the history is not fetched again, so what was sent between two sockets is
  missing until the provider mounts anew.
* The settings page reads "saved" after a refusal or a failure, and its load overwrites what was
  typed meanwhile. Its load does not look at the status of the answer and StrictMode sends it twice;
  the API answers a GET with the settings or not with JSON, so neither matters to `CopiesAgree`.
  App and Settings keep a theme each.
* A graph page that mounts in the development build with a transaction among the messages says
  "loading chain" and never asks for it (`Graph.tsx:471-477` and `522-526`); a clear between the
  arrival of a graph and its drawing leaves the old graph on the screen (`Graph.tsx:456-461` and
  `667-678`).
* `GracefulStop` also waits for the `WatchReplay` streams, which are in `ReplayWatch` and not in
  `LiveFeed`: like a connected `StreamEvents` call, one that stays holds the shutdown up.
* Shell's clear key sends `kprobe:clear-view`, which nobody listens to.
* The drop counters are shared by all CPUs and incremented without synchronisation
  (`syscall.rs:96`): drops at the same moment count as one, and a late store takes the counter back,
  so "dropped {} events in last 5s" (`probe/probe/src/main.rs:242`) may be too small, and drops that
  leave the counter at or below what main last saw are not warned of.
* The agent's queue is retried only when a new event comes. A half of a system call that it holds
  back until the thread's next call was sent is paired with that call, though nothing was lost; one
  that was sent again after a send that had arrived may be paired with its own copy.

### Bounds

* `store`: `FlushSize` 2 of 3 events lets a buffer fill, overfill during a write and stay below
  the limit; three attempts are the code's; two callers race for the signal.
* `consumer`: batches of three over four records give a full batch and a rest only the tick
  flushes; channels of two and one fill; one restart gives redelivery.
* `ingest`: every buffer has one place, so each is both full and empty; with `FlushSize` and
  `MaxRetries` 1 a batch ends after one attempt, retries being covered by `store`. Commits take
  effect here; those that do not are covered by `consumer`.
* `enricher`: two calls on a thread are the least for an exit to meet the next entry; a block key
  issued twice likewise; a second key has the orders that the agent's queue and a key without a device
  allow, with events that are not paired between them; eviction from one entry on, so that it always
  may run.
* `inference`: the events are chosen so that every family of rules, every tie and an edge against
  time occur, on a channel of one and remembered windows of one, so that refusal and trimming do.
* `watch`: two goroutines let a cancelled one meet a live one, and the proofs are for any number; a
  one-slot channel is full after one event. Further streams only repeat the first: no
  step of a stream reads another's state except through the write lock, which `fanning` stands for.
* `live_feed`: a one-slot channel overflows when a handler is one event behind; two valid records
  have an order to keep, and an injection broadcasts at the same time as either.
* `probe`: one record fills the ring buffer, so that both threads can drop at once and the counter
  can go back; two queued events have an order, a third overflows.
* `feed`: a list of two and pages of one and two make trimming frequent; the delay grows from 1 to
  4, so that it doubles and is capped; one socket fails or closes; views of one and two ticks.
* `frontend`: `MAX_NODES` is 3 of 4 events, so the live graph is trimmed; one request per
  transaction, two transactions and a failure give answers that overtake; two settings requests
  overlap, with one restart of the API; three of six entries are listed. A session visits Stream
  and one other page, or the documentation: pages meet only through being mounted and unmounted.

`MaxRestarts`, `MaxPlays`, `MaxRewinds`, `MaxClock`, `Injects`, `Hooks`, `MaxDrops`, `MaxFetches`,
`MaxRequests` and `Sessions` are the bounds that the code does not have; the proofs hold for every
value of them. Deadlock is checked in `feed` and `frontend`, where a user can always do
something, and not in the other systems, which may stop: input ends, a process exits, a session is
left alone.

### Fairness

* Goroutines that are ready are scheduled (`WF` on the flusher, the consume loop, the commit
  worker, `Run`, each playback goroutine), and external writes end, because the code gives them
  timeouts or waits for an answer.
* A case of a select that is ready again and again is taken (`SF` on `TakeClose`, `Done`, `Tick`):
  Go chooses uniformly among the ready cases.
* A StreamEvents handler is scheduled once its client has gone, because its writes then end, and
  it gets the hub's write lock, which `sync.RWMutex` does not let readers keep for ever (`SF` on
  `Leaving`). A handler whose client is still there may be blocked in a write for ever, and of
  sockets nothing is assumed at all.
* eBPF programs run to their end, the agent's sends settle (`message.timeout.ms`) and its interval
  fires; whether a send succeeds is left open.
* In the browser timers fire, a socket that reported an error is closed, and every request settles
  one way or another (`WF` on `connect`, `onclose`, `FetchTimerFires` and the answers). Nothing is
  assumed of the outcomes, of the user, or of sockets opening.
* Nothing is assumed of callers, users, clients of a stream, the dead-letter worker or crashes.

## Proofs

`tlapm M.tla` for each `*Proofs` module. The assumptions are the named `ASSUME`s of the modules, which
TLC evaluates on the runs' instances: sizes are naturals, some positive, events have fields of the
right types, a thread and a block key of `Enricher` have one feed each, and what the browser receives consists
of events with integer timestamps. Each inductive invariant was
checked with TLC before it was proved: initially true, and kept by every step, with one case per
action.

* **`ClickHouseStoreProofs`.** `IInv` adds to the properties that there is no batch outside a
  write (`FlushShape`), that buffer and batch share no event and rows exist only for inserted ones
  (`FreshEvents`, without which `CopiesBounded` could not survive a swap), and how far the final
  flush has got (`FinalFlushTakesAll`, which is what `CloseDrains` needs). Proved: `Conservation`,
  `NoLostWakeup`, `SettledAccounted`, `CopiesBounded`, `CloseDrains`.
* **`EngineIngestProofs`.** First the consumer alone. The acknowledgements between the loop and the
  worker are consecutive records ending at the last one the loop let go of (`PendingContiguous`),
  all of those were routed (`ReleasedRouted`), and the committed offset is behind them
  (`CommitBehindPending`). From these: `CommitFollowsRouting` and, as an action property,
  `CommittedMonotone`. Then the composition: what this process handled is kept as long as it runs
  (`HandledKept`), since no step of the store drops an event without a trace, and what it inserted
  before the store was closed is kept after it (`EmittedKept`, `OnTime`); the consumer is closed
  before the store and a closed reader commits nothing, so an event that comes too late for the
  final flush is not acknowledged (`LateUnacknowledged`). With the store's `Conservation` and
  `FinalFlushTakesAll`, a flusher that is done leaves only unacknowledged events behind, and an exit
  loses none (`WholeKept`). From these: `AcknowledgedAccounted` and the action property
  `LossOnlyByCrash`. Each step of the engine is a step of the consumer or none
  (`IngestImplementsConsumer`). Last, of the whole records, the engine implements `Delivery`
  (`IngestImplementsDelivery`): a record is received by the handler, settled by what the store's
  steps do to its events, acknowledged by a commit; a restart is no step at all, since nothing was in
  memory, and the guard of `Stop` is what the final flush and the order of the deferred calls ensure.
* **`EnricherProofs`.** There is one entry per key and of the right kind (`Entries`), and the maps
  tell how far a thread or key has come: a thread whose last event was the first half of its call
  has that half in flight, one whose last event was the second has none (`SyscallsHeld`, of the threads
  in `TwoByTwo`); what is in flight for a block key is the latest arrival of the key, if that was an
  issue and was not evicted (`BlocksHeld`, on any feed). From these: `Accounted`,
  `SyscallPairsAreCalls`, `BlockPairsRecover`.
* **`ReplaySessionProofs`.** Claims of the current rewind are behind the cursor
  (`ClaimsBehindCursor`), a cancelled goroutine's place tells how much it may still deliver
  (`LateByPlace`), and which goroutine the session's cancel function belongs to (`Started`,
  `PlayingIsCurrent`). From these: `DeliveredOnce`, `NothingSkipped`, `LiveIsCurrent`,
  `LateAtMostOnce`, `PlayingIsLive`. `WatchSpec` implements `Spec` (`WatchImplementsSession`), so the
  session's theorems hold with streams attached. A goroutine that fans out has only registered
  watchers before it, each once (`FanOuts`), and a watcher has seen the event being fanned out
  exactly if its channel has been tried (`Reached`); hence `WatcherGetsEach`.
* **`InferenceProofs`.** Batch, window and channel hold consecutive ids (`EachEventOnce`), so the
  effect of a new edge is newer than every edge there is: no pair is ever written twice in
  different windows (`EdgesStable`). Remembered events are never system calls (`Remembered`), and
  the rules never lead from a system call to anything else (`CauseLayers`); so every edge follows
  one strict order, `Precedes`: layer first, then time, and of equal times the later arrival. A
  set of events has a least one in that order, by the well-foundedness of the naturals, three
  times over; hence `GraphAcyclic`, although a block request may cause a call that began before
  it. `EdgesTimely` follows from the rules' arithmetic.
* **`LiveFeedProofs`.** Who holds the read lock and has whom before it (`Casts`), who is in the map
  and whose channel is closed (`Handlers`), and that a subscriber has seen an event under broadcast
  exactly if the broadcaster has tried its channel (`Deliveries`). From these: `NoSendOnClosed` and
  `SubscriberGetsEach`.
* **`ProbeProofs`.** The events seen are partitioned into seven places (`ProbeAccounted` itself), and,
  thread by thread, what is in the ring buffer is newer than the event in hand, which is newer than
  what was queued or acknowledged, where retried events are older than those still queued
  (`Ordered`). Hence `OvertakenWereQueued`. A record that is busy, and stops the drain, has a program
  about to submit it (`BusyIsWritten`). Programs that race for the drop counter undo each other's
  increments; that each of them has a drop of its own to add to what it read (`CountInv`) shows that
  the counter neither returns to zero nor exceeds the drops (`DropsCounted`).
* **`FrontendProofs`.** What a list operator computes takes an induction over the list, which is
  proved from the least index at which a claim fails; from it, what `Filter` keeps of an appended,
  a concatenated and a shortened list (`FilterAppend`, `FilterConcat`, `FilterSplit`), and when the
  end of one list is the end of another (`Ends`).

  Over all pages together: the incident is one of the three (`ReplayInv`, for
  `ReplayConsistent`), the requests are about transactions (`RequestInv`, for `RequestedIsLive`), and a
  calm request is alone while requests that met leave the copies apart, so that with the copies
  together one request at most separates them, whose stage says which copy it has reached
  (`SettingsInv`, for `CopiesAgree`). For `GraphConsistent`, whatever `applyGraph` is called with,
  `sanitizeGraph` leaves distinct nodes and edges that follow one strict order, timestamp first and
  then id; so the nodes at or after one are a closed set and nothing before it is reachable. The
  rest of `GraphInv` is about what is queued (`QueueInv`): unless it was overtaken, the selection it
  leads to is in the graph and the drawing it makes is of this graph with that selection, and with
  nothing queued the rendered selection is the settled one.

  The feed pages stand on the connection's list (`ListInv`): ids are consecutive and end at
  `sequence`, no key is there twice, `seen` holds the keys, and before hydration the list is empty.
  That the first answer is merged at most once rests on `lifecycle \notin requests` after it. A page
  ends with the newest of the messages up to `processedMessage` that map, cut at its cap (`ShownInv`,
  in the proofs `Held`). This is kept when the list appends and evicts while the page is paused, and
  when it resumes and takes all that is pending at once, because the caps are at most
  `MAX_MESSAGES`. That a page shows no event twice needs more: as long as all events map, the page
  holds no more than it took from the list, unless the list is full, and then the list is no shorter
  than the page (hence the condition in `NoDuplicates`). `PaintInv` is about the canvas and the open row. From these:
  `NoDuplicates` and `PageCurrent`.

  What the page waits for is under way: a mounted provider has a socket or a timer to make one, and
  messages are held back only during the request of the current run (`ConnectionIsAwaited`); a chain
  or an index that is "loading" has its timer or its request (`LoadingIsAwaited`), except the chain
  whose timer StrictMode's cleanup cleared.

Only model-checked:

* liveness, since fairness is about `ENABLED`, which is out of the prover's reach. What is proved is
  the safety in it, that whoever is waited for exists: `NoLostWakeup` for the store,
  `PlayingIsLive` for the session, `BusyIsWritten` for `RingDrained`, `DropsCounted` for
  `FirstDropWarned`, `SocketOrTimer` for `Reconnects`, `HistoryAwaited` for `LiveDespiteHistory`,
  `ChainAwaited` for `ChainLoads`, `IndexAwaited` for `SearchReady`;
* `TraceInherited` and `OriginalOrder`, which do not hold.

## Not modelled

* Wire formats, JSON, protobuf, SQL and Cypher text, metrics and log lines: no property is about
  them. Deployment files, static pages and generated code likewise; the console's generated
  protocol code is imported nowhere.
* In the console: the theme, the events-per-second counter, scrolling, dagre's layout, severities
  and wording, the replay speed, the mock mode, which no code switches on, a full localStorage and
  a token that expires.
* The publisher of `kernel.processed`, the queries and the replay's event reader: each is a call
  without state of its own. What a chain query sees of a graph being written is an input of
  `GraphPage`, dangling edges included.
* Replay configuration and failure injection: functions from one list of events to another.
* The numeric edge of `eventIntervalNs`: `start + duration` would wrap only for durations the
  enricher does not produce.
* What a graph lacks: events refused by a full channel, and those of the last window of a process,
  which is flushed with a cancelled context. The models contain both; no document promises more.
* Authentication: stateless checks without interleavings.

## Plan

Done: the inventory; store, consumer and their composition; enricher; inference; replay session and
streams; the live feed in the API; the probes and their agent; the console and the documentation
search; and the proofs above. Left: `Probe` and `Enricher` in one module, for what the agent's queue
does to pairs, and the chain query against a graph being written.
