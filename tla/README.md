# A TLA+ model of rls

rls is a rate-limiting HTTP server: every request to a path is queued, waits for
its turn under the path's rate limit, and is then answered with a small JSON
report. These modules model its concurrent core, from the queues to the shutdown
of the server and the terminal UI that mirrors it from another process, check it
with TLC on small instances and prove its safety properties with TLAPS for all
instances.

## 1. Inventory

| Component | Source | State | Operations | Interacts with |
|---|---|---|---|---|
| Scheduling queues | `queue/` | a bounded slice or heap behind a mutex | Push, Pop, PopWhere, Len | called by handlers and by the dispatcher |
| Endpoint handlers | `endpoint/endpoint.go` Handle | one goroutine and one ticket per request | admission, push (reject or block), emit, signal, select, respond | queue, work channel, Release channel, event sink |
| Standard dispatcher | dispatchStandard | one goroutine | take a signal, wait for the limiter, pop, release | work channel, Limiter, queue |
| Token-window dispatcher | dispatchTokenWindow, releaseTokenFitting | one goroutine, `pendingTokens` | on a signal or a reset: scan the queue, release what fits, settle | work and reset channel, queue, TokenWindow |
| Limiters | `limiter/` | a ticker; a ring of grant times; a token bucket; a token budget with a ticker goroutine | Wait, Stop; TryConsume, Reset | dispatcher |
| Registry | `endpoint/registry.go` | map from path to endpoint, dynamic count | build, Match, StopAll, snapshots | server, endpoints, config.InheritFrom |
| Configuration | `config/` | - | Load, defaults, validation, inheritance, overrides | everything, once |
| Event sink | `endpoint/events.go` | buffered channel | non-blocking send | hub, TUI |
| Server | `server/server.go` | active-request count | route, Shutdown | registry |
| Attach | `attach/` | subscribers and their buffers | subscribe, broadcast, serve, dial, fan-out | event sink, TUI |
| TUI | `tui/` | per-endpoint counters | apply events, tick, render | attach, registry |

What is hard about it, and hard to test:

* a ticket and its wake-up signal travel separately (queue and `work` channel);
* the dispatcher acts on what it read earlier: a permit obtained before the pop,
  a cancelled flag read before a subtraction, a budget that another goroutine
  refills in the middle of a scan;
* clients leave, and the endpoint stops, at every point in between;
* channels of one slot coalesce resets, store stale ticks, and drop events;
* two requests for a new path race to create its endpoint;
* the server drains while requests are between Match and the count of active
  requests, and its time limit may run out at any step;
* an observer joins while events are under way, reads slowly or not at all, and
  counts what arrives;
* comparisons at the boundary: full queue, exhausted budget, a grant exactly one
  window old, a compensation longer than the interval.

`PROJECT.json` lists these hazards one by one with the line where each bites and
the properties that would catch it.

What makes each component correct:

* **queue**: no ticket lost or duplicated; Pop and PopWhere honour the serve
  order; the bound holds.
* **endpoint**: one answer per request, 200 only after a grant, 429 only to a
  request that took no place, 503 only after Stop; signals balance tickets;
  nobody blocks on a channel send; every request is eventually answered; Stop
  ends the goroutines.
* **limiters**: the rate is kept however late the dispatcher is, and nobody
  waits longer than the rate requires.
* **token window**: the budget per window holds, no fitting ticket is forgotten,
  `pendingTokens` does not count tickets that are gone.
* **configuration**: what passes validation can be started and meets what the
  other parts rely on; each field comes from the nearest source that sets it.
* **registry**: one endpoint per path, the cap, inheritance from the nearest
  configured ancestor, StopAll stops everything.
* **server**: a drain cuts nobody off and ends; nothing runs after it.
* **attach**: each client gets configuration, snapshot and then events in order,
  whatever is lost on the way; no client holds up another, the endpoints or,
  short of the one case named below, the end of Serve.
* **TUI**: what it shows is wrong by no more than what it was not told.

## 2. Modules

| Module | Models | Role |
|---|---|---|
| `Queue` | `queue/*.go` | what each queue method returns and leaves behind, as operators on the sequence of tickets in insertion order |
| `QueueImpl` | `queue/*.go`, `container/heap` | the slice and heap algorithms themselves, loop by loop, checked and proved against `Queue` |
| `Gate` | - | abstract specification: a bounded waiting room and a gate |
| `Endpoint` | `Handle`, `emit`, `Stop` | state and handler steps common to both kinds of endpoint; mapping to `Gate` |
| `EndpointStandard` | `dispatchStandard` | composes `Endpoint` with the dispatcher and the Limiter interface |
| `EndpointTokenWindow` | `dispatchTokenWindow`, `token_window.go` | composes `Endpoint` with the scanning dispatcher, the token budget and its ticker |
| `RateBound` | - | abstract specification of a limiter: of any n + 1 consecutive grants the last is w later than the first |
| `Limiter` | `limiter.go` | clock, the caller of Wait, rate and compensation |
| `StrictLimiter`, `SlidingWindow`, `TokenBucket` | the files of those names | the three implementations of Wait |
| `Limiters` | `limiter.New` | composes the three: one configuration, any algorithm; mapping to `RateBound` |
| `RequestPaths` | `findParentLocked`, `addDynamicEndpoint` | paths and the walk towards the root |
| `Registry` | `registry.go`, `InheritFrom` | construction, Match, StopAll |
| `Server` | `server.go`, the end of `main` | composes `Registry` with the HTTP handlers and Shutdown |
| `EventStream` | - | abstract specification: what an attached client is promised |
| `Hub` | `hub.go`, `fanout.go`, `wire.go` | from the sinks to the subscribers' channels |
| `Attach` | `attach/server.go`, `client.go`, `main` with `-attach` | composes `Hub` with the socket and the processes at its other end; mapping to `EventStream` |
| `TuiModel` | `tui/model.go`, `events.go`, `tui.go` | the rows of the UI and what changes them |
| `Mirror` | `main`, `Handle`, `tui/` | composes `TuiModel` with `EventStream` and the requests that cause the events |
| `Config` | `config.go`, `merge.go`, the start of `main.go` | from a parsed file to the endpoints of the server |
| `SharedLemmas` | - | facts about sequences, finite sums and paths that several proofs use |
| `EndpointProofs` | - | lemmas about `Endpoint`: its types, where a ticket is, the steps of `Gate` |
| `EndpointStandardProofs` | - | theorems about `EndpointStandard` |
| `EndpointTokenWindowProofs` | - | theorems about `EndpointTokenWindow` |
| `LimitersQueueProofs` | - | theorems about `Limiters` (first part) and `QueueImpl` (second part) |
| `ServerProofs` | - | theorems about `Registry` (first part) and `Server` (second part) |
| `ConfigProofs` | - | theorems about `Config` |
| `AttachMirrorProofs` | - | theorems about `Attach` (first part), and about `Mirror` and the operators of `TuiModel` (second part) |
| `MC*` | - | model values and symmetry sets for TLC |

### Endpoint

A request is at once its handler goroutine and its ticket. `pc[r]` is the
handler's place in `Handle`; every access to something another goroutine can see
(the queue under its mutex, a channel, an atomic) is one step, and code between
two such accesses belongs to the step before. The three ready cases of the
select are the actions `Receive`, `Unavailable` and `Disconnect`. The dispatcher
has its own program counter `dpc`; `batch` holds the tickets it has popped and
not yet sent to. The mutex of the queue matters only while `PopWhere` scans, as
the scan calls into the token window: `QueueUnlocked` blocks the other users of
the queue in that phase, and `EndpointTokenWindow` tests one ticket per step.

Data is reduced to what decides something: a ticket's time stamp is its arrival
rank and only kept under the priority scheduler, the only one that compares
stamps; timeouts and estimates are in units of the estimate (1/rps, or windows);
the burst tokens an estimate reads are any value of `Available`, whose range
`TokenBucket!AvailableBounded` justifies; responses and log lines are not
modelled beyond the step that produces them.

The limiter in `EndpointStandard` may grant at any moment. That is every
behaviour of every limiter and more, so the safety properties hold for all
three; how often a limiter grants is the subject of its own module.

### Limiters

Time is an integer. A rate is its interval, as `limiter.New` computes it with the
compensation and its floor. The dispatcher may be late by any amount, in calling
Wait and in noticing that it could return. The bounds on the rate hold however
late it is; the bounds on the wait say that a caller who has waited so long could
be served, if it looked.
`golang.org/x/time/rate` is external: the bucket earns one unit of credit per
unit of time up to its size, and a Wait reserves one token, in advance if it
must.

### Registry

Paths are sequences of segments, so `path.Dir` is dropping the last one. The
settings of an endpoint are a function of its configuration fields with 0 for
"not set"; only the algorithm decides whether `endpoint.New` succeeds. An
endpoint is an index into the list of all endpoints ever made, so that one that
was overwritten in the map can still be seen to run. Match is two steps: the
read-locked look-up, and the write-locked rest.

### Server

A caller of `Registry` becomes a connection that carries one request: `conn[c]`
is its place from Accept to the last byte of the response. The handler of `New`
is `Request`, `Match`, then `NotFound` or `Count`, `Handle` and `Finished`;
`Count` is a step of its own because Shutdown can run between it and Match.
`Handle` stands for the whole of the endpoint: while the endpoint runs it answers
(`Answered`, `AnsweredUntilStop`), and only a stopped one says 503 (`Gate`).
Shutdown is one step per statement, `HttpReturn` and `HttpTimeout` being the two
ways http.Shutdown ends; after `Exit` nothing moves. net/http is external:
http.Shutdown closes the listener, closes connections that carry no request, and
waits for the others.

### Hub and Attach

Messages are numbered per kind (event, log line), so loss, order and repetition
can be seen. Every channel of the code is a sequence with its capacity: the two
sinks, the outputs of the fan-out, one channel per subscriber, the lines on the
wire, and the channels of the attaching process. A message a goroutine holds
between a receive and a send counts as still in the channel it came from; where
that would hide a step on which something depends (`writing`, while Encode
blocks), it has a variable of its own. `Subscribe` is one step, as it holds the
write lock that `broadcast` needs for reading.

The snapshot is represented by the number of events that had happened when
`stateFunc` read the queues. `Attach!Stream` maps everything on its way to the
user of the client `Watched` to the `pipe` of `EventStream`: what its process
holds, the wire, its channel, and all that has not reached the hub, without what
is promised to nobody (`Due`). That includes events older than the snapshot, which
arrive after it: the code does not filter them, and `Mirror` counts what this
costs. `Watched` may be any client; the others share the hub with it.

Clients in `Stalled` are suspended once they have dialled. Users quit while they
watch; a process killed before that is not modelled.

### TuiModel and Mirror

A row is a path, the number of its dots (`enqueuedAt`), the counts of served and
rejected requests, and `origin`, the configured path whose settings it shows.
`TuiModel` has one operator per method of `Model` that changes these; `Order`
gives the order of the path strings. In `Mirror` a request goes through the steps
of `Handle` that change a queue or emit an event, the events go through an
`EventStream` (the server's own terminal has one too, on from the start), and
`faults[p]` counts everything that can make the display of p wrong: events lost
or thrown away, clients that left, and what straddled the snapshot.

### Config

The parsed file and the port flag are chosen in the initial state; Load with its
defaulting and validation is one step, the fallback of `main` to the built-in
defaults another (a file may also be unreadable, so loading may always fail), and
the creation of the server the third. The code lists the fields it defaults one by one
in three places, for the file's defaults, the inserted root and each endpoint; the
model keeps the three lists as sets. `Startable` says for which settings
`endpoint.New` neither returns an error nor panics. Sizes and windows that do not
fit in an int64 of nanoseconds or in memory are left out.

## 3. Runs

Passing runs:

| Run | Instance | Shows |
|---|---|---|
| `StandardSafety` | 3 requests, 2 places, sink of 1, priority queue, reject, admission | balance of signals and tickets, no blocking send, no wasted permit, one release per ticket, implements `Gate` |
| `StandardLive` | 3 requests, 1 place, LIFO, block, sink of 1 that may never be read | every request is answered, dead tickets drain, Stop ends the dispatcher |
| `TokenSafety` | 3 requests of 1, 2 or 3 tokens, window of 2, 2 places, FIFO, reject | budget, no lost wake-up, one release per ticket, pending count not inflated, serve order favoured |
| `TokenLive` | 2 requests that each fill the window, 1 place, block, Stop at any time | implements `Gate`, every request is answered until Stop, both goroutines end |
| `LimiterRates` | each algorithm, compensation beyond the interval, clock to 12 | each implements `RateBound`; bounds on the wait; the ring and the credit; the bucket's rate over every stretch of time |
| `ServerShutdown` | 3 connections, 3 paths, cap 2, 3 configurations, shutdown at any time | one endpoint per path, count and cap, inheritance, fallback; a graceful drain, nothing left running, Shutdown returns |
| `AttachStream` | 2 clients, one suspended; 2 messages; with and without fan-out | the view of the client that reads implements `EventStream`; connecting ends, and fails only if the server ends or no longer listens; Serve returns |
| `TuiMirror` | 2 requests, configured and dynamic paths, 3 keys, local and attached | bounded drift of the display, statistics stay with their path, the settings shown are the server's |
| `ConfigLoad` | files with up to 2 endpoints and a `defaults` section, fields unset, valid or refused | validation agrees with the constructors and with the assumptions of the other modules; field precedence, for the inserted root too |
| `Queues` | the four queues, 5 tickets, 4 places, 2 priorities | the filters lose nothing, are greedy in serve order and keep the order; heap order after any calls |

Runs that show a disagreement between the code and what the repository says
about it (each is a finding in `PROJECT.json`):

| Run | Statement | What the code does |
|---|---|---|
| `TokenSignalBlocks` | endpoint.go:203, the send is non-blocking | one scan releases several tickets and leaves their signals in the channel; a later send blocks |
| `TokenPendingDrift` | endpoint.go:28, 129 | a cost can be subtracted twice, when the client leaves just after the release was settled |

Met while modelling, and kept out of the properties by the stated precondition
rather than shown by a run of their own:

* a reset in the middle of a scan lets a later ticket overtake an earlier one of
  the same cost, against queue.go:50-52 (`FavorsServeOrder` allows it of those
  refused before the reset, and of no others);
* a tick stored while nobody waited lets the strict limiter grant twice within an
  interval, against "perfectly even spacing" (limiter/README.md:21); never three
  times (`LimiterRates`);
* a negative `default_tokens` passes validation (config.go:122), against "must be at
  least 1" (config.go:209), and refills the window when consumed, so that more than N
  tokens can be granted in it (README.md:168; `TokenSafety` uses a positive default);
* a strict rate above 10^9 per second passes validation and makes
  `time.NewTicker` panic (strict.go:15; `AlwaysStarts` names the exception);
* with `defaults.algorithm: token_window` the inserted root has no window length
  and fails validation, so a file that relies on it is replaced as a whole by the
  built-in defaults;
* a sliding window whose rate is below one request per window grants one per
  window all the same (sliding_window.go:58);
* a path configured twice starts two endpoints of which StopAll knows only the
  second (registry.go:60); `ServerShutdown` has no duplicates;
* past the cap the endpoint that serves an unconfigured path is the nearest
  registered ancestor, which may be dynamic, not the nearest configured one
  (endpoint/README.md:119);
* the 30 seconds of server.go:72 bound only http.Shutdown; the wait for the
  handlers (server.go:80) has no bound, and ends because the endpoints run until
  it has ended (`ShutdownReturns`);
* after those 30 seconds a request that is still in Match can create an endpoint
  after StopAll, or meet a stopped one (`DrainIsGraceful` and
  `NothingLeftRunning` name the exception), and the process can end before its
  last response is written;
* an error of Accept while the context is not done makes Serve wait for its
  clients with the listener open: whoever dials then hangs until the last of them
  has left (attach/server.go:48; the exception of `ConnectEnds`);
* a client that does not read blocks its connection in Encode, so that Serve does
  not return and the socket file stays (attach/server.go:75; the exception of
  `ServeReturns`); main does not wait for Serve in any case;
* "one entry per currently queued request" (model.go:23) is true only of a UI that
  was told everything: a client that leaves makes no event and leaves its dot for
  ever, events during a pause are thrown away, and in the snapshot of an attached
  UI the depths of dynamic endpoints are ignored (`DriftBounded` counts these);
* a row inserted above the selected one moves the selection to another path,
  against "Adjust selected index if insertion shifted it" (model.go:326);
* an attached UI keeps the rows in the order of the file, so that "Insert in
  sorted order by path" (model.go:309) puts a dynamic row before the first larger
  path, wherever that is.

### Bounds

* `Requests` exceeds `MaxQueueSize` by one in the safety runs, so that a full
  queue, a refused push, a full work channel and a blocked push all happen; three
  handlers and a dispatcher give every pairwise race in the presence of a third.
* `EventBuf` is 1 where the sink matters: it is full after one event.
* `Capacity` is 2 with costs 1 and 2: exact fits, partial fits and tickets that
  must wait for a reset.
* `MayStop` leaves Stop out of `TokenSafety`, whose properties are about the time
  before it; `TokenLive` includes it.
* `MaxTime` bounds the clock to several intervals and two windows; the number of
  grants is bounded by it through the rate only.
* `MaxDynamic` is 2 with three unconfigured paths and three connections: the cap is
  hit by a race. A third connection races two that already race each other.
* In `AttachStream` every capacity is the smallest the code allows (1, and 2 for a
  subscriber's channel, which must hold configuration and snapshot), so that two
  messages overflow each of them; a third message only repeats an overflow.
  `MaxProduced` counts events and log lines together: two events, two lines, or one
  of each. `Watched` is the client that reads: the steps of the other are some of
  its own, and the theorem is about both.
* In `TuiMirror` two requests for one path, or for two dynamic paths of which one
  lies below the other, with the configured rows out of order: a row is inserted
  before, between and after others. Three keys are enough to pause, resume and
  reset.
* The endpoint runs use the priority queue (which with equal priorities is a
  FIFO), the LIFO and the FIFO; the random queue is in `Queues`, and the theorems
  hold for all four.

Deadlock is checked in the standard-endpoint and queue runs. It is off where the
system may rest: an idle token-window endpoint whose ticker has ended, a clock at
`MaxTime`, a server that has ended, an event stream that has ended, a
configuration that is loaded.

### Fairness

* Weak fairness of the dispatcher, the ticker, a begun Stop and every handler:
  the Go scheduler runs every goroutine that can run.
* Strong fairness of single cases of a select (`TurnAway`, the token window's
  `TakeWork`, `WindowExit`): select chooses at random among its ready cases.
* Strong fairness of the handlers of a token-window endpoint: they compete for
  the queue's mutex, which hands itself to a starving waiter, and for the work
  channel, whose blocked senders are served in order.
* A limiter's Wait returns: `Permit` is part of the dispatcher's weak fairness.
  `WaitBounded` justifies it for all three.
* The server: weak fairness of Shutdown once it is called and of each connection's
  goroutine. That `Handle` ends is what `Answered` and `AnsweredUntilStop` show of
  the endpoints.
* Attach: weak fairness of Serve, of each serveConn and of the processes of the
  clients that are not suspended. None for the hub, which no liveness property
  needs. Accept is not assumed to fail while the listener is open.
* Nothing is assumed of HTTP clients, of the reader of the event sink, of users, or
  of whether Stop or Shutdown is called.

## 4. Proofs

Every theorem holds for every value of the constants that satisfies the named
assumptions of the modules: finite sets of requests and callers, positive
capacities, and what `queue.New` and the validation of the configuration let
through. Two hypotheses go beyond that; the theorems that need one state it:

* `DefaultTokens > 0`, for the window's budget and its counts. The validation
  accepts a negative `default_tokens`; a ticket with a negative cost refills the
  window, so that the budget is then not kept.
* each configured path is named once (`DistinctPaths` for the lists a server may
  be given, `IsInjective(ConfigRows)` for the rows of the UI). The validation
  accepts duplicates; the registry then forgets the first endpoint, and StopAll
  with it. `ServerShutdown` and `TuiMirror` have no duplicates either.

Each invariant below was first checked by TLC on the instance of its run, then
proved inductive.

### Standard endpoints (`EndpointStandardProofs`)

* `TypeCorrect`. `TypeInv` adds to the types that the dispatcher holds one ticket
  exactly when it is about to send.
* `SignalsBalance`: the queued tickets are the signals in the channel, the
  handlers between push and signal, and the round the dispatcher has begun. A push
  adds one to the queue and to the handlers, a signal moves one to the channel, the
  dispatcher moves one to its round, and its pop removes one from both sides.
* `HandlerNeverBlocksOnSignal` and `NoPermitLost` follow: a handler about to signal
  is itself counted, so `work < Len(queue) <= MaxQueueSize`; the dispatcher's round
  is counted, so Pop finds a ticket. `TokenSignalBlocks` shows that the first
  fails for token windows, where one round pops several tickets.
* `TicketsReleasedOnce`. `ReleasedOnce` is not inductive: it has to be said that
  the handler of a ticket in the queue or in the batch has not got past its select
  (`Places`, in `EndpointProofs`, as both kinds of endpoint need it).
* `StandardImplementsGate`: every step is a step of `Gate` or a stutter. The
  places of `PlacesInv` are what makes a release a `Grant` of the abstract gate.

### Token-window endpoints (`EndpointTokenWindowProofs`)

* `TicketsReleasedOnce` and `TokenWindowImplementsGate`, with `ScanShape`: as
  PopWhere holds the mutex of the queue, the tickets still to be tested are in the
  queue, in its order and without repetition.
* `WindowBudgetKept`, `NoWakeUpLost`, `ScanFavorsServeOrder`, from `WindowInv`:
  what the window has left and what it granted add up to its capacity
  (`BudgetInv`); a Reset that falls into a scan leaves its signal behind
  (`ResetSeen`); what the scan has passed over does not fit, unless it was refused
  before such a Reset (`TestedDontFit`); and between scans a ticket that fits has a signal under way
  (`NothingMissed`, the inductive form of "no wake-up is lost").
* `PendingStaysHonest`. `pendingTokens` is bounded by a sum over all requests of
  what it may hold for each (`Share`): nothing or less before the handler has added
  the cost, the cost from then until the dispatcher settles the ticket, and the cost
  again for a handler that has yet to take it back. Each step moves one share, and
  the counter by no more. Equality would be false: see `TokenPendingDrift`.

### Limiters (`LimitersQueueProofs`, part I)

`LimitersInv` says how each algorithm's state records the past grants: the tick in
the channel is younger than the last grant but one (`StrictInv`); the ring is the
recent part of the grants, entry by entry (`SlidingInv`); the credit is at most
what was earned since any grant less what the grants after it cost (`BucketInv`), and
so, between any two grants, the time passed pays for all but a burst of those between
them (`StretchInv`). From it follow `WaitIsBounded`, `RingIsRecent`, `BucketKeepsRate`,
`BucketIsBounded`, and `LimitersKeepRate`: each step of each algorithm is a step
of `RateBound`. Strictness needs the grant before the last one in the invariant: a
stored tick allows two grants at once, never three.

### Queues (`LimitersQueueProofs`, part II)

`QueueInv` says that the tickets of a queue are distinct and that those of the
priority queue form a heap. `PopServes`, `PopWhereIsGreedy` and `CallsKeepOrder`
follow from it for each call. The work is in the loops, which `QueueImpl` writes as
`Rounds`, n rounds of a function from the state at the head of the loop to the next;
`RoundsKeep` reduces a claim about the loop to one about a round.

* Sifting: the one ticket that may be misplaced moves by a round towards the root
  (`RisesAt`) or away from it (`SinksAt`), and what has been passed is in order; the
  index bounds the rounds that are left. `PushKeepsHeap` and `PopTakesLeast` are
  what the rest uses of container/heap.
* PopWhere: `Scanned` says of the tickets tested so far which of them matched, as
  `PopWhereGreedy` does, and that they precede all others in serve order.
  `ScanGoesOn` tests the next one, whatever the scheduler. What remains differs:
  that the filter of `fifo.go` never overwrites a ticket it has yet to read
  (`FilterOK`: the write index stays behind the read index), that `lifo.go` reads
  from the end and reverses what is left, that `priority.go` empties the heap in
  order and fills it again.

The time stamps are distinct: the order in which tickets of equal priority and equal
`EnqueuedAt` leave the heap is up to container/heap.

### Registry and server (`ServerProofs`)

* `CapHolds`, `SettingsInherited`, `OnePathOneEndpoint`, `FallbackNeedsCap`, from
  `RegistryInv`. Its core is `DoneInv`: what a caller was told stays the answer to
  its path however the map grows afterwards - its endpoint, nothing, or an
  ancestor because there was no room. Settings are copied from the nearest
  *registered* path; that these are the settings of the nearest *configured* one
  rests on a lemma about walks towards the root.
* `RegistryUnderServer`: every step of the server is one of the registry or
  leaves it alone, so the four hold under it.
* `DrainGraceful`, from `ServerInv`: the count of active requests is the number of
  connections in a handler (`ActiveInv`); a drain in time leaves no connection open
  (`DrainedInv`); a handler behind the wait was counted after it, which takes a
  timeout (`LateInv`).
* `StopAllStopsAll`: with distinct paths every endpoint is in the map
  (`EveryoneMapped`), so StopAll reaches it (`StopInv`), and after a drain in time
  no Match is left to make another (`QuietInv`).

### Configuration (`ConfigProofs`)

`EveryFileStarts` and `NearestSourceWins`, for files of any length: the steps of
Load are followed through the list of endpoints, with the root inserted or not.
The check that a setting is accepted is compared with what the constructors reject,
algorithm by algorithm.

### Attach (`AttachMirrorProofs`, first part)

`AttachStreams`: `Attach` implements `EventStream`, for any number of clients of
which one is watched, any capacities of the channels and any number of events.

* `AttachInv` is inductive. The sources hold messages of their kind; until
  serveConn subscribes a client nothing is under way to it, and once its connection
  is closed nothing is added (`LinkOK`); the snapshot, or the nil in its place, is
  handed over once and before any event (`ReaderOK`); and among the lines still to be
  read a configuration can only be the first, a snapshot only the first or behind
  the configuration (`LinesOK`), which is what makes ConnectAddr right to give up on
  any other first line, and the reader right to send the snapshot only once.
* The pipe is `Due` of what the connection of the client holds, followed by what the
  server still has for everyone (`InParts`). `Due` is characterised, without
  induction, by what it does to the empty sequence, to one message and to a
  concatenation. A message that moves from a channel into the next leaves the pipe
  alone; a full channel, or a broadcast that finds the client's full, removes one
  message in the middle of it; the subscription adds two in front.
* Each action then maps to the step of `EventStream` it performs, or to none.

The part of `StreamKept` about other clients needs no separate theorem: `Watched` is
a constant of which only `Watched \in Clients` is assumed.

### The mirror (`AttachMirrorProofs`, second part)

* `SettingsShown` and `StatsStayWithPath`, from `MirrorInv`: the rows are `Faithful`
  (one per path, each with the configured path whose settings it shows), they
  include every configured path and none the registry does not have.
  Inserting, rebuilding and resetting rows is proved to preserve this, whatever the
  order of the paths.
* `DriftStaysBounded`. `DriftBounded` speaks of a display that has caught up; the
  invariant speaks of every state by following the dots through everything still
  under way: `Ends(p, x, pipe, e)` says that x dots become e once the messages of the
  pipe have been applied, counter stuck at zero and snapshot included. `DriftInv`
  says that this end lies between the requests that wait and the tickets owed, give
  or take the faults. The lemmas show by how much losing, adding or applying
  a message moves the end; as the count stops at zero, they rest on one fact: two
  counts that see the same events never move apart.

### Sums and courses without induction

The provers cannot instantiate the library's induction theorems. Where a fact needs
induction - a sum over a finite set, a count along a sequence - the proof takes a
smallest counterexample, which exists by `MinIsSmallest` in `SharedLemmas`, and
contradicts it.

### Only model-checked

* Liveness (`Answered`, `DeadTicketsDrain`, `DispatcherStops`, `AnsweredUntilStop`,
  `GoroutinesStop`, `ShutdownReturns`, `ConnectEnds`, `ServeReturns`): fairness and
  ENABLED are outside the prover.
* The two disagreements of section 3 (`TokenSignalBlocks`, `TokenPendingDrift`),
  which are counterexamples.

## 5. Not modelled

* Float rounding in rates and budgets; the models use rates whose interval is an
  integer number of clock units.
* JSON, logging, HTTP and YAML encoding; the response body.
* The compaction of the FIFO's backing array, which moves no ticket.
* Of the TUI: View and the styles, the tree labels, log lines, wait samples and
  percentiles, and the request injected by the space key, which is an ordinary
  request. All of it is display; none changes what is modelled.
* Flag parsing and the version command of `main`, a listener that cannot bind (the
  server logs it and keeps running), and the paths of Hub.Run and Fanout2 for
  closed channels: main closes neither sink.
* A line longer than the 1 MB buffer of the client's scanner (attach/client.go:28; a
  configuration of very many endpoints): it ends ConnectAddr or the reader as the end
  of the connection does, although the server still writes.
* Several requests on one HTTP connection, and the crash of a process: nothing is
  kept across a restart but the socket file, which Serve removes first.

## 6. Plan

Every component is modelled to the extent stated above, and every invariant, action
property and refinement that a run checks has a theorem. What is left, in this order:

1. `EndpointStandard` and `EndpointTokenWindow` over `QueueImpl`: that the operators
   of `Queue` they use, the scan included, are what the loops of `QueueImpl` do, as
   one refinement for the four schedulers instead of the three properties of a call.
2. Response building and the rest of `tui/` (View, log lines, wait samples), if they
   ever carry state that other parts depend on.
