# Kinara in TLA+

Kinara is a TypeScript backend framework: an Express application with an
in-process or RabbitMQ event bus, hooks, a cache, a rate limiter, WebSocket
rooms, gRPC, a service container, permissions, a small ORM with field encryption
and a logger with sinks. This directory holds TLA+ modules that model its stateful
parts, TLC configurations that check them on small instances, and TLAPS proofs
about all of them. Paths below are relative to the repository root (`src/...` is
the implementation, `docs/...` its documentation).

The program is single-threaded JavaScript. Code between two awaits runs alone, so
an action of a module is the code from one await (or entry) to the next, and
what a test hardly reaches is the order in which continuations, callbacks,
signals, timers and remote answers come. That is what the modules enumerate.

## Inventory

| Component | State | Operations | What is hard, and what makes it correct |
|---|---|---|---|
| Event bus, memory driver (`src/events/bus.ts`, `drivers/memory.ts`) | current driver, listeners per pattern, emits under way | on, off, emit, use, close | driver swaps while emits run, listeners that call the bus, factories that throw; every matching listener is called once, only a use() that crosses another drops an open driver, nothing waits for itself |
| Event names (`src/security/event-name.ts`) | none | two grammars, `matchesEvent` | which patterns match, the empty segment |
| RabbitMQ driver (`drivers/rabbitmq.ts`) | connection and channel fields, queues at the broker | connect, on, emit, close | connect, on and close are several awaits each, overlap, fail half way and lose their connection; fields that work, no more connections out of reach than calls that crossed |
| Hooks (`src/hooks/`) | registry, closures on the bus | loadHooks, register | a hook is subscribed pattern by pattern with awaits between; loading, other registrations and driver swaps interleave |
| HTTP application (`src/http/`, `src/exceptions/`, `src/context.ts`, `src/errors.ts`) | stack of layers, request ids, actors, answers | mount, finalizeHttp, listen, request handling, error handling | order of layers, interleaved requests, late answers racing the error handler, failing reporters |
| Permissions (`src/auth/permissions.ts`) | grants per role, the actor of a request's async context | can, assert, authorize | the actor asked about is that of the request, whatever ran meanwhile |
| Rate limiter (`src/http/rate-limit.ts`) | counter per key in a Map, MemoryCache or Redis | one handler | read, write and the answer to it in separate awaits, replicas, shared counter objects, window and TTL boundaries |
| Cache (`src/cache/manager.ts`) | entries with expiry | get, set, del, wrap, use, close | wrap racing deletes, drivers swapped that keep what they hold, remote answers coming late, expiry boundaries, Memcached's whole seconds |
| Process kernel (`src/app.ts`, `src/env.ts`, `src/providers/`) | current app, `.env`, providers | createApp, currentApp, resetCurrentApp | walks of createApp overlap, fail half way and race the reset, over state the process shares |
| ORM resolver (`src/orm/store.ts`) | the Mongo models are bound to | bind, resolve, reset | one per process, several apps |
| Container (`src/container.ts`) | bindings, instances | bind, singleton, instance, make, forget | what is cached against what was registered last |
| Lifecycle (`src/app.ts`, `src/boot.ts`) | parts opened, closers under way, process | boot, listen, close, signals | the order parts open and close in against work in flight, failing steps, overlapping closes |
| gRPC calls (`src/grpc/`, `timeout()` and `retry()` of `src/utils/index.ts`) | handlers, calls under way, attempts | add, listen, unaryCall, close | an attempt given up goes on; late answers, lost requests, broken connections, draining |
| WebSocket rooms (`src/ws/server.ts`) | clients, rooms, each client's own rooms | attach, join, leave, emit, close | two records of one fact, joins after the socket is gone |
| Logger and S3 sink (`src/logger.ts`, `src/log/s3.ts`) | buffer, batches being sent | write, flush | automatic and explicit flushes overlap, puts overtake one another and fail |
| ORM (`src/orm/`) | rows; cursors between pages | insert, update, destroy, paginate, cursorPaginate | writes between two pages and between count and find, rows that are given another `_id` |
| Field encryption (`src/crypto/fields.ts`) | one key per process, stored ciphers | setEncryptionKey, encrypt and decrypt on save and read | the key resolved once and shared, changed while a save awaits its collection or a read its row; prefix test |
| Configuration files, storage, CSV, payload cleaning, telemetry, media, CLI | see `PROJECT.json` | | no state that interleaves (see the last section) |

How they interact: `createApp` builds everything and `boot` listens and installs
the signal handlers; `Kinara.close` closes HTTP, WebSocket, gRPC, bus, cache and
databases and flushes the logs, in that order; the rate limiter counts through
the cache; hooks subscribe on the bus; handlers and hooks log; `authorize` asks the
permission gate about the actor of the request's context; the ORM finds its
collection through the resolver and encodes and decodes rows through the field
encryption; providers fill the container before any of them boots.

## Modules

| Module | Models | Composition |
|---|---|---|
| `EventNames` | names, patterns, `matchesEvent` | extended by `EventBus` and `HookWiring` |
| `EventDelivery` | abstract: what a bus promises, with no drivers and no queue | refined by `EventBus` |
| `EventBus`, `MCEventBus` | the bus over driver objects, microtasks, use and close | |
| `RabbitDriver` | the driver's two fields, the broker as far as the driver sees it | |
| `HookWiring`, `MCHookWiring` | loader, registry and the closures on the bus | |
| `Errors` | what errors are mapped to, for HTTP and for gRPC | extended by `HttpPipeline` and `RpcCalls` |
| `Permissions` | grants, roles, `can` | extended by `HttpPipeline` |
| `HttpPipeline`, `MCHttpPipeline` | building the stack and walking it, contexts, handlers, error path | extends the two above |
| `RateLimiter` | one client key over the three stores, its entry in a cache included | |
| `CacheWrap`, `MCCacheWrap` | one key over several caches, `wrap` against del, use, close and expiry | |
| `Container` | one key of an app's container | extended by `Kernel` |
| `FieldCrypto` | the process's key, stored rows, documents being saved and read | extended by `Kernel` |
| `Kernel`, `MCKernel` | several apps created, closed and reset in one process | composes the two above with the resolver and `.env` |
| `AppLifecycle` | boot, close, signals, work in flight | instantiated by `Shutdown` |
| `RecordLog` | abstract: what a sink promises of each record, with no batches, keys or bucket | refined by `LogSink` |
| `LogSink` | the S3 sink behind the logger | extended by `Shutdown` |
| `Shutdown` | a service that logs while it boots, serves and closes | composes the two above |
| `RpcCalls` | unary calls under `timeout()` and `retry()`, the server, the network | |
| `RoomMembership` | abstract: one relation between clients and rooms, and who hears an emit | refined by `WsRooms` |
| `WsRooms` | clients, rooms and emits | |
| `OrmPages` | cursor and offset walks over a changing collection | |
| `EventBusProofs`, `KernelProofs`, `HttpPipelineProofs`, `RateLimiterProofs` | proofs | extend the module they are about |
| `LifecycleProofs` | proofs about the sink, the lifecycle and the service of both | extends `Shutdown` |
| `RemoteProofs`, `DataProofs`, `DeliveryProofs` | proofs about rooms and gRPC calls; cache and walks; the RabbitMQ driver and hooks | extend the two modules each is about |

State corresponds to the fields the comments beside each VARIABLE name; variables
called *history* record something the code does not keep, for a property to refer
to. Some modules have, beside a definition, a faulty form of it (`ForgetsMongo` beside
`CloseOrder`): it shows which mistake each property would notice, and no specification
uses it. Every module states the types of its variables as `TypeOK`.

Points of translation worth knowing:

- **EventBus.** `emit` queues one microtask per matching listener and runs to that
  point without an await. `driver.close()` of the memory driver clears its map at
  once, but the code behind `await driver.close()` runs behind every microtask
  queued before: that is `ClosedByNow`. Listeners may call `use` and `close`
  (`Callers`), and do not end before these return. A factory may throw: the bus is
  then left on the driver it has closed.
- **RabbitDriver.** `connect`, `on` and `close` move from await to await, `on` through
  `AssertExchange`, `AssertQueue`, `BindQueue` and `Consume`. A connection may be lost
  at any time (`Loss`); nothing tells the driver, whose fields stay as they are.
- **RateLimiter.** `MemoryCache.get` yields the stored object itself, Redis a
  copy; the model keeps a heap of counter objects. Redis applies a set in one step
  (`Apply`) and the handler judges in a later one (`Decide`), so another replica may act
  on a count whose request has not heard of it, or never does (`StoreFails`). The
  store is chosen in `Init`.
- **CacheWrap.** Each driver has a cache of its own kind and keeps what it holds when
  another takes its place: `use()` empties nothing, `close()` only a MemoryCache. Get,
  set and del go to the driver of the moment they are called and, at a remote cache,
  are applied later; an applied set whose answer is lost makes `wrap` reject.
- **AppLifecycle.** `Kinara.close` is one walk along `CloseOrder`, with a step
  per awaited part; each signal handler and the program have a walk of their own.
  A second `server.close()` is refused by node and makes that walk reject. Work in
  flight is what a client still waits for; a handler whose client is gone holds up
  nothing and is not part of it.
- **LogSink.** A put is applied in one step (`Applied`) and answered in another, so
  one whose answer is lost counts as failed although the bucket has the object.
- **Shutdown.** `Closer` of the lifecycle is `Flusher` of the sink. The last close
  step calls `Flush` and settles when its batch does; a handled signal writes a
  log record in the same step. Nothing of the sink moves after the process ended.
- **HttpPipeline.** A request walks to the next layer that can stop it in one
  step; layers that only set headers are passed on the way (`Headers`). An application
  may be without HTTP, switched off or because `createHttp` failed and `createApp` went
  on (`CreateHttpFails`); a promise rejected with `undefined` is a plain `next()`. The store
  of a request's context is a record of its id and actor, and what a handler sees
  of it is read through the request that handler belongs to.
- **OrmPages.** A page's find is one step (the in-memory cursor materializes at
  once); `paginate` awaits its count first, so `Count` and `OffsetPage` are two. An
  update lays any `$set` over a row, `_id` included.
- **FieldCrypto.** A stored value is the plain value and the keys around it, so a
  second layer of encryption would show. A save awaits its collection, encodes under
  the key of that moment, and the row is written then (memory) or later (Mongo); a
  read decodes later than it found the row. Whoever looks for the key keeps the
  environment's, also if it then throws.
- **Kernel.** `createApp` is one walk per app from await to await; every step of it
  may reject (`CreateFails`), and what was set on the way stays. Rows, key and
  resolver belong to the process; the container followed is that of one app.
- **Container.** An object is the registration it came from and its serial number;
  the other keys of a container do not influence this one.
- **RpcCalls.** A call is its attempts, which are separate requests on the wire.
  `timeout()` settles its own promise and leaves the request and its handler alone,
  so what an attempt was answered may arrive when a later one is awaited. The server's
  graceful shutdown waits for calls, not handlers: one whose call was broken off
  (`Cut`) runs on behind a resolved close().

## Checks

Every run except the one marked † finds no error. Bounds are in the `.cfg` named
like the module (`LifecycleLinger.cfg` for the marked one).

| Run | Instance | What it shows |
|---|---|---|
| `event_bus` | the pattern `u.*` and the events `u.c` and `b`, 1 listener, 2 emissions, 2 callers of use and close from outside and from inside the listener, 3 driver objects | `LeaksAreCrossings`: at most one driver is dropped open for each use() that crossed another. `TaskReturns`: use and close return, also from inside a listener. `DeliverySpec`: the bus implements `EventDelivery` |
| `rate_limiter` | 4 requests, window of 2 ms, limit 1, time to 2, all stores | `WindowBound` (the limit in each of a client's windows, and windows that are disjoint, while requests take turns), `NoEarlyRejection` (a cause for each rejection however they race) |
| `shutdown` | all parts, one that fails to open, two that fail to close, a signal and the program closing, 1 piece of work, 3 records in batches of 2 | `RecordsHaveOneFate` (the sink implements `RecordLog`: each record is sent once with all that was buffered, answered once and never sent again), `FlushAnswers` of the sink; `BackendsOutliveWork`, `ClosesInOrder`, `SignalLeadsToExit` of the lifecycle; `WorkIsLogged` of both together |
| `lifecycle_linger` † | 1 WebSocket client that stays | `CloseSettles` fails: close() waits for ever |
| `ws_rooms` | 2 clients, 2 rooms | `MembershipSpec`: the two records of who is in which room, with sockets, a server and ghosts, implement `RoomMembership`. `GhostsAreLateJoins` |
| `rabbit_driver` | 3 callers, 3 connections, dials and channels that fail and connections that are lost, 2 overlaps or failures that cost a connection | `OrphansAreSlips`: no more connections out of the driver's reach than these. `FieldsUsable`: no call is rejected by the driver's state until one of these happens, and again after a close() that resolves alone |
| `cache_wrap` | 2 callers of wrap, 2 caches of any of the three kinds, 1 change of the source, TTL of 1 ms, a "second" of 2 ms, time to 3; callers and caches are symmetric | `DeleteIsFinal`: a deleted value is served only by a cache the delete did not reach, or behind a set it overtook. `StalenessBounded` |
| `orm_pages` | 3 ids, 3 inserts, pages of 2, a condition on `_id` | `WalkComplete`, `WalkForward`, `OffsetExact`, `WalkEnds` |
| `hook_wiring` | 4 sets of hook files with every kind of file, 1 other registrar, 4 registrations, 2 closes or swaps | `CallsPerRegistration`, `HeardIsListed` |
| `http_pipeline` | 2 requests of the seven kinds in `Asked` (two of them an editor and a guest at a guarded route), CORS, cookies, limiter and health, or no HTTP at all, 1 thing mounted, 1 error, 1 reporter | `AnsweredOnce`, `EnvelopeHasOwnId`, `MountedIsReached`, `GuardedRunsAsItself`, `EveryRequestEnds` |
| `kernel` | 2 apps (one with key and Mongo, one with a key in `.env` and rows in memory), 2 keys, 2 rows, a plain value and one that looks like a cipher, 1 document on its way at a time, 2 providers of which the second registers, 2 registrations, 2 objects | `LoneAppHasOwn`, `BootFindsServices` of the process; `NeverClearAtRest`, `FreshRowsReadable`, `ReadsWhatWasSaved` of rows; `MadeAsRegistered` of the container |
| `rpc_calls` | 1 call of 3 attempts, 2 services, 2 errors a handler throws | `OutcomeIsOfLastAttempt`, `CallSettles` |

Why these bounds are enough to be interesting: every race in this code is between
two continuations of the same kind, so two callers, requests or tasks meet in
every order. A third matters where one must come between two others, as in the
limiter (one request opens a window, one fills it, one is judged, one opens the
next), which has four, and in a retry (the answer to the first attempt comes while
the third is awaited). Time runs over the end of at least one window or lifetime.
Walks have two full pages, and nothing is written after one is over. The log sink
fills a batch by itself and leaves a record to flush. Three driver objects are two
swaps, the second crossing the first; three RabbitMQ callers are two that dial and one
that closes between. Two caches are a swap there and back. Values for every larger
instance are what the proofs are for.

`Kernel.cfg` has two constraints. `ModelsOrServices`: rows and container touch no
common variable but the walk of `createApp`, so a behaviour exercises one of them
beyond what that walk does itself, not both. `CallsElsewhere`: no document is on its way
while providers register and boot, which do nothing a save or read could tell apart.
`MaxCall` is one: documents on their way do not see each other, only the key, the rows
and the resolver, and those change under each. The bound on registrations also stops
a provider's `register()` when the program has used them up; the app is then created
in other behaviours. The proofs need neither the constraints nor particular bounds.

`CHECK_DEADLOCK FALSE` stands where the system stops: an exited process, a clock
at its bound, a walk at its end, a call that settled with server and client closed.

### Fairness

- `event_bus`: the event loop runs queued microtasks (weak fairness on starting a
  listener, settling an emit and continuing use or close). Custom drivers settle;
  a listener ends once it can, strongly fair because it may go in and out of
  calls to use and close.
- `shutdown`: close steps settle when nothing holds them, puts are answered one
  way or the other (the SDK times out), requests, RPCs and WebSocket clients end.
  `LingerSpec` drops the last for WebSocket clients, since `Kinara.close` asks
  nobody to leave before `server.close()` has returned.
- `orm_pages`: the program asks for the next page until there is none.
- `http_pipeline`: the store, the handlers and the reporters come back, which the
  framework has no time limit for.
- `rpc_calls`: timers fire (`TimesOut`, `Wake`). Of the network, the server and the
  handlers nothing is assumed: `CallSettles` is what the two utilities promise alone.

No fairness is assumed of signals, clients, faults, clocks or writers.

## Proofs

Each proof module shows, with TLAPS, for every value of the constants:

- **`EventBusProofs`**: `TypeOK`, `LeaksAreCrossings`, and that `EventBus` implements
  `EventDelivery` (`BusDelivers`: each step maps to a step of it or to none). The
  invariant `IInv` adds to these what makes them inductive: nothing happened to emits
  and drivers to come (`Untouched`), a call under way closes a driver that exists
  (`Recorded`), a listener call is queued, running or done (`OneStage`). Leaks are
  counted along the one use() that found nobody waiting for a close (`FirstIsAlone`):
  as long as the bus has the driver it closes, so does everyone who waits
  (`FirstIsFresh`), and once the bus has another, a crossed use() has paid for the
  driver this one is about to drop (`FirstIsPaidFor`).
- **`RemoteProofs`**, rooms: `MembershipAgrees`, `GhostsAreLateJoins`, the action
  property `EmitReachesTheRoom`, and that `WsRooms` implements `RoomMembership`
  (`RoomsAreOneRelation`). The invariant adds `RoomsTypeOK` and `Connections`: a client
  that never connected is in no room, and the registered ones are those whose socket
  is open or closing. That is what maps the close event to leaving every room, and
  a late join, which leaves a ghost, to no step at all.
- **`RemoteProofs`**, gRPC: `OutcomeIsOfLastAttempt`. No attempt beyond the counter has
  left the caller (`Begun`), a value under way was called back by a handler
  (`Accounted`), the counter bounds what was heard (`Counted`), what settled settled so
  (`Done`).
- **`LifecycleProofs`**, the sink: `EachRecordOnce`, `KeysFollowRecords`, `FlushAnswers`,
  and that `LogSink` implements `RecordLog` (`RecordsKeepOneFate`). The invariant
  adds that batches lie in a line up to what was taken (`InLine`), cover it
  (`Covered`), and that a flush waits for one batch (`OneWait`). For the refinement a
  batch being sent has not been answered before (`Apart`), so what a record has
  become is read off the one batch that holds it, whatever the bucket got of it.
- **`LifecycleProofs`**, the service: booting, logging and shutting down implements the
  sink (`ServiceHasSink`), so the sink's theorems hold inside it (`CloseFlushes`,
  `OneFateInService`); and `BackendsOutliveWork`, `ClosesInOrder` and `WorkIsLogged`.
  The invariant is one on the order of things: backends open before the first port and
  nobody closes before all is open (`Opening`, `Started`), a closer behind a part found
  it closed or closed it (`Passed`), behind the ports nothing is in flight (`NoneLeft`),
  and only a closer that has come to a part closes it (`InTurn`); the log adds that a
  closer waiting for the last flush has handed over what was written during work
  (`Flushed`).
- **`RateLimiterProofs`**: `WindowBound` and `NoEarlyRejection`. With copied counters
  (Map, Redis) a count never runs ahead of what its window let through or is about to,
  unless that has reached the limit (`Copies`, over `Through`); with the objects of
  MemoryCache the count of an object is no more than the requests that counted in it
  (`Shared`). While requests take turns (`Turns`) the stored count is no less than those
  its window admitted, and every window judged in is that one or was over before it
  began.
- **`KernelProofs`**: all six properties of `Kernel`. `CryptoInv` says what stored
  rows look like and that a fresh one is under the active key, and the same of a
  document on its way (`CallsHold`), which loses that with every change of the key
  (`AgedHold`); `ContainerInv` that
  a cached object is of the last registration or was kept, `Shared` and `Alone` how
  far an app's walk has come determines current app, resolver and key while nobody
  shares the process, `Registering` that providers behind the walk have registered.
- **`HttpPipelineProofs`**: `AnsweredOnce`, `EnvelopeHasOwnId`, `MountedIsReached`,
  `GuardedRunsAsItself`. `Built` says which layers stand where in a stack that is being
  built or was never begun, `Walks` where a request in each phase stands in it,
  `Answered` what the answer it has says, `Known` whose context it carries. That a walk
  finds a layer to stop at rests on a set of numbers having a least one.
- **`DataProofs`**, the cache: `DeleteIsFinal` and `StalenessBounded`. While program and
  source are in step, no entry is stale but in a cache the last delete did not reach,
  and no value on its way to a cache but behind a delete that overtook it (`Fresh`). At
  any time a loader saw its version before the source left it, and an entry runs out no
  later than that moment, its lifetime and the slowest loader together (`Dated`).
- **`DataProofs`**, walks: `WalkForward`, `WalkComplete`, `OffsetExact`, and that every
  page but the last moves the cursor on (`EachPageAdvances`). `PagesInv` says that the
  cursor is no less than any `_id` returned (`CursorAt`), that each row left alone is
  there (`SteadyHere`) and that up to the cursor one of its `_id` was returned
  (`Covered`), that a serial number is one row's (`OwnSerials`), and that without
  writes the pages of an offset walk are a prefix of what matches (`ByPages`). `Sorted`
  puts rows in order by how many are below each, so the argument needs cardinalities
  and no recursion. `BoundCutsNothing`: the bound on pages in the model's guards takes
  no behaviour away, since a walk that goes on has passed an `_id` with each page.
- **`DeliveryProofs`**, RabbitMQ: `OrphansAreSlips` and `FieldsUsable`. What is out of
  reach and what the calls under way may yet leave behind is paid for together
  (`Paid`, `AtStake`): each of several dials but one leaves a connection, all of them
  if a close() that found none is about to empty the field. Without overlaps and
  faults a call that connects or closes is alone, the fields are what its step says,
  and otherwise both are there or both absent, as at the broker (`Calm`).
- **`DeliveryProofs`**, hooks: `HeardIsListed` and `CallsPerRegistration`. A registrar
  that awaits is within the list of its own registration (`Underway`, `OneEach`), the
  bus has exactly the places an undisturbed `register()` is past (`Pace`), and the
  registry the last hook of each id (`Latest`). How many closures hear an event is then
  the product of registrations and matching patterns, by a bijection.
- **Types.** Each proof module also shows the `TypeOK` of the modules it is about, which
  for some needs more than the invariant: `HttpPipelineProofs` that no layer stands in
  the stack twice (`Once`), `RateLimiterProofs` that no date lies beyond the last window
  (`Dated`; only a limiter that anyone asks, `Request # {}`, has an object to store),
  `KernelProofs` how many objects and providers there are (`BoundsKept`).

Assumptions used, each evaluated by TLC on a run: `BusAssumption` and
`SegmentAssumption` (patterns and events are legal, bounds are naturals),
`ClientAssumption` and `LimiterAssumption` (finitely many clients
and requests), `SinkAssumption` (positive batch size),
`ShutdownAssumption` (a service has HTTP and logs, and a flush that fails does not
make close() fail), `PipelineAssumption` and `PermissionAssumption` (names of
layers, mounted handlers, actors and requests are apart), `RpcAssumption`,
`KernelAssumption`, `CryptoAssumption`, `NoneIsNoKey`, `ContainerAssumption`,
`CacheAssumption`, `PagesAssumption` (ids are numbers, a page has a row at least),
`RabbitAssumption` and `WiringAssumption` (each hook has an id and a list of patterns, not
empty if it is to be registered, and the loader is none of the program's parts).

Proved without being checked by a run: the types of all modules, `MembershipAgrees`,
`EachRecordOnce`, `EmitReachesTheRoom`, `KeysFollowRecords`, `CursorRises` and
`BoundCutsNothing`.

Only model-checked: liveness under fairness, which TLAPS cannot prove
(`TaskReturns`, `SignalLeadsToExit`, `EveryRequestEnds`, `WalkEnds`, `CallSettles`). What
recursive data computes for every input is not proved, and no module declares a
recursive operator.

## Where the code departs from its documentation

Checked: `docs/production.md:34` says "`await app.close()` stops HTTP, gRPC, the
bus, cache, Mongo, and log sinks." `Kinara.close` awaits `server.close()` before it
closes the WebSocket server, and node waits for upgraded sockets: one connected
client keeps it, and a SIGTERM, waiting (`lifecycle_linger`).

Met while modelling, and visible in the models, without a run of their own:

- Two requests that read the counter before either writes it back are both let
  through (`src/http/rate-limit.ts:40`); `WindowBound` therefore assumes that
  requests take turns. `docs/caching.md:22` recommends Redis behind replicas.
- A second signal's close() is refused and its `finally` exits the process before
  the first has closed bus and cache (`src/boot.ts:47`). `ClosesInOrder` holds of the
  closes that resolve; that exit is behind one that was rejected.
- The handler of a gRPC call that was broken off is waited for by nobody, and runs on
  while close() closes bus, cache and databases (`src/grpc/server.ts:103`; `Cut`).
- `use()` of the cache neither closes nor empties the driver before
  (`src/cache/manager.ts:72`): given back, it serves what was deleted meanwhile
  (`missed` in `CacheWrap`).
- A driver factory that throws leaves the bus on a driver that is closed
  (`src/events/bus.ts:35`, `UseMake`).
- A lost RabbitMQ connection stays in the driver's fields: connect() does nothing about
  it, and close() rejects before it clears them (`Loss`, `CloseRejects`).
- An update may give a row another `_id`; a cursor walk then returns it again or
  passes it by (`SetOver`, `WalkForward`).
- `docs/errors.md:35` says "Every error includes `meta.requestId`": the 404 body has
  none (`src/http/errors.ts:8`), nor has an error of the body parsers, which stand
  before `requestContext` and so also answer without `x-request-id`.
- Same line, "reports 5xx": an error whose foreign string code is `NOT_FOUND` gets
  status 500 and is not reported (`Mapped.client`, `ShouldReport`); "Client errors
  are not reported": a cookie that does not decode is a 500 and is (`badCookie`).
- `docs/hooks.md:22` allows wildcards: the RabbitMQ driver refuses them after the
  bus accepted them (`Ready` in `RabbitDriver`).
- `docs/orm.md:31`: `cursorPaginate` walks text ids that the projection keeps. With
  number ids, Mongo's own ObjectIds or a projection without `_id` the text cursor
  skips rows or ends the walk, so `OrmPages` keeps to the first case.
- A plain value that starts with `k1.` is stored as it is and cannot be read back
  (`isEncrypted` in `FieldCrypto`).
- flush() returns at once on an empty buffer, also when an automatic flush is still
  sending; an exit right after cuts that put off (`Flush`, `Answer`).
- Two apps of one process share resolver, key and `currentApp()`: the models of both
  use the Mongo bound last (`src/orm/store.ts:6`). `LoneAppHasOwn` says what remains.
- A `createApp` that fails leaves the half-built app as the current one and whatever
  it set before in place (`CreateFails`). A closed app's Mongo stays bound to the
  models until the reset (`Close`, `UsesModel`).
- `singleton()` over a key that was already made keeps the object of the former
  registration, unlike `bind()` and `instance()` (`kept` in `Container`).
- `timeout()` cancels nothing: the handler of an attempt that was given up runs all
  the same, beside that of the next one (`TimesOut` in `RpcCalls`).

## Not modelled, and the plan

Left out for good, with the reason:

- storage, command line, file discovery, the text of proto files: input and output
  of files behind checks that look at one argument;
- CSV export, payload cleaning, responses and validation, log formatting: functions
  of one input that keep nothing; what interleaves with a CSV export is what
  `OrmPages` has between two queries;
- loading, merging and looking up configuration: read once, before anything runs
  beside it, and never written again;
- media and telemetry: calls passed on, and spans that are never read back;
- the versioned keyring: two functions of the ring they are given, which nothing in
  `src/` calls on save or read;
- `boot()` that fails and leaves open what `createApp` opened: the program ends at
  the failure, so no step of it follows that a property could speak of.

AES, Express, node, amqplib, grpc-js, Mongo and the S3 SDK are external and appear as
this code uses them.

Order followed so far: bus, limiter, lifecycle, rooms, RabbitMQ, sink, cache, ORM,
hooks, HTTP, encryption, lifecycle with sink, errors and gRPC calls, permissions in
the pipeline, the kernel with container and encryption; proofs of the last four and
of the lifecycle and the limiter; proofs of RabbitMQ, cache, walks and hooks, and
the abstract `RoomMembership` and `RecordLog` with their refinements. Next:

1. Models: `HookWiring` over `EventBus` in place of its own closures, the limiter's
   counters inside `HttpPipeline`, encrypted walks (`OrmPages` with `FieldCrypto`).
2. Abstract specifications, each with the proof that the module implements it: a
   cache entry that is fresh or absent for `CacheWrap`, a fixed-window counter for a
   limiter whose requests take turns, calls and their outcomes for `RpcCalls`.
3. Proofs: the refinements of item 2, and action properties of what is settled (a
  call that has an outcome keeps it, an entry's expiry never moves without a write).
