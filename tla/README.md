# A TLA+ verification of evm-oracle-demo-api

The program is a backend-for-frontend (BFF) in Go. It serves a dashboard over REST
and WebSocket and keeps no database: prices come from price-service, chain events
from indexer-service, submissions from oracle-service (all gRPC), and Redis holds
the rate limiter's buckets. What is hard in it is therefore not data but
concurrency: two upstream streams fan out to many sockets while clients come and
go, requests of several replicas race in Redis, upstream data changes between the
calls of one request, and the process has to come up, and go down, in order.

## Inventory

| Component | State | Operations | Interacts with | What is hard | What makes it correct |
|---|---|---|---|---|---|
| WebSocket hub (`internal/wshub`) | client set and its RWMutex, a bounded channel and a `closeOnce` per client, drop counter | `Start`, two upstream loops, `broadcast`, `register`, `unregister`, `Serve` with two pumps, `close`, `Stop` | streams of price-service and indexer-service, the registry, `App` | snapshots used after the lock is released; four kinds of goroutine racing into `close` | frames in order, none skipped, no channel over capacity, closed clients gone, `Stop` returns |
| Rate limiter (`internal/ratelimit`) | one sorted set per client key in Redis | `Allow` (a Lua script), `Middleware` | Redis, every REST route | clocks of several replicas, retransmission, errors after the script ran, key expiry | a bound on admissions in any window, no unjustified 429, keys disappear |
| Aggregator registry (`internal/aggregatorregistry`) | map asset -> address | `Load`, `Set`, `Aggregator`, `Snapshot` | indexer-service, the hub's indexer loop, REST handlers | a seed followed by a live-only stream that breaks | what is missing fell into a known gap; announced assets are known |
| REST handlers (`internal/handlers`) | none between requests | six data endpoints, static docs | all three services, the registry | calls of one request at different moments, partial failure, no deadline | fields are the asset's own and fresh; degradation is confined; statuses tell the truth |
| Application lifecycle (`internal/application.go`, `cmd`) | connections, listeners, error channel, WaitGroup | `Init`, `Serve`, `Stop`, signals | everything | a step of `Init` failing, listener errors racing signals, requests outliving a deadline | nothing leaks, nothing is closed under its users, a signal ends the process |
| HTTP middleware (`internal/middleware`, `internal/metrics`, `ratelimit/clientip.go`, `handlers/routes.go`) | a response writer and header map per request, two status recorders, counters, the limiter's buckets | request id, access log, recovery, metrics, CORS, rate limit, handler, and the way back | net/http, Redis, every route | nesting: who still runs after an early answer, a panic or a hijack, and who sees which status | log and counters agree with the response; browsers can read every answer; the limit is per sender |
| Upstream clients (`internal/*client`, `internal/grpcdial`) | one connection each | `Dial`, `Close`, unary calls, two streams | the services | hanging services, keepalive | part of the modules above |
| Listeners (`internal/server`, `internal/healthz`) | an `http.Server` each | `New`, `Serve`, `Shutdown`, `/readyz` | `App` | readiness has no checker: it says "ready" whenever the listener is up | an answering listener has everything behind it |
| Models (`internal/models`) | the static catalog | catalog lookups, conversions from and to proto | clients, handlers, registry | enums of a newer service, a filter that loses its kinds | part of `Registry` and `Handlers` |
| Module manager, configuration, version, logging | none that changes | outcomes of start-up steps | `App` | | part of the lifecycle |

`PROJECT.json` lists each hazard at its line together with the property that
would catch it.

## Modules

| Module | Models | State and actions in terms of the code |
|---|---|---|
| `WsHub` | `wshub/hub.go`, `wshub/client.go` | One program counter per goroutine: the feeds and the goroutine in `Stop` (`pc`), each client's handler (`serve`) and writer (`writer`), and the body of `closeOnce` (`once`). `snapshot[p]` is the copy a goroutine iterates over. `log[c]` is everything the channel has accepted, of which `taken[c]` has been received and `written[c]` written. Every lock acquisition, channel operation and call of `close` is a step of its own. |
| `RateLimit` | `ratelimit/redis.go`, `middleware.go` | One key. `Script` is one atomic run of the Lua script with a timestamp read earlier (`Arrive`); `Retransmit` is go-redis sending the same command again; `FailOpen` is `Middleware` serving a request whose `Allow` failed, before or after the script ran; `Tick` is time, with Redis deleting the key when its `PEXPIRE` is due. |
| `Relay` | what the hub promises | The abstract specification: a feed publishes numbered frames one at a time; a frame is owed to everyone who is a member at that moment and is delivered, or abandoned because the client has left. No locks, snapshots, channels or goroutines. `WsHub` instantiates it as `Promise`. |
| `Registry` | `aggregatorregistry/registry.go`, `ListEvents` and `StreamEvents`, the event conversions, the body of `runIndexerStream` | The indexer's list of events of all kinds, the map, and the stream with the events it still has to deliver. An address is the position of its event. `Load` goes through the kind filter (`toProtoKinds`) and the indexer's newest-first page. |
| `Handlers` | `handlers/*.go`, the unary calls of the clients, the status conversions and catalog lookups | One request. `at` is the place in the handler; `link` (alive, hung behind a live transport, or silent) and `wait` describe the call in flight; the world (`price`, `round`, `known`, `record`) changes at any step. |
| `Middleware` | `handlers/routes.go`, `internal/middleware`, `internal/metrics`, `ratelimit/middleware.go`, `ratelimit/clientip.go` | Several requests at once. `Layers` is the chain `Register` builds; `at` and `mode` say which layer a request is in and whether it descends, returns or unwinds; `wire` is what net/http has sent. `Peer` and `XFF` derive the connecting host and the header from where a request comes from, what its sender wrote and how a proxy relays it. The limiter is what `RateLimit` shows of `Allow`: a token while the key's window has room. |
| `Lifecycle` | `main`, `cmd`, `application.go`, `server`, `healthz` | The main goroutine's program counter, the four connections, the hub, the two listener goroutines, the WaitGroup's counter, the error channel, signals and requests. Each failure branch of `Init` closes the connections it names (`Closed`). The hub is abstracted to "running" and "stopped"; that `Hub.Stop` returns, which this module takes for granted, is `StopTerminates` of `WsHub`. |
| `WsHubProofs`, `WsHubRefinement`, `WsHubDrops`, `RateLimitProofs`, `RegistryProofs`, `HandlersProofs`, `MiddlewareProofs`, `LifecycleProofs` | | Theorems, see below. |
| `MCWsHub`, `MCRateLimit`, `MCRegistry`, `MCHandlers`, `MCMiddleware`, `MCLifecycle` | | Instances for TLC and their symmetry sets. |

Operators that stand beside a definition and differ from it in one place
(`DropKeepingClient`, `FullOffByOne`, ...) are faults a change of the code could
introduce; `PROJECT.json` says which property finds each of them.

Abstractions common to all modules: payloads, addresses and messages are numbers
or names; formatting, logging and JSON are left out. A frame is the n-th payload
of its feed. Prices and rounds are version numbers. Ids in a path are their shape or
their spelling, records their status, addresses their host.

## Runs

Passing runs:

| Run | Instance | What it shows |
|---|---|---|
| `hub_feeds` | two feeds, one client, capacity 1, two frames per feed | `TypeOK` (capacity included), `NoZombie`, `InOrderNoGap`, `NobodySkipped`, `DropsBounded`, and the refinement `ImplementsRelay` |
| `hub_liveness` | two feeds, one client, one frame per feed, fair | `StopTerminates`, `StopClosesRegistered`, `CloseCompletes`, `AcceptedIsWritten` |
| `rate_limit` | four requests and one bypassed, limit 2, window 3, lag 1, two attempts, five ticks | `WindowBound`, `DeniedOnlyWhenFull`, `NoStickyKey` |
| `registry` | two catalog assets and a foreign one, two events of other kinds, page of 2, fair | `AnnouncedIsKnown`, `MissingOnlyInGap`, `StreamedBecomesKnown` |
| `handlers` | catalog of two, every endpoint, versions up to 2, two changes during a request, fair | `NothingInvented`, `NothingLeftOut`, `StatusHonest`, `PageInRange`, `OutcomeFaithful`, `RequestEnds` |
| `middleware` | two requests at once, sixteen shapes of request, limit 1 | `LogMatchesWire`, `CountedOnce`, `ReadableByBrowser`, `PerSender`, `OnlyDataCharged` |
| `lifecycle` | two requests, fair | `NothingLeftOpen`, `ClosedAfterUse`, `ReadyMeansUp`, `SignalEnds`, `FailureEnds` |

Runs that refute what a comment, a message or a document says (each is a finding
in `PROJECT.json`, with the quotation):

| Run | Property | What happens |
|---|---|---|
| `hub_stop_misses` | `StopClosesEveryClient` | A handler whose connection is already upgraded when `Stop` begins registers after `Stop` took its snapshot; the client is never closed. (Nor is one whose request outlived `Shutdown`'s deadline and upgrades later still.) `hub_liveness` shows the weaker guarantee that does hold. |
| `rate_limit_retry_after` | `RetryAfterSuffices` | `Retry-After` is truncated to whole seconds; a client that waits exactly that long is denied again. |
| `registry_retry` | `RetriedOnLiveEvent` | After a failed `Load` a live event brings its own asset only; nothing is retried. |
| `lifecycle_stop_bounded` | `StopBounded` | Both listeners fail, the error channel has room for one, and `Stop` waits for the second sender for ever. |
| `lifecycle_post_run` | `StopAfterError` | Cobra does not call `PostRun` after an error of `RunE`; after a listener error the process exits without `App.Stop`. |

Four consequences the runs do not state as violations, because no sentence of the
repository is contradicted outright:

* A panicking request is in the access log, as a 500, but not in
  `http_requests_total`: the metrics layer is inside `Recovery` and does not get to its
  counter. `CountedOnce` is therefore about the requests that did not panic.
* The handlers set no deadline. Keepalive gives up a connection that has gone silent,
  after 30 s + 10 s by default; `http.write_timeout` is 15 s, so that the degraded answer
  which `NothingLeftOut` is about then reaches nobody. Keepalive pings are answered by the
  transport, though: a service whose handler hangs while its process and network are well
  is never timed out, and the request lasts until the client goes away. `RequestEnds`
  states exactly that: every request ends except one held by a hung service for a client
  that still waits.
* Behind a trusted proxy that appends to `X-Forwarded-For`, or passes it on unchanged, the
  leftmost entry, which `ClientIP` takes, is whatever the client wrote: one sender can
  then have many buckets, or fill another's. The comment of `ClientIP` promises
  something of untrusted requests only. `PerSender` says what does hold: for every request whose
  sender did not write the entry that is read, the limit is per sender.
* `/readyz` is given no checker, so it says "ready" without asking the upstream
  services or Redis; `ReadyMeansUp` is about the process's own parts.

### Bounds, and why they are enough

* `WsHub`: capacity 1 makes a channel full after one frame, so with two frames per
  feed the drop, the frame after the drop, and a drop by the other feed all occur.
  One client meets every race in `close` (feed, feed, `Stop`, reader, writer). How
  one client's fate affects the others in a broadcast takes two clients with two
  feeds, which is beyond TLC's reach here (more than ten million states); the
  theorems cover it, for any number of both.
* `RateLimit`: limit 2 with four requests fills the window and goes beyond it; five
  ticks are longer than window + lag, so tokens leave the window and keys expire;
  two attempts let a command be repeated. The theorems have none of these bounds.
* `Registry`: three registrations against a page of two put one beyond the page, some
  between `Load` and the stream, and some into a break; two events of other kinds are
  what it takes to fill the page with them, were the filter lost. An asset is registered
  once, as `registry.go` says ("Aggregator addresses don't change during the lifetime
  of a deployment"): what `Load` would make of two registrations of one asset, which a
  newest-first page yields in the wrong order, is outside what the code promises.
* `Handlers`: two assets are what it takes to mix assets up and to lose one after
  the other. With `MaxVersion = 2` a price or a round is absent (0), there (1) or newer
  (2): a request can begin with version 1 or 2 in place, so that an answer with an older
  one than at its start is a state `NothingInvented` would reject, and `MaxMoved = 2`
  lets two fields change under one request, twice if they begin at 0. A record goes from
  absent to pending to an outcome while it is looked up. `KeepAlive` is how long a silent
  connection stays open.
* `Middleware`: a limit of 1 makes the second request of a sender the rejected one, and
  two requests are what it takes to share or split a key. The shapes cover each path the
  chain tells apart, and for the key: a direct peer with a forged header, a proxied
  request with and without a header of the client's own, through a proxy that sets,
  appends to or forwards the header, a request via an untrusted proxy, a blank first entry,
  a connection without an address, a blank trusted entry. Nothing is assumed of proxies;
  `Vouched` singles out the requests `PerSender` speaks of.
* `Lifecycle`: two requests, so that one may end while another outlives the
  deadline; everything else is finite in the code.

Deadlock is not checked where the system may stop: a hub that was stopped, a request
that was answered, a process that exited, a clock at its bound.

### Fairness

Weak fairness of a goroutine's own steps is what the Go scheduler gives. `Register`
and `Unregister` have strong fairness, because they wait for a mutex that others keep
taking, and Go's `RWMutex` does not starve writers. A stream ends when its context is
cancelled (gRPC), and a read or a write on a closed connection returns. In `Handlers`
a call that can end does: one on a silent connection can because of the keepalive options
of `grpcdial` (without them `RequestEnds` fails), and one whose client has left because
the handlers pass the request's context on. Nothing makes a hung service answer, and
nothing makes its client leave. A call to a service that is neither hung nor cut off
returns or fails, which is no more than the meaning of those words: a service may
become hung at any moment of any call. Nothing makes a message, a signal, a registration, a failure or a client come, and nothing makes a
REST request end in `Lifecycle`.

## Theorems

Every safety invariant of the passing runs, and the refinement, is a theorem too, for
every value of the constants that the named assumptions allow. Each proof module shows
`Spec => []Inv` for an inductive invariant `Inv` (tried with TLC on a small instance first),
and each property from it.

`WsHubProofs` (any sets of feeds and clients, any positive capacity, any number of
frames; assumption `HubAssumption`): `TypeCorrect`, `ClosedClientsAreGone`
(`NoZombie`), `DeliveryInOrder` (`InOrderNoGap`), `DeliveryComplete`
(`NobodySkipped`). `NobodySkipped` is not inductive: a client that has left the set
can still be in a feed's snapshot, and that feed still appends to its channel. `Inv`
therefore speaks of the members of the set and of the snapshots together
(`GivenAll`), and adds that a goroutine closes only clients of its own snapshot
(`ClosesOwn`), that a snapshot exists only inside a broadcast (`InBroadcast`), and
that nobody knows a client before it registers (`UnknownBeforeRegister`). The decisive
step is that a feed forgets a client it dropped only when `close` has returned, hence
after the client left the set. The capacity of a channel rests on the step that offers
a frame testing and sending in one (a `select`).

`WsHubRefinement` (same constants and assumption) proves `HubImplementsRelay`:
`Spec => ImplementsRelay`, the hub is a `Relay`. A frame counts as published when the
feed takes its snapshot, not when the message arrives (`Published` is one behind while
the feed waits for the read lock), and is owed to the clients still in that snapshot
(`Owed`); members, logs and written counts map to themselves. Every step of the hub is
then one step of `Relay` or none: `Snapshot` publishes, `Offer` delivers, the return of
`close` after a drop abandons, `Register` joins, `Unregister` leaves, `WriteOk` writes,
and `SilentStutters` collects the rest. Three facts of `Inv` carry it: a snapshot is
empty when the next frame is published, `close` has taken a client out of the set before
it returns, and a client that registers has an empty log. That only accepted frames are
written needs one invariant more (`WritesTaken`).

`WsHubDrops` (assumption `FinitelyMany` besides) proves `SlowClientsCountedOnce`
(`DropsBounded`). The state does not tell which drops were counted, because a feed
forgets a client when `close` returns. `Booked` says instead that the drops *can* be
booked to as many different pairs of a feed and a client, each of them spent for good:
the feed is still inside that client's `close`, or the client has left the set and the
feed's snapshot, and nobody registers a closed client. A pair that is about to be counted
is not spent yet, so each drop is booked to a new one.

`RateLimitProofs` (any finite set of requests, any limit, window, lag and number of
attempts; assumption `LimitAssumption`): `TypeCorrect`, `AdmissionBounded`
(`WindowBound`), `DenialJustified` (`DeniedOnlyWhenFull`), `KeysExpire`
(`NoStickyKey`). Redis only knows the bucket, and the bucket is trimmed by clocks that
run behind. `Inv` says what the bucket still tells about the past: whatever is no
longer in it is a whole window older than Redis's clock (`Bucket`), and a timestamp in
use is at most `MaxLag` old (`Lag`). So every earlier token of a window of
`Window - MaxLag` ticks that the new one falls into is still in the bucket, whose size
the script limits. `DenialJustified` has to allow for the same clocks: the script trims
from below only, so a request that reaches Redis late is also denied for tokens stamped
after it, by at most `MaxLag`. Over the whole `Window` the bound does not hold once `MaxLag` is
positive, which is why the theorem subtracts it.

`RegistryProofs` (any assets, catalog, page size and number of events; assumption
`RegistryAssumption`): `TypeCorrect`, `SetBeforeBroadcast` (`AnnouncedIsKnown`) and
`OnlyGapsHide` (`MissingOnlyInGap`). Between the steps of `onMsg` the stream may break, so
`Inv` says what the step before has done for the event at the head of the inbox
(`InOnMsg`), that a break empties the inbox (`BeforeLoad`), and, of the chain, that an
asset is registered once and that an address stays that of its asset (`RegisteredOnce`,
`OwnAddress`): otherwise a later event could make an announced address a wrong one.

`HandlersProofs` (any catalog, any query parameters, any limits, keepalive and number of
versions; assumption `HandlersAssumption`): `TypeCorrect`, `PagesInRange`,
`AnswersGenuine` (`NothingInvented`), `AnswersComplete` (`NothingLeftOut`),
`StatusesHonest` and `OutcomesFaithful`. The properties speak of a finished answer; `Inv`
says the same of the answer under construction. Prices and rounds only grow, so what is in
the answer lies between the world at the start and the world now (`Monotone`, `Genuine`);
`AssetsProgress` is the loop invariant of `ListAssets` (the assets before `i` are served,
asset `i` as far as the handler has come), `PriceProgress` that of `GetAssetPrice`, whose
calls come in another order. `RecordSeen` follows a record that moves during its lookup.

`MiddlewareProofs` (any finite set of requests in the chain at once, any hosts, proxies,
origins, headers and limit; assumption `MiddlewareAssumption`): `TypeCorrect`, `LogFaithful` (`LogMatchesWire`), `MetricsExact`
(`CountedOnce`), `BrowserCanRead` (`ReadableByBrowser`), `LimitPerSender` (`PerSender`) and
`TokensForData` (`OnlyDataCharged`). `Inv` follows one request through the chain
(`Local`): which layers it can be in by mode (`Position`), what they have put into its
header (`HeaderSet`), where its answer can come from (`Answering`), what the two recorders
know of it (`Recording`) and when its line is written (`Logged`). `Recording` is the
delicate one: the docs pages write without a status, which works because a fresh recorder
says 200 and no docs page panics, while the metrics recorder of a panicking request is
wrong and is never read. What requests share is `Charged` (keys and buckets) and
`Counting`: each counter is the number of requests that have left the metrics layer
without a panic, or that got a 429. A step of one request leaves the `Local` part of the
others alone (`LocalKept`), which is what makes the argument independent of their number.

`LifecycleProofs` (any number of concurrent requests; assumption `LifecycleAssumption`):
`TypeCorrect`, `NoLeak` (`NothingLeftOpen`), `NoUseAfterClose` (`ClosedAfterUse`),
`ReadyIsUp` (`ReadyMeansUp`). `Inv` says, for each place of the main goroutine, which
connections are open (`Connections`), whether the hub and the listeners run (`HubRuns`,
`ListenersRun`), and that a request which is still handled after `Shutdown` has outlived
its deadline (`Requests`). `NoLeak` compares the close list of each failure branch with
what `Connections` says is open at that step. `Counted` says that the WaitGroup's counter
is the number of listener goroutines that have not returned, from which `TypeCorrect` gets
that `Done` never makes it negative.

Only model-checked: the liveness properties (`hub_liveness`, `StreamedBecomesKnown`,
`RequestEnds`, `SignalEnds`, `FailureEnds`), since fairness is outside what the proof
system covers, and the five refuted properties.

## Not modelled

* The rest of `internal/module`: the application registers no module and never calls
  `InitAll`, `StartAll` or `HealthCheckAll`, so `StopAll` over an empty list is all the
  manager ever does in this program.
* Field-by-field copies in `internal/models`, the keccak ids (an injective renaming of
  the catalog), and the JSON of `wshub/wire.go`.
* `config` and `pkg`: defaults, file and environment formats, logging and version
  strings are data and I/O; their outcomes are steps of `Lifecycle`.
* `/healthz`, `/metrics`, the text of the docs pages and the generated protobuf code.
* The duration histogram, `Flush` of the recorders, `upstream_grpc_calls_total` (which
  nothing increments) and the rate limiter's informational headers.
* An error of the writer that `statusRecorder.Hijack` wraps: net/http's fails only on a
  connection already taken over, and the WebSocket handler takes over once.
* cobra, chi, go-redis, Redis, gRPC and net/http: external, modelled as the code uses
  them.

## Plan

1. Done: all components above; the hub's abstract specification and its refinement;
   theorems for every safety invariant of the passing runs.
2. Possible next: an ideal sliding window, implemented by `RateLimit` when the lag is
   zero, in place of the bucket of `Middleware`; proofs of action properties (what a step
   never takes back) where they say more than the invariants.
