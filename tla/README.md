# A TLA+ model of Ananse

Ananse is a small service mesh written in Go: a **control plane** discovers
services (Kubernetes, Consul or a file), numbers the configurations it builds
and streams them over gRPC to **proxies**. A proxy runs as a **gateway**
(reverse proxy with retries) or as a **sidecar** (transparent interception with
optional mTLS). Both apply configurations while they serve traffic, check the
health of their backends, and keep a circuit breaker per backend. An injector
webhook adds sidecars to pods.

This directory holds TLA+ modules translated from that source, TLC
configurations that check them on small instances, and TLAPS proofs of all
the safety properties that the passing runs check, for every value of the
constants. `PROJECT.json` maps every definition to
the lines it models, and lists the runs, the mutants (one plausible bug for each
property, which the property must catch), the hazards and the findings.

## Inventory

| Component (source) | State | Operations | Hard part | What makes it correct |
|---|---|---|---|---|
| Circuit breaker (`pkg/proxy/backend.go`) | health flag, failure count, countdown, backoff, state | `UpdateStatus`, `GetCircuitState` | three kinds of callers, reports that arrive late; no clock; durations double and wrap | no traffic unless closed; clean after recovery; an open circuit is probed and recovers |
| Backend pool and draining (`backend.go`) | map of backends, `ActiveRequest`, `closed` | `UpdateBackends`, drain goroutines | objects replaced under requests that hold the old ones | counters match the requests in service |
| Load balancer (`loadbalancer.go`) | round-robin index, `lb.mu` | `GetNextPeer` | works on a copied list, asks the pool of the moment, reads circuit and health under two locks | a service that stays is refused only after its endpoints were reported |
| Gateway handler (`handler.go`, `gateway.go`) | per-request attempt and backend | `ServeHTTP` | retry loop across reloads | every request answered, counter released on every path |
| Configuration application (`dataplane.go`, `proxy/main.go`) | router, pool, balancer, health, applied version | `HandleConfig`, `onConfig` | the main goroutine reads the state without `p.mu` | all or nothing; captured objects are the live ones |
| Health checker (`health.go`) | interval, stop channel | `Check`, `Restart` | restart races a sweep in progress | one checker at the configured interval goes on |
| Control plane server (`controlplane/cmd/server.go`) | version, subscriber table, channels | `Subscribe`, `UpdateConfig`, `Shutdown` | two streams of one proxy overlap; slow subscribers; closing channels | never blocks under the lock, never sends on a closed channel, versions increase, streams converge |
| Kubernetes and Consul watcher (`k8s-client.go`, `consul-client.go`) and the loop of `controlplane/cmd/main.go` | signal, timer, channel | `Watch`, `signalUpdate`, `runDebouncer` | coalescing, a bounded channel, cancellation, an initial configuration sent from another goroutine | no lost wake-up; a complete last build reaches the server |
| File watcher (`file-client.go`) | fsnotify watch, timer, timer functions, channel | `Watch`, `LoadConfig`, `validate`, the parse functions | half-written and replaced files, reloads that overlap, a channel closed under a sender | the file's content ends up at the proxies; it dies only where it must |
| Sidecar connections (`listener.go`) | protocol detection, retry loop, two copying goroutines | outbound and inbound handlers, `proxyBidirectional` | half-close, peeking, retries, resources on every error path | counters and connections held exactly as long as used, end of file ends the connection |
| Certificate watcher (`cert_watcher.go`, `listener.go`) | certificate and CA in use, timer, signal | `NewCertWatcher`, `watch`, `reload`, `GetConfig`, `GetCAPool` | three files read during a rotation, connections that hold an older configuration | no rotation it is told of is lost; never backwards |
| Injector (`controlplane/injector`) | package variable `mtlsEnabled` | `handleMutate`, `mutatePod`, `injectSidecar` | concurrent reviews set and read it without a lock | every patch is whole; who asks for mTLS gets it |
| Router (`Router.go`) | routing table | `UpdateRoutes`, `FindService`, `FindServiceByVIP` | two services with the same route: Go's map order decides | each path and method leads to a service that declares it |
| Metrics, tracing, original destination, probe proxy, generated protobuf, demo services, scripts | none that the program reads back | | pure I/O | not modelled |

**Interaction.** Watcher → channel → main loop → `UpdateConfig` → one bounded
channel per subscriber → gRPC stream → `onConfig` → `HandleConfig` → router,
pool, balancer, health checker. Requests read the router, pick through the
balancer (which asks each backend's breaker), use a backend object and report
failures back **by name** to whatever object has that name by then. The health
checker does the same with its probes.

## Modules

| Module | Models | Notes |
|---|---|---|
| `Backend` | the backend object and its two methods | operators; `time.Duration` wraps at `DurationLimit` |
| `CircuitBreaker` | one backend with checker, balancer and failing requests | actions: `HealthTick`, `ProbeResult`, `LBAsk` (the circuit) and `LBIsHealthy` (the health, under another lock), `RequestFails`, `RequestSucceeds`, and the environment's `ServerChanges`; a request may fail although the server is up |
| `CircuitBreakerProofs` | theorems about it | |
| `ConfigFeed` | what a subscriber is promised | abstract: `Publish`, `Deliver` |
| `ConfigServer` | subscriber table, handlers, update, shutdown | `UpdateConfig`'s visit to each channel is split into `Push`, `Drop`, `SendBlocking`, since receivers take no lock |
| `ConfigServerProofs` | theorems, and the refinement of `ConfigFeed` | |
| `DataPlane` | requests, `lb.mu`, pool generations, draining, probes and reloads together | extends `Backend`; a lookup by name and the call on what it found are two steps, as in the code; any round trip and any probe may fail |
| `DataPlaneProofs` | theorems about it | |
| `ProxyState` | start-up, `HandleConfig` step by step, the captured pointers, the checkers and `Restart` | configurations are versions with an interval; what validation refuses is an input; a checker reads the interval (`StartTicker`) and `h.stopCh` (`EnterSelect`) at two moments |
| `ProxyStateProofs` | theorems about it | |
| `Watcher` | Kubernetes and Consul watcher, and the main loop | a configuration is the version of the discovered state it was built from and whether all, some or none of the services were found; with `Consul`, builds may fail or come out partial, and a change of health (`ChangeHealth`) signals nobody |
| `WatcherProofs` | theorems about it | |
| `SidecarConn` | one sidecar connection of any kind | messages are counted, not spelled out; every release is a subtraction on the path that makes it, and the handler keeps the list of its deferred calls (`Return`, `TryAgain`) |
| `SidecarConnProofs` | theorems about it | |
| `MeshConfig` | what a configuration is, how a file becomes one, which ones the control plane and a proxy accept, and the path index | operators; the map order in `UpdateRoutes` is any order of the services |
| `FileWatcher` | discovery from a file: saves, fsnotify, `Watch`, the timer functions | extends `MeshConfig`; a save truncates and writes, or renames |
| `ConfigDelivery` | file watcher, main loop, server and proxies composed, with restarts of the control plane | the server is `ConfigFeed`'s `Deliver`, which `ConfigServer` is proved to implement; `HandleConfig` is one step and only its routes are kept; `ProxyState` takes it apart and has the health interval |
| `CertWatcher` | the certificate directory, the watcher and an outbound connection | a file's content is the rotation it belongs to |
| `CertWatcherProofs` | theorems about it | |
| `Injector` | admission reviews that run concurrently and share `mtlsEnabled` | of a pod only what the decision and the variable depend on |
| `ControlPlaneProofs` | theorems about `ConfigDelivery` (with `MeshConfig` and `FileWatcher`) and about `Injector` | the injector runs in the same process and shares no state with the rest, so its definitions have names of their own and both are extended here |
| `MCConfigServer`, `MCDataPlane`, `MCSidecarConn`, `MCConfigDelivery`, `MCInjector` | constants for TLC | |

Data is abstracted to what the properties distinguish: endpoints are indices,
configurations versions or endpoint counts, HTTP exchanges outcomes. Control is
kept: each lock, early return, error path and their order.

Some atomicity is deliberate. What one lock covers is one action. Where the code
lets go between two reads (`pool.GetCircuitState` looks up under the pool's
lock, then calls the backend under its own; the balancer asks the circuit and
then the health), the model has two actions. In `CircuitBreaker` there is only
one object, so lookup and call are one step there and the two questions are
two; `DataPlane` has all three.

## Runs

### Passing

* **circuit_breaker** (`CircuitBreaker.cfg`, 41k states). The real threshold 5,
  backoff step 3 s and intervals 10 s and 5 s, in seconds. Up to 2 probes and
  3 scans and requests in flight, so reports arrive in every state of the
  breaker and between the two reads of a scan. A request may fail while the
  server is up: the handler reports any error of `RoundTrip`, a client that
  went away among them. Durations wrap at 64, so doubling overflows within a few
  failures, as it does at 2^63 ns in the code after a longer outage. `MaxDebt`
  bounds how far questions to a half-open circuit may push the counter below
  zero (each takes one off); 2 is enough to lose the threshold on the next
  failure. Safety: `NonClosedIsUnhealthy`, `ClosedIsClean`, `FailureBudget`,
  `ChosenOnlyWhenClosed` (the second read decides, whatever was reported since
  the first). Liveness: `OpenIsProbed`, and `Recovers`: once the server stays up
  the backend is healthy again and again, though not for good, since clients
  that go away may still have it reported.
* **config_server** (`ConfigServer.cfg`, 1.1M states). Two proxies, one of which
  connects twice, two updates, capacity 1: overlapping handlers of one
  ProxyId, overflow with a concurrent receive between full-check, drop and
  send, shutdown at any point. `RegisteredOpen`, `PushNeverBlocks`,
  `NewestPending`, `PanicsOnlyAfterShutdown`, the refinement
  `ImplementsFeed`, and the liveness property `Converges`.
* **data_plane** (`DataPlane.cfg`, 1.2M states). Two requests with two attempts
  each and one visit of the health checker, failures of any round trip, response
  body and probe, threshold 2, and one reload: one service stays and grows or
  shrinks between one and two endpoints while another comes or goes.
  `ActiveAccounting`, `Answered` (liveness) and `RetainedServed`: the history
  variable `blamed` collects the names that were reported unhealthy, and a
  service that stays is refused only when each endpoint it keeps is among
  them. Fewer attempts than the code's three make that harder to satisfy, and
  two are enough for the loop to go round.
* **proxy_state** (`ProxyState.cfg`, 74k states). Three configurations, accepted
  or refused, intervals 0, 1 and 2: `AllOrNothing` (routes, backends and
  interval), `CapturedIsLive`, `CheckerAlive`, `NewestTicksAtInterval`,
  `ChecksGoOn`. Three configurations allow two restarts, the second while the
  first new checker has not started. Mode is "sidecar", in which a nil pointer
  ends the process; the gateway's recovered panic is the weaker case.
* **watcher** (`Watcher.cfg`, 325k states). Three changes, signalled or, of
  health alone, not; version 2 without services; queries that fail for all or
  for some services; capacity 2 and cancellation at any time: `NoLostWakeup`,
  `AdaptsOnceStarted`. `Consul` is TRUE: the Kubernetes watcher's behaviours are
  the ones in which every build is complete and every change is signalled.
* **sidecar_conn** (`SidecarConn.cfg`, 4.6k states). All outbound kinds and
  inbound HTTP with and without mTLS, three messages, the code's three attempts:
  `NothingLeaks` (two-sided: not too late, not twice, not too early),
  `EOFEndsServed`, `PeekedBytesArrive`. Clients may close at any time, also
  between the mTLS handshake and the first request.
* **config_delivery** (`ConfigDelivery.cfg`, 877k states). Three texts: one
  service; two that share a route, one method in lower case and an entry that
  is not a service; a route without methods, which the control plane accepts and
  proxies refuse. Two saves, each in two writes or by a rename, so a reload may
  meet the empty file; two timer functions at once, enough for a crossing; one
  restart of the control plane, at any time; one proxy, because proxies do not
  interact. Action properties: `PanicsExplained`, `NeverEmptied`. Invariant:
  `RoutedAsDeclared`. Liveness: `Delivered`, from the file to the proxy.
* **cert_watcher** (`CertWatcher.cfg`, 181k states). Two rotations, so that one
  may begin while the reload for the last one is under way; files are rotated one
  by one, each truncated first, in any order, or all at once by the kubelet's
  link: `NoLostRotation`, `NeverOlder`, and `Follows` (liveness).
* **injector** (`Injector.cfg`, 12k states with reviews interchangeable). Three
  overlapping reviews of any of seven pods: `PatchIsWhole`, `AskedIsGiven`,
  `FlagHasCause`. Two reviews are enough for one to write between the reads of
  the other; the third may do so at another read.

`CHECK_DEADLOCK FALSE` is set where the system may stop: a process that has
exited or panicked, requests and connections that are over, or a bound on
configurations that is used up.

### Violations: where the code and its documents disagree

* **config_reconnect**. `server.go:93` says every subscriber gets updates. The
  late cleanup of a proxy's old stream deletes the registration of its new one.
* **sidecar_half_close**. `listener.go:1085` says each direction half-closes. The
  inbound default case wraps the application's connection without a closer,
  so the application never sees the client's end of file. A client that does
  not speak HTTP gets there, and so does any client that closes after the mTLS
  handshake without a request. `EOFEndsServed` is what remains true.
* **secret_rotation** (`CertWatcherSecret.cfg`). `listener.go:297` says "automatic
  cert reload" and `cert_watcher.go:64` names Secret updates. The injector mounts
  the certificates as a Secret volume, whose updates move the link `..data`:
  no event names one of the three files, and the sidecar never reloads.
  `Follows` is what remains true, for rotations the watcher is told of.

### Also seen while modelling, without a run of its own

Visible in the models or at the line, and listed among the hazards where they
can do harm:

* `backend.go:98`: in the half-open state each call of `GetCircuitState` takes a
  failure off the count, so a failed probe may stay below the threshold and
  the circuit is neither re-opened nor backed off (`src/README.md:64` promises
  exponential backoff).
* `loadbalancer.go:61`: the round-robin index is never advanced (`src/README.md:62`).
* `k8s-client.go:112`: the initial configuration, built early and sent late, may
  overwrite a newer one at the server (`docs/TESTING_PLAN.md:236` expects the
  mesh to adapt); `AdaptsOnceStarted` names the condition.
* `file-client.go:271`: of two timer functions that overlap, the one that read the
  older content may send last; `Delivered` names the condition. Their calls of
  `LoadConfig` write viper's global maps without a lock.
* `file-client.go:237`: an invalid file at the start ends the watcher for good, and
  a file that is replaced by a rename is no longer watched.
* `dataplane.go:282`: proxies refuse a route without methods, `validate` does not: such a
  file is published and nobody applies it.
* `cert_watcher.go:43` before `:48`: a change between the first reload and the watch
  is missed.
* `injector.go:226`: once one pod has asked for mTLS every later pod gets it;
  `webhook-config.yaml` declares no side effects. `injectRequired` does not look for
  a sidecar that is already there.
* `webhook.go:28`: the comment says that the application is killed when the webhook
  server fails; the context it cancels is the webhook's own.
* `backend.go:63`: the comment and the comparison `>= 5` disagree on whether the
  fifth or the sixth failure opens the circuit.
* `metrics.go:105`: the circuit gauge is only set when a circuit opens.
* `backend.go:73`: doubling the backoff has no cap and wraps after many
  failures; `OpenIsProbed` and `Recovers` hold in spite of it.
* `server.go:145` with `:65`, and `:57`: after `Shutdown` handlers may close a
  channel twice or write to a nil map. `PanicsOnlyAfterShutdown` confines it.
* `backend.go:180`: `closed` is set and never read; a drained backend could
  still be given a request that picked it before.
* Routes are replaced before backends, so a *new* service may be refused during
  a reload (`docs/TESTING_PLAN.md:140` expects none dropped). `RetainedServed`
  says who is safe.
* `proxy/main.go:51`: a refused first configuration still counts as the first;
  the handler then captures nil objects.
* `health.go:121`: a checker in mid-sweep during `Restart` reads the new stop
  channel afterwards and survives beside its successor.
* `health.go:31`: an interval of 0 panics in `time.NewTicker`.
* `consul-client.go:171`: a failed query yields an empty configuration, which
  is dropped until the next change; `:190`: a failed query of one service yields a
  configuration without that service, which is pushed.
* `consul-client.go:101`: only the list of services is watched, so an instance that
  turns unhealthy stays until that list changes.
* `handler.go:148`: any error of `RoundTrip` is reported against the backend, also
  when the client has gone away; `Recovers` and `RetainedServed` allow for it.
* `listener.go:610`: a retry of a request with a body fails in `req.Write` and
  is counted against a backend that did nothing. So is a certificate error of
  the sidecar's own.
* `listener.go:862`: a plain client of a sidecar with certificates is not told when
  the application closes a kept-alive connection (`replayConn` has no `CloseWrite`).
* `listener.go:945`: the inbound `Peek(24)` has no deadline.

## Fairness

Only weak fairness, only of what the program itself schedules: goroutines that
can run do run, tickers and timers fire, an I/O call returns with a result or an
error. For a probe that is its 3 s timeout; for `stream.Send` the transport;
for `RoundTrip` and the sidecar's `ReadResponse`, which set no deadline, it
is an assumption about the environment that the module states. Nothing is
assumed about traffic, proxies, discovery, the operator or whether a server is
up. In `ConfigDelivery` and `DataPlane` one condition, that some goroutine goes on
while one can, is enough because saves, reloads and requests are finitely many. `Recovers` takes "stays up" as
its premise, `Converges` "stays registered", and
`AdaptsOnceStarted` spells out the conditions (a last change that was signalled, a
last build without failed queries, room in the channel, `Watch` returned first)
without which the code does not adapt.
`Delivered` asks that the file ends up watched and acceptable to both sides and
that timer functions never overlap, and it takes from `ConfigServer` that streams
stay registered (`Converges`); `Follows` asks that no change went unseen.

## Proofs

TLAPS proves these for **every** value of the constants that satisfies the named
assumptions.

`CircuitBreakerProofs`, from `ThresholdAssumption`, `BackoffAssumption`,
`DurationAssumption` (the threshold and the width are positive, the step is a
natural number) and `IntervalAssumption`, `BoundAssumption`:

* `TypeCorrect`: durations stay in range by wrapping, never by luck;
* `OpenIsUnhealthy`, `ClosedStartsClean`, `FailuresBounded`: the three invariants;
* `ChosenNeedsClosed`: the action property `ChosenOnlyWhenClosed`, over the two reads.

The inductive invariant is `IInv`, the conjunction of the type invariant and the
three others. None of the three is inductive alone: `FailureBudget` needs
`ClosedIsClean` (a backend is chosen only on a closed circuit, where the count is
below the threshold), and `ClosedIsClean` needs `NonClosedIsUnhealthy` (no step but
a healthy report leaves a circuit closed again). Lemmas about
`UpdateStatus` and `GetCircuitState` state once what each does to the object; the
step proof has one case per action.

`ConfigServerProofs`, from `CapAssumption`, `StreamAssumption` and `VersionAssumption`
(any proxies, any streams, any positive capacity, any number of updates):

* `TypeCorrect`: channels never exceed their capacity;
* `NeverSendsOnClosed`, `UpdateNeverBlocks`, `NewestSurvives`: the invariants of the
  latest-only push;
* `NoPanicWhileRunning`: the two panics of this code need `Shutdown`;
* `Refinement`: `Spec => ImplementsFeed`.

The inductive invariant adds two parts to the properties: `UpdaterInv` (what
`UpdateConfig` has yet to visit is registered, because it holds `s.mu`) and
`ChanInv` (each channel is increasing, newer than what its stream has sent or is
committed to send, and older than an update that has not reached it). `ChanInv` is
what makes the refinement go through: a `Receive` is a `Deliver` because the head
of the channel is newer than `sent`. `NoPanicWhileRunning` uses `OpenWhileRunning`
(before shutdown only finished handlers have closed channels) on its own. The
refinement maps `published` to `version` and `seen` to `sent`; only `UpdateConfig`
and successful sends are visible steps.

`ControlPlaneProofs`, about `ConfigDelivery`, from `TextAssumption` (an empty file is not
valid), `RawAssumption` (an empty file has no services, any other finitely many),
`SavesAssumption` and `RestartsAssumption` (any bounds), for any texts and proxies:

* `DeliveryTypes`: the types, with the capacity of the channel;
* `RoutesAsDeclared`: `RoutedAsDeclared`;
* `PanicsAreExplained`, `RoutesStay`: the action properties `PanicsExplained` and
  `NeverEmptied`.

The inductive invariant `IInv`, which TLC confirms on the instance of
`ConfigDelivery.cfg`, adds two parts. `OnlyLoadedSent`: what is on its
way to the channel was loaded, so it is not the text of a truncated file;
without it the type of the channel, and so of `log`, is not preserved.
`ClosedAtRest`: the channel is closed exactly when `Watch` has returned, and
outside its loop a timer or a timer function is under way only after a
cancellation. A send on the closed channel therefore takes a shutdown, which is
`PanicsExplained`. `RoutedAsDeclared` changes only when a proxy applies a
configuration (`ReceiveCases`: version 0 has no services and is refused), and then
it is a fact about `UpdateRoutes` alone, `PathIndexesOK`. That fact is an
induction over the rounds of its loop. The library's induction theorems take an
operator that the provers cannot instantiate, so the argument is put in terms of
sets: `LeastNat` (from the well-foundedness of `<`) gives the first round after which
a claim fails, and the round before it gives the contradiction. `RoundsExist`
shows in this way that the recursive function is defined, `RoundsOK` what it contains after each
round. `OrdersCover` adds that an order without repetitions, as long as the set is
large, leaves no service out. `NeverEmptied` needs in addition that an accepted
configuration routes something (`AcceptedIsRouted`).

`ControlPlaneProofs`, about `Injector`, from `PodsAssumption` (any reviews, any pods):

* `PatchesAreWhole`, `AskedAreGiven`, `FlagsHaveCauses`: the three invariants.

The inductive invariant adds `ReadsInOrder` (what a handler has read true is
still true, since the variable never goes back, and a handler past `SetFlag`
finds its own pod's wish in it) and `Decided` (only a pod that is to be injected
gets that far). `PatchIsWhole` speaks of finished patches only, so it says nothing
about the reads still to come; `ReadsInOrder` is what carries it there.

`DataPlaneProofs`, from `ConfigAssumption` (no accepted configuration is empty),
`CountAssumption` (any bounds, at least one attempt, finitely many requests),
`IdAssumption` and `Backend`'s assumptions:

* `TypeCorrect`;
* `CountersMatchRequests`: `ActiveAccounting`, for objects of every generation;
* `RetainedAlwaysServed`: `RetainedServed`, for any number of reloads.

`ActiveAccounting` needs `RequestOK`: a request that will decrement holds an object,
and it is the one it incremented. Three lemmas (`CountSame`, `CountMore`,
`CountLess`) say what a step of one request does to the set of requests that use an
object; every action is one of the three. `RetainedServed` needs the rest of
the invariant. `UnblamedClean`: every object, of whatever generation, whose name
was never reported unhealthy is as new, because only healthy reports reach it
and asking the circuit of a new backend changes nothing. That takes `RequestOK` and `ProbeOK`: a
report or a probe result is booked on an object of the name it is about, although
the object is looked up after a reload. `RetainedRouted`: the route survives every
`UpdateRoutes`. `RequestOK` also says what a scan has passed over: an endpoint that
every configuration keeps is in the copied list and in the pool of the moment, so
it was passed over only if its object was not as new, hence reported. A scan that
ends without a backend has therefore seen every kept endpoint reported.

`ProxyStateProofs`, from `ModeAssumption`, `IntervalsAssumption` and
`MaxConfigsAssumption` (either mode, any intervals, any number of configurations):

* `AppliedAsAWhole`, `HandlersHoldLiveObjects`, `CheckerSurvivesRestart`,
  `NewestFollowsInterval`: the four invariants.

`AllOrNothing` speaks of the moments when `HandleConfig` is not running;
`AppliedSoFar` extends it to every step inside, by what that step has replaced
already, the interval included. `CheckerAlive` needs `ChannelsInOrder`: stop channels are closed in the order they are
made, so the one that `Restart` makes is not among the closed ones, and no
checker exists before `Health` does.

`WatcherProofs`, from `ChangesAssumption`, `CapAssumption` and `ConsulAssumption`:

* `TypeCorrect`: the channel stays within its capacity and only valid
  configurations are on their way;
* `WakeupsNeverLost`: `NoLostWakeup`.

`NoLostWakeup` holds only of a debouncer at rest. `BuiltSinceTold` drops that
condition: at every moment either something is pending (a handler that has
not run, a signal, a timer) or the last build, complete or not, is no older than
the last change that was signalled.

`SidecarConnProofs`, from `KindsAssumption` and `CountAssumption`:

* `TypeCorrect`: attempts and reports stay within the number of attempts, and no
  release is made twice;
* `HandlersLeakNothing`: `NothingLeaks`.

`NothingLeaks` says at which points of the handler a backend and a connection are
held, `DeferredWhereHeld` which of the two releases is deferred there: on the
routes without a loop all of it at once, on the mesh route nothing before the
response has been read. A return or a retry preserves the invariant exactly if
what it releases by hand and what is deferred add up to what is held
(`AccountsFor` in the proofs), which each failing path shows for itself.
`RouteWhereChosen` ties places to routes; `OncePerAttempt` bounds the reports.

`CertWatcherProofs`, from `WritersAssumption` and `RotationsAssumption`:

* `RotationsNeverLost`: `NoLostRotation`;
* `VerifiedWithNewer`: `NeverOlder`;
* `ConfigNeverGoesBack`: the action property `ConfigAdvances`, which is proved and has no
  run.

`ReadsAreFresh` is to `NoLostRotation` what `BuiltSinceTold` is to `NoLostWakeup`, through
the three reads of a reload: with nothing pending, what has been read so far is
still on disk, and a refused reload was refused because the rotation is not
complete, so that more events will come. `InOrder` (disk, reload,
configuration, connection: none is ahead of the one before) carries the other two.

**Only model-checked:** the liveness properties (fairness and ENABLED are out of
this prover's reach): `OpenIsProbed`, `Recovers`, `Converges`, `Answered`, `ChecksGoOn`,
`AdaptsOnceStarted`, `EOFEndsServed`, `PeekedBytesArrive`, `Delivered` and `Follows`.

## Not modelled, and why

* Header rewriting, body copying, logging, metrics, trace spans: nothing in the
  program depends on them.
* `getNextLeastConnection`: `HandleConfig` always creates a round-robin balancer.
* gRPC, net/http, informers and the Consul API are outside the repository; they
  appear as the outcomes the code distinguishes. Client-side `LastSeenVersion`
  is sent and never read by the server.
* Data races on the fields `p.mu` should protect appear as interleavings of
  whole reads and writes (pointers are word-sized); torn values are not modelled.
* Demo services, tools, scripts, Helm charts and generated code.

* `rewriteProbes`, `storeProbeAnnotation` and `getProbePort` of the injector: their only
  call is commented out. The parts of a pod that do not depend on
  `mtlsEnabled` are constants of the patch.
* `periodicCheck` of the certificate watcher only logs, and `Stop` is never called.
* The VIP index: the file client sets no cluster IP, and the sidecar's use of
  it is an outcome in `SidecarConn`.
* `webhook.go` and the start of servers: no state of their own.
* Environment variables that override the file's ports.

## What could follow

Every safety property of the passing runs is a theorem; what is left is liveness,
which stays with TLC. Least-connections would be a component with its own driver,
should the code come to use it.
