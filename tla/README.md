# A TLA+ model of L7rp

L7rp is a layer-7 reverse proxy and load balancer in Go, with a layer-4 side.
This directory models the parts of it in which several goroutines share state,
or in which one request passes through many hands, checks them with TLC on small
instances and proves the main results with TLAPS for every instance. Paths below
are relative to the repository's source.

## The system

| Part | Source | State it owns | Used by |
|---|---|---|---|
| circuit breaker | `internal/lb/circuit.go` | closed / open / half-open, window of outcomes, probe counters | every attempt, `EligibleForSelection` |
| upstream, eligibility | `internal/lb/upstream.go`, `selector.go` | `Eligible`, `InFlight`, `Breaker`, latency average | selectors, proxies, monitors |
| selectors | `internal/lb/{roundrobin,weighted,leastconnections,p2c,consistenthash}.go` | cursors, weights, hash ring | proxies |
| HTTP proxy | `internal/upstream/proxy.go` | one handler per attempt | retry, or the route |
| WebSocket proxy | `internal/upstream/websocket.go` | one session | the HTTP proxy |
| TCP proxy | `internal/l4/proxy.go` | one session | the TCP listener |
| health monitor | `internal/health/monitor.go` | counters and passive score per upstream | the pool |
| retry and hedge | `internal/middleware/retry.go` | locals of one request | the route's chain |
| runtime, reload, shutdown | `cmd/l7rp/main.go` | `rt.cfg`, `rt.listeners`, `rt.pools`, router pointer, `sigCh` | everything |
| listeners | `internal/listener` | sockets, connections | the runtime |
| TCP listener | `internal/l4/listener.go` | a socket, a `WaitGroup` of connections | the runtime |
| router | `internal/router/router.go` | an immutable table | listeners |
| rate limit | `internal/middleware/ratelimit.go` | token buckets | the route's chain |
| configuration | `internal/config/config.go` | nothing after loading | the runtime |
| compression, panic recovery, timeout, request id, access log, headers | `internal/middleware` | locals of one request | the route's chain |
| TLS, smuggling checks, metrics, tracing | `internal/listener`, `internal/observability` | certificates, counters nobody reads back | listeners |

A listener loads the router pointer once per request, and the route's chain ends
in the proxy of a pool. The proxy picks an upstream whose flag is set and whose
breaker is not open, reserves a place with the breaker, sends the request and
records the outcome with the breaker and with the monitor. The monitor's probes
and its passive score set and clear the flag. A reload rebuilds pools while all
of this is running and keeps upstreams whose URL did not change.

What is hard in it: `Pick`, `Reserve` and `Record` of concurrent attempts
interleave; contexts end at any point; outcomes arrive in a later breaker phase
than the one they belong to; probes overlap with one another, with the passive
score and with the probes of the monitor they replaced; the two attempts of a
hedged request race a timer and a disconnecting client; a reload may fail
between any two of its steps; drains outlast the reload that started them.
Selectors read counters that change while they compare them; clock readings
reach a token bucket out of order; a response passes five writers, each of which
may hold it back, rewrite it, or be left in the middle by a panic.
`PROJECT.json` lists these hazards line by line.

## The modules

`Breaker` is the breaker as a data type: a record and one operator per method.
The mutex is held for a whole method, so a call is atomic. `CircuitBreaker` runs
one of them under any order of calls and passing time, and `BreakerPolicy` is
what it promises: the same three modes, but with the complete history in place
of a trimmed slice and with time alone ending an open period, where the code
waits for the next call to notice. `CircuitBreaker!ImplementsPolicy` is the
refinement.

`UpstreamProxy` is a pool: the upstreams' breakers, counters and flags, and
attempts that use them. An attempt moves one access to shared state at a time:

| Attempt at | HTTP (`ServeHTTP`) | WebSocket (`serveWebSocket`) | TCP (`ServeConn`) |
|---|---|---|---|
| `idle` -> | `Pick`, `PickNone` | the same | `PickTCP` |
| `picked` | `Refused`, `Admitted` | the same | |
| `reserved`, `handshake`, `dialing` | `CountInFlight` | `HandshakeFails`, `HandshakeAccepted` | `DialFails`, `SessionStarts` |
| `roundtrip`, `accepted`, `session` | `RoundTripFails`, `RoundTripAnswers` | `ShuttleStarts` | `SessionEnds` |
| `closing` | `Finish` | `Finish` | `Finish` |

`Cancel` ends contexts, several at once when a client with a hedged request
goes. A selector is any choice from `eligibleSet`.

`HealthMonitor` is the monitors of one upstream: the present one, and those a
reload replaced. `recordResult` is three steps, since it counts under its lock
and reads and stores `Eligible` outside it. The passive average is kept as what
the code asks of it, whether it is above its threshold.

`Retry` puts `serveSequential` and `serveHedged` in front of `UpstreamProxy`.
It extends that module, uses its actions for the attempts and adds what the
middleware sees of them: the buffered status, the error and the upstream chosen.
Every step of it is a step of `UpstreamProxy` (`ImplementsProxy`).

`L4Listener` puts the accept loop, the goroutine of each connection, `Shutdown`
and the end of the process around the same module's TCP sessions
(`L4ImplementsProxy`). The step between `Accept` and `conns.Add(1)` is there.

`Selectors` is the inside of `Pick`, which `UpstreamProxy` takes for any choice
from `eligibleSet`: the five algorithms, one load of an atomic at a time, with
`disturbed` marking the Picks under which something has changed. Hashes are
abstracted to a ring and the entry a key leads to; the latency average to any
value between the old one and the observation.

| Selector | Steps of a Pick after `eligibleSet` |
|---|---|
| round robin, weighted | one: an atomic add, or a mutex held throughout |
| least-conn | the loads of the minimum, of the ties, then of the one drawn among them |
| p2c | the draw, then average and count of each of the two |
| consistent hashing | the loads of the sum, then of the walk, then of the fallback |

`RateLimit` is the middleware with its buckets: reading the clock and entering
the mutex are two steps. Tokens are rationals, counted in fractions of a second.

`Exchange` is one request and its answer through a route's chain: what Retry
replays, and the writers from the proxy's to the server's. `w` holds them all,
`Write`, `WriteHeader` and `Flush` pass down them, and returns and panics unwind
them in the order of the deferred calls. A chunk is its attempt, its index and
its size, and is marked when it is coded. `Retry` has the concurrency of this
middleware and no bytes; `Exchange` has the bytes and sequential attempts.

`Routing` is `NewRouter`, `buildCertMap` and what is looked up in their results,
after both validations. Hosts are sequences of labels, paths of segments.

`Runtime` is the process: the one-place signal channel, `reloadConfig` step by
step with each of its error returns, `listenerPlan.apply`, the goroutines that
drain retired listeners, and the shutdown in `serve`.

`MC*` modules give TLC its symmetry and derived constants. `MCUpstreamProxy` also
names the steps of an L7 pool in which no attempt is cancelled and no handshake
fails, since each of these loses a probe slot (`proxy_wedge`); cancelled attempts
and failed handshakes are checked behind `Retry`, TCP sessions behind
`L4Listener`, whose steps they are. Definitions that say
"Mutant" in their comment are wrong on purpose: each is a plausible slip in the
definition below it, and substituting it makes a checked property fail.

## The runs

| Run | Instance | Shows |
|---|---|---|
| `circuit_breaker` | window of 3 samples and 2 time units, openings of 1 to 3, 2 probes, 5 outcomes since closing | the breaker implements its policy; phases start clean; the trimmed window loses nothing the trip test needs |
| `proxy` | 1 upstream, 3 HTTP or WebSocket attempts that restart without limit, none cancelled and no handshake refused, window of 1, 2 probes | half-open admits at most `HalfOpenProbes`, no probe slot is lost, open and half-open end |
| `retry` | 1 request, HTTP or a WebSocket whose handshake fails, up to 3 attempts or a hedged pair, cancellations, 2 upstreams | nothing outlives the answer, retries go elsewhere, the answer is not an attempt the middleware cut off, every request is answered; `InFlight` stays exact and only faults of an upstream trip its breaker |
| `l4` | 1 upstream, 3 connections, shutdown at any time | sessions are attempts of the proxy, a drain that reports success has missed at most one connection, the process ends |
| `health` | 2 probes at a time, 2 monitors, 2 successes or 1 failure | a success threshold is reached only by an unbroken run; a backend that stays down is out for good; one that stays up comes back |
| `selectors` | 3 upstreams, 2 goroutines, 4 ring entries and 2 keys, one other attempt per upstream | an undisturbed Pick is exact; shares are fair and credit is conserved with any overlap |
| `exchange` | all 16 chains, 2 attempts, bodies of up to 2 chunks around the threshold | one complete answer, of one attempt, coded as agreed, logged as sent; failures reach the client; attempts send the same |
| `routing` | all lists of up to 3 of 25 routes, or of 3 certificates; 80 requests, 5 server names | the most specific route and certificate; one kind of dead route only |
| `ratelimit` | 3 handlers, 3 ways to an address, 8 units of 1/3 s | the rate is kept between any two admissions; `Retry-After` is enough |
| `runtime` | 2 listeners, 1 pool, 2 definitions each, 2 edits | a listener that stays configured is served without a gap; no edit is missed |

Two more runs end in a counterexample, because the code does something other
than a comment or the documentation says:

* `proxy_wedge`: a cancelled probe keeps its half-open slot. When every slot has
  gone this way the breaker refuses every attempt, nothing can record an
  outcome, and the upstream stays out until the process restarts.
* `runtime_shutdown`: `apply` deletes the name of a replaced listener from
  `rt.listeners` after it has put the new instance there. At shutdown that
  instance is not told to stop and `listenerWG.Wait` does not return.

### Smaller disagreements

They came up while modelling; the models do what the code does, and the
properties name the cases they leave out.

Breaker, proxy and health:

* a success from before a trip counts as a probe success in half-open
  (`circuit.go:183` against the comment at 68-70);
* `ServeConn` never calls `Reserve`, so TCP sessions are not limited in
  half-open (README 121);
* a probe that counted its success before a passive ejection stores
  `Eligible = true` after it, without the fresh run of successes
  `monitor.go:175-176` and README 217 ask for;
* probe goroutines outlive the `Run` that a reload waits for (`main.go:856-858`);
* no `ResponseWriter` that `main.go` hands to a route implements
  `http.Hijacker`, and behind `HeaderTransform` the `Upgrade` header is gone
  (`headers.go:59-62`), so in the composed program `serveWebSocket` ends at its
  first error return. The model keeps the whole handler.

Selectors:

* `LeastConnections` counts ties on second loads; if they all moved the count is
  0 and `IntN(0)` panics (`leastconnections.go:67`);
* `RecordOutcome` has no caller, so that in HTTP pools the averages stay 0 and
  P2C is a random choice;
* an upstream of weight 0 still gets the request when it is the only one left.

Middleware:

* a hedge is dispatched with an empty `Exclude` and may share the primary's
  upstream (README 129);
* behind `Compress` a panic is answered with 200 and an empty body, since the
  deferred `Close` commits before `PanicRecover` looks (`panic.go:16-18`);
* an upstream's body that breaks off is passed on as if complete; only a
  `Content-Length` shows it, and a coded response has none (`proxy.go:230`);
* a request body over the replay cap is sent cut (`retry.go:312`);
* an empty body is coded, and a flush per chunk ends in the outer recorders;
* `timeout.go:9-12` expects 502 where the proxy answers 504, and
  `accesslog.go:21-23` another order of the chain than `main.go` builds;
* `ratelimit.go:27-28` mentions a reaper of idle buckets; there is none, and a
  reload starts with full buckets.

Router, configuration and runtime:

* the number of predicates orders routes before the configuration's order does
  (`router.go:9-12`); a route without a prefix beside one for `/` is dead;
* `config.Validate` accepts a predicated route after a catch-all, and
  `NewRouter` refuses it (`config.go:47-49`);
* a reload that fails after it cancelled monitors or bound sockets leaves them
  so (`main.go:937-938`): the pool stays routed and is not probed, the sockets
  share their port through `SO_REUSEPORT` and nobody accepts from them;
* an HTTP/3 listener binds without `SO_REUSEPORT` (`http3.go:37`), so a reload
  cannot replace it on its address (`listener.go:112-116`);
* the comment of `reloadConfig` says listener changes are rejected, and they are
  applied;
* the drain of a TCP listener can miss the connection `Accept` has just returned
  (`l4/listener.go:88-90`).

### Bounds

A breaker's clocks are relative and stop at the first value past their last
comparison, so a finite instance loses no behaviour of time. Health counters
stop one past the threshold they are compared with. Thresholds and windows are
the smallest values at which "one less" and "one more" are different cases,
except that one failed probe is enough to eject in `health`, and one failure to
trip in `proxy`, whose properties are about open and half-open (the window is the
subject of `circuit_breaker`).
Three attempts on one upstream are two probes and one attempt too many, or two
probes and one straggler of the previous phase; three connections are one in
hand, one in session and one that ends. Two probes with two monitors are a
current one and one of the monitor it replaced. Two edits are a reload and one
that meets what the first left behind. Three upstreams are two that tie and a
third; two goroutines are a Pick and what disturbs it, and one other attempt per
upstream lets counts fall as well as rise. Routes repeat hosts and prefixes, so
that three of them compete in each rank. `MaxHistory`, `MaxMonitors`,
`MaxEdits`, `MaxTime`, `MaxAdmits`, `MaxLoad` and `MaxAttempts` cut behaviours
off, `Bodies` and the like choose inputs, and the theorems do not depend on their
values; `Routes` and `CertHosts` limit `routing`, where TLC is all there is.
Symmetry is used in safety runs only. `runtime`, `runtime_shutdown` and
`ratelimit` do not check for deadlock: the process is meant to stop, or the clock
is at its bound.

### Fairness

`ProxyFairness`: a handler runs on (dials and response headers have timeouts),
time passes, and requests keep coming. Health flags and cancellations need not
happen. `FairHealthSpec`: the ticker keeps starting probes, a probe ends
(it has a timeout), and a reload that cancelled a monitor starts the next.
`FairRetrySpec`: each handler and each attempt runs on; the timer fires.
`L4Spec`: the goroutines of `Serve` and `Shutdown` run on and the drain's
deadline passes; sessions may last for ever. `Runtime!FairSpec`: the signal loop
and the drains run on; the operator need not do anything.

## The proofs

* `BreakerProofs`: what each method of a breaker returns and preserves; then, for
  `CircuitBreaker`, the inductive invariant is the conjunction of `TypeOK`,
  `PhasesStartClean` and `WindowIsTailOfHistory`. The last is what makes the
  refinement go through: the trimmed slice is the tail of the history and what is
  missing is outside the window for good, so both trip tests count the same
  samples. Theorem `BreakerRefinesPolicy`.
* `UpstreamProxyProofs`: `InFlightBalanced` is inductive with the types, by what
  a step does to the set of counted attempts. `HalfOpenAdmission` needs that
  `sent` never exceeds `probesAdmitted` in half-open. `NoTripWithoutFault` needs
  that a window without blame holds no failure. The probe slots of a half-open
  phase are accounted for by `SlotInv`: those given out are held by attempts of
  that phase, paid back by a success, or lost. Without further assumption none
  is forged (`SlotsNeverForged`); in behaviours whose steps satisfy `KeepsSlots`,
  where no context ends early and no handshake fails, none is lost
  (`SlotsNeverLost`), which is what the run `proxy` checks and `proxy_wedge`
  refutes without that condition. For any finite set of attempts and any set of
  upstreams.
* `RetryProofs`: `RetryInv` says which attempts a handler in each place may have
  running, that only dispatched attempts are in the proxy, and that the
  `Exclude` list holds every upstream tried. From it `NothingLeftBehind` and
  `RetriesElsewhere`. `AbortInv` adds whose context can have ended while the
  client is there, which gives `AnswerNotAborted`. And since every step is a step
  of the proxy, the proxy's theorems hold behind the middleware
  (`ProxyGuaranteesBehindRetry`).
* `L4ListenerProofs`: every step of the listener is a step of the proxy, which
  gives its theorems behind the listener. `ListenerInv` adds that `Serve` has at
  most one connection in hand, that the socket is closed once `Shutdown` waits,
  and that once the wait has returned no two connections are left: the count was
  0 then, so only the one in hand was there, and no later `Accept` succeeds.
* `RuntimeProofs`, the runtime: `RuntimeInv` says that an unloaded edit has a
  signal on its way, that what is in use was started, and that a listener about
  to be retired is gone from the configuration or has a successor that serves or
  will before the old one is drained. From it `NoEditMissed` and `StaysServed`,
  for any number of listeners, pools, edits, failed reloads and drains.
* `RuntimeProofs`, the health monitors: a counter of successes is the length of a
  run at the end of the results, for any number of probes and reloads.
* `RuntimeProofs`, the rate limit: `LimitInv` says, for each key, that what has
  been admitted since any admission and what is left in the bucket together do
  not exceed the burst and what the rate gave since; and that at the time a
  client was promised the bucket will hold a token. The first yields
  `WithinRate` although readings of the clock arrive out of order, because
  `lastFill` never goes back.
* `ExchangeProofs`: `ExchangeInv` says, for each place a request can be in, what
  each writer holds: nothing yet; a response being copied, of which Compress has
  decided or still keeps the first bytes, and of which the server or Retry's
  buffer has exactly the chunks read so far; an attempt unwound into the buffer;
  or the answer, whole. Each of `Write`, `WriteHeader`, `Flush`, `Close`,
  `flushTo` and the recovery of a panic has a lemma that carries one such state
  to the next. All seven properties of the run follow, for every chain, request
  and response, any number of chunks and attempts and any `Accept-Encoding`.
* `SelectorStepProofs` and `SelectorsProofs`: `PickInv` says, for a Pick under
  which nothing has changed, what its loads so far amount to: the minimum, the
  ties or the sum of the part it has walked. From it `UndisturbedPickIsExact`, for any pool, ring and number
  of goroutines; in particular consistent hashing always finds an upstream below
  its cap. For weighted round robin a bound on the credit of single upstreams is
  not inductive. `Owed` bounds that of every part of the pool: k of N upstreams
  are together owed at most k (N - k) / 2 times the sum of the weights. The Pick
  that takes from the part's best keeps this, since the others then have no more
  than it. `CreditIsConserved` is the case k = 1. `ShareInv` says what credit is
  while every Pick has the whole pool: the difference between the turns an
  upstream is due and those it was given, times the sum of the weights; hence
  `EveryoneGetsTheirShare`.

What a recursive definition computes (the sum over a pool, the loop over
`Accept-Encoding`, the sum of chunks) is shown along its values one argument at a
time: the set of arguments at which a claim fails would have a least element.

The assumptions are the named `ASSUME`s of the modules: the configuration is one
`DefaultCircuitBreakerConfig` or the configuration's defaults satisfy, sets of
attempts are finite, L7 and TCP pools are apart. Every proof is checked to the
last leaf.

Type correctness of the breaker, the proxy, the health monitor, the retry
middleware and the runtime is proved and is not among the runs' properties.

Only model-checked: the liveness properties, which the prover does not reach;
and `Routing`, whose properties are about the order that a sort of the routes
leaves and about lists of labels of any length.

## What is left out

* In `UpstreamProxy`, `Pick` is one step. Every selector returns a member of
  `eligibleSet`'s result or nothing, as its definition in `Selectors` has it, so
  this is the weakest assumption about it, except for a panic of least-conn;
  and the scan of the breakers is atomic.
* In `Retry`, a 504 counts as a 502.
* A reload during a Pick: it writes `Weight` of a kept upstream without a lock.
* Hedged attempts in `Exchange`; headers other than those named there, request
  ids, the other fields of the log, hop-by-hop headers.
* Requests in `Runtime`, and so what a drain cut short does to them.
* Parsing of files and flags, validation of listeners, pools and TCP routes (a
  file that fails is a failed load), `config.Manager`, which nothing uses.
* The checks for ambiguous framing, which are stateless tests of header syntax;
  loading certificates and ACME, which are I/O.
* Metrics and tracing: counters that nothing in the program reads back.
* The connections inside `net/http` and `quic-go`.
